-------------------------- MODULE BootMemoryProofs --------------------------
(***************************************************************************)
(* Proofs about BootMemory, for every size of pages, tables and memory.    *)
(***************************************************************************)
EXTENDS BootMemory, TLAPS

(***************************************************************************)
(* Arithmetic.                                                             *)
(***************************************************************************)

\* The sizes.
LEMMA Sizes ==
    /\ PAGE_SIZE \in Nat \ {0} /\ BYTE \in Nat \ {0} /\ PD_BYTES \in Nat \ {0}
    /\ HEAP_BYTES \in Nat \ {0} /\ NODE_BYTES \in Nat \ {0}
    /\ MAX_ORDER \in Nat /\ KERNEL_LO \in Nat /\ PM_END \in Nat
    /\ HEADER_BYTES \in Nat /\ KHEAP_INITIAL_SIZE \in Nat
    /\ KHEAP_START \in Nat /\ KHEAP_START > 0
    /\ HEAP_BYTES + NODE_BYTES <= PD_BYTES
  BY BootConstants

\* ALIGN rounds up.
LEMMA AlignUp ==
    ASSUME NEW a \in Int
    PROVE  ALIGN(a, PAGE_SIZE) \in Int /\ ALIGN(a, PAGE_SIZE) >= a
<1> DEFINE size == PAGE_SIZE
           x == a + size - 1
           q == x \div size
<1>1. size \in Nat \ {0} /\ x \in Int
  BY Sizes
<1>2. q \in Int /\ x < size * q + size
  <2> HIDE DEF x, size
  <2> QED BY <1>1
<1> HIDE DEF q
<1>3. size * q \in Int /\ size * q = q * size
  BY <1>1, <1>2
<1>4. q * size \in Int /\ q * size >= a
  BY <1>1, <1>2, <1>3
<1> QED BY <1>4 DEF q, ALIGN

\* The page of an address below n pages is one of the n.
LEMMA PageBelow ==
    ASSUME NEW a \in Nat, NEW n \in Nat
    PROVE  /\ Page(a) \in Nat
           /\ a < n * PAGE_SIZE => Page(a) < n
           /\ a >= n * PAGE_SIZE => Page(a) >= n
<1> DEFINE q == a \div PAGE_SIZE
<1>1. q \in Int /\ PAGE_SIZE * q <= a /\ a < PAGE_SIZE * q + PAGE_SIZE
  BY Sizes
<1> HIDE DEF q
<1>2. q >= 0
  <2> SUFFICES ASSUME q <= -1 PROVE FALSE
    BY <1>1
  <2>1. PAGE_SIZE * q <= PAGE_SIZE * (-1)
    BY <1>1, Sizes
  <2> QED BY <1>1, <2>1, Sizes
<1>3. ASSUME a < n * PAGE_SIZE PROVE q < n
  <2> SUFFICES ASSUME q >= n PROVE FALSE
    BY <1>1
  <2>1. PAGE_SIZE * q >= n * PAGE_SIZE
    BY <1>1, Sizes
  <2>2. PAGE_SIZE * q \in Int /\ n * PAGE_SIZE \in Int
    BY <1>1, Sizes
  <2> QED BY <1>1, <1>3, <2>1, <2>2
<1>4. ASSUME a >= n * PAGE_SIZE PROVE q >= n
  <2> SUFFICES ASSUME q + 1 <= n PROVE FALSE
    BY <1>1
  <2>1. PAGE_SIZE * (q + 1) <= n * PAGE_SIZE
    BY <1>1, Sizes
  <2>2. PAGE_SIZE * (q + 1) = PAGE_SIZE * q + PAGE_SIZE /\ n * PAGE_SIZE \in Int
        /\ PAGE_SIZE * q \in Int
    BY <1>1, Sizes
  <2> QED BY <1>1, <1>4, <2>1, <2>2, Sizes
<1> QED BY <1>1, <1>2, <1>3, <1>4 DEF q, Page

\* The page that begins at n pages is page n.
LEMMA PageAt ==
    ASSUME NEW n \in Nat
    PROVE  Page(n * PAGE_SIZE) = n /\ n * PAGE_SIZE \in Nat
           /\ n * PAGE_SIZE + PAGE_SIZE = (n + 1) * PAGE_SIZE
<1>1. n * PAGE_SIZE \in Nat /\ (n + 1) * PAGE_SIZE = n * PAGE_SIZE + PAGE_SIZE
      /\ (n + 1) * PAGE_SIZE \in Nat
  BY Sizes
<1>2. Page(n * PAGE_SIZE) >= n /\ Page(n * PAGE_SIZE) \in Nat
  BY <1>1, PageBelow
<1>3. n + 1 \in Nat /\ n * PAGE_SIZE < (n + 1) * PAGE_SIZE
  BY <1>1, Sizes
<1>4. Page(n * PAGE_SIZE) < n + 1
  BY <1>1, <1>3, PageBelow
<1> QED BY <1>1, <1>2, <1>4

\* The heap does not begin on page 0, and what is behind its first byte is
\* not on a page before its first.
LEMMA HeapPages ==
    /\ Page(KHEAP_START) \in Nat
    /\ \A a \in Nat : a >= KHEAP_START => Page(a) >= Page(KHEAP_START) /\ Page(a) \in Nat
<1>1. Page(KHEAP_START) \in Nat
  BY Sizes, PageBelow
<1>2. Page(KHEAP_START) * PAGE_SIZE <= KHEAP_START
  <2> DEFINE q == KHEAP_START \div PAGE_SIZE
  <2>1. q \in Int /\ PAGE_SIZE * q <= KHEAP_START
    BY Sizes
  <2> HIDE DEF q
  <2>2. PAGE_SIZE * q = q * PAGE_SIZE
    BY <2>1, Sizes
  <2> QED BY <2>1, <2>2 DEF q, Page
<1>3. ASSUME NEW a \in Nat, a >= KHEAP_START
      PROVE  Page(a) >= Page(KHEAP_START) /\ Page(a) \in Nat
  <2>1. Page(KHEAP_START) * PAGE_SIZE \in Int
    BY <1>1, Sizes
  <2>2. a >= Page(KHEAP_START) * PAGE_SIZE
    BY <1>2, <1>3, <2>1, Sizes
  <2> QED BY <1>1, <2>2, PageBelow
<1> QED BY <1>1, <1>3

(***************************************************************************)
(* The map of frames: no assumption on where the initrd is.                *)
(***************************************************************************)
Statements == {"bitmaps", "directory", "heap_tables", "identity", "initrd",
               "heap_frames", "heap_init", "done", "panic"}

\* Frames are handed out in order, from 0, to pages 0, 1, ... first.
FramesInOrder ==
    /\ next_frame \in Nat /\ vaddr \in Nat /\ pc \in Statements
    /\ \A p \in DOMAIN pte : pte[p] \in Nat /\ pte[p] < next_frame
    /\ pc \in {"bitmaps", "directory", "heap_tables"} => next_frame = 0 /\ DOMAIN pte = {}
    /\ pc \in {"identity", "initrd"} =>
          /\ vaddr = next_frame * PAGE_SIZE
          /\ DOMAIN pte = 0 .. (next_frame - 1)
          /\ \A p \in DOMAIN pte : pte[p] = p
    /\ pc = "heap_frames" => vaddr >= KHEAP_START

MapInv == FramesInOrder /\ IdentityMapped

\* A page of its own gets the next frame.
LEMMA FrameGiven ==
    ASSUME MapInv, NEW after \in Statements, alloc_frame(after),
           NEW page, page = Page(vaddr),
           page < Page(KHEAP_START) => page = next_frame
    PROVE  /\ next_frame' \in Nat /\ pc' \in {after, "panic"}
           /\ \A p \in DOMAIN pte' : pte'[p] \in Nat /\ pte'[p] < next_frame'
           /\ IdentityMapped'
           /\ PFN(page) = 0 /\ pc' = after /\ after # "panic" =>
                 /\ next_frame' = next_frame + 1
                 /\ DOMAIN pte' = DOMAIN pte \cup {page}
                 /\ pte'[page] = next_frame
                 /\ \A p \in DOMAIN pte : p # page => pte'[p] = pte[p]
           /\ DOMAIN pte \subseteq DOMAIN pte'
<1>1. next_frame \in Nat /\ \A p \in DOMAIN pte : pte[p] \in Nat /\ pte[p] < next_frame
  BY DEF MapInv, FramesInOrder
<1>2. /\ \A p \in DOMAIN pte : p < Page(KHEAP_START) => pte[p] = p
      /\ \A p, q \in DOMAIN pte : pte[p] = pte[q] => p = q
  BY DEF MapInv, IdentityMapped
<1>3. CASE pte' = pte /\ next_frame' = next_frame
  <2>1. pc' \in {after, "panic"}
    BY DEF alloc_frame
  <2>2. PFN(page) = 0 => pc' = "panic"
    <3> SUFFICES ASSUME PFN(page) = 0 PROVE pc' = "panic"
      OBVIOUS
    <3>1. next_frame + 1 # next_frame
      BY <1>1
    <3> QED BY <1>3, <3>1 DEF alloc_frame
  <2>3. IdentityMapped'
    BY <1>2, <1>3 DEF IdentityMapped, Page
  <2> QED BY <1>1, <1>3, <2>1, <2>2, <2>3
<1>4. CASE ~(pte' = pte /\ next_frame' = next_frame)
  <2>1. /\ pte' = [p \in DOMAIN pte \cup {page} |-> IF p = page THEN next_frame ELSE pte[p]]
        /\ next_frame' = next_frame + 1 /\ pc' = after
    BY <1>4 DEF alloc_frame
  <2>2. DOMAIN pte' = DOMAIN pte \cup {page} /\ pte'[page] = next_frame
        /\ \A p \in DOMAIN pte : p # page => pte'[p] = pte[p]
    BY <2>1
  <2>3. \A p \in DOMAIN pte' : p = page \/ (p \in DOMAIN pte /\ p # page /\ pte'[p] = pte[p])
    BY <2>2
  <2>4. \A p \in DOMAIN pte' : pte'[p] \in Nat /\ pte'[p] < next_frame'
    BY <1>1, <2>1, <2>2, <2>3
  <2>5. \A p \in DOMAIN pte' : p < Page(KHEAP_START) => pte'[p] = p
    BY <1>2, <2>2, <2>3
  <2>6. \A p, q \in DOMAIN pte' : pte'[p] = pte'[q] => p = q
    <3> SUFFICES ASSUME NEW p \in DOMAIN pte', NEW q \in DOMAIN pte', pte'[p] = pte'[q]
                 PROVE  p = q
      OBVIOUS
    <3>1. ASSUME NEW r \in DOMAIN pte, r # page PROVE pte'[r] # next_frame
      BY <1>1, <2>2, <3>1
    <3>2. CASE p = page
      BY <2>2, <2>3, <3>1, <3>2
    <3>3. CASE q = page
      BY <2>2, <2>3, <3>1, <3>3
    <3>4. CASE p # page /\ q # page
      BY <1>2, <2>3, <3>4
    <3> QED BY <3>2, <3>3, <3>4
  <2>7. IdentityMapped'
    BY <2>5, <2>6 DEF IdentityMapped, Page
  <2> QED BY <1>1, <2>1, <2>2, <2>4, <2>7
<1> QED BY <1>3, <1>4

\* A round of a loop that maps identically.
LEMMA IdentityRound ==
    ASSUME MapInv, pc \in {"identity", "initrd"}, alloc_frame(pc), vaddr' = vaddr + PAGE_SIZE
    PROVE  MapInv'
<1>1. /\ next_frame \in Nat /\ vaddr = next_frame * PAGE_SIZE
      /\ DOMAIN pte = 0 .. (next_frame - 1) /\ \A p \in DOMAIN pte : pte[p] = p
      /\ pc \in Statements
  BY DEF MapInv, FramesInOrder, Statements
<1>2. Page(vaddr) = next_frame /\ vaddr' = (next_frame + 1) * PAGE_SIZE /\ vaddr' \in Nat
  <2>1. Page(next_frame * PAGE_SIZE) = next_frame
        /\ next_frame * PAGE_SIZE + PAGE_SIZE = (next_frame + 1) * PAGE_SIZE
        /\ next_frame * PAGE_SIZE \in Nat
    BY <1>1, PageAt
  <2> QED BY <1>1, <2>1, Sizes
<1>3. PFN(next_frame) = 0
  <2>1. next_frame \notin DOMAIN pte
    BY <1>1
  <2> QED BY <2>1 DEF PFN
<1>4. /\ next_frame' \in Nat /\ pc' \in {pc, "panic"}
      /\ \A p \in DOMAIN pte' : pte'[p] \in Nat /\ pte'[p] < next_frame'
      /\ IdentityMapped'
      /\ pc' = pc =>
            /\ next_frame' = next_frame + 1
            /\ DOMAIN pte' = DOMAIN pte \cup {next_frame}
            /\ pte'[next_frame] = next_frame
            /\ \A p \in DOMAIN pte : p # next_frame => pte'[p] = pte[p]
  BY <1>1, <1>2, <1>3, FrameGiven
<1>5. CASE pc' = "panic"
  BY <1>2, <1>4, <1>5 DEF MapInv, FramesInOrder, Statements
<1>6. CASE pc' = pc
  <2>1. DOMAIN pte' = 0 .. (next_frame' - 1)
    BY <1>1, <1>4, <1>6
  <2>2. \A p \in DOMAIN pte' : pte'[p] = p
    BY <1>1, <1>4, <1>6
  <2> QED BY <1>1, <1>2, <1>4, <1>6, <2>1, <2>2 DEF MapInv, FramesInOrder
<1> QED BY <1>4, <1>5, <1>6

\* Steps that leave the map alone.
LEMMA MapStays ==
    ASSUME MapInv, pte' = pte, next_frame' = next_frame, vaddr' \in Nat, pc' \in Statements,
           pc' \in {"bitmaps", "directory", "heap_tables"} =>
              pc \in {"bitmaps", "directory", "heap_tables"},
           pc' \in {"identity", "initrd"} =>
              \/ pc \in {"identity", "initrd"} /\ vaddr' = vaddr
              \/ pc = "heap_tables" /\ vaddr' = 0,
           pc' = "heap_frames" => vaddr' >= KHEAP_START
    PROVE  MapInv'
<1>1. IdentityMapped'
  BY DEF MapInv, IdentityMapped, Page
<1>2. CASE pc' \in {"identity", "initrd"}
  <2>1. CASE pc \in {"identity", "initrd"} /\ vaddr' = vaddr
    BY <1>1, <1>2, <2>1 DEF MapInv, FramesInOrder
  <2>2. CASE pc = "heap_tables" /\ vaddr' = 0
    <3>1. next_frame = 0 /\ DOMAIN pte = {}
      BY <2>2 DEF MapInv, FramesInOrder
    <3>2. 0 * PAGE_SIZE = 0 /\ 0 .. (0 - 1) = {}
      BY Sizes
    <3> QED BY <1>1, <1>2, <2>2, <3>1, <3>2 DEF MapInv, FramesInOrder
  <2> QED BY <1>2, <2>1, <2>2
<1>3. CASE pc' \notin {"identity", "initrd"}
  BY <1>1, <1>3 DEF MapInv, FramesInOrder
<1> QED BY <1>2, <1>3

LEMMA MapInit == Init => MapInv
<1> SUFFICES ASSUME Init PROVE MapInv
  OBVIOUS
<1>1. pc = "bitmaps" /\ vaddr = 0 /\ next_frame = 0 /\ pte = <<>>
  BY DEF Init
<1>2. DOMAIN pte = {}
  BY <1>1
<1> QED BY <1>1, <1>2 DEF MapInv, FramesInOrder, IdentityMapped, Statements

LEMMA MapNext == MapInv /\ [Next]_vars => MapInv'
<1> SUFFICES ASSUME MapInv, [Next]_vars PROVE MapInv'
  OBVIOUS
<1>1. vaddr \in Nat /\ pc \in Statements
  BY DEF MapInv, FramesInOrder
<1>2. CASE frame_initialize
  BY <1>1, <1>2, MapStays DEF frame_initialize, Statements
<1>3. CASE create_kernel_pd
  BY <1>3, MapStays, Sizes DEF create_kernel_pd, Statements
<1>4. CASE map_heap_tables
  <2>1. vaddr' \in Nat
    BY <1>1, <1>4, Sizes DEF map_heap_tables
  <2> QED BY <1>4, <2>1, MapStays DEF map_heap_tables, Statements
<1>5. CASE map_kernel
  <2>1. CASE vaddr < placement_address + PAGE_SIZE
    BY <1>5, <2>1, IdentityRound DEF map_kernel
  <2>2. CASE ~(vaddr < placement_address + PAGE_SIZE)
    BY <1>1, <1>5, <2>2, MapStays DEF map_kernel, Statements
  <2> QED BY <2>1, <2>2
<1>6. CASE map_initrd
  <2>1. CASE vaddr < initrd_end + PAGE_SIZE
    BY <1>6, <2>1, IdentityRound DEF map_initrd
  <2>2. CASE ~(vaddr < initrd_end + PAGE_SIZE)
    BY <1>1, <1>6, <2>2, MapStays, Sizes DEF map_initrd, Statements
  <2> QED BY <2>1, <2>2
<1>7. CASE map_heap
  <2>1. CASE vaddr < HEAP_END
    <3>1. pc = "heap_frames" /\ alloc_frame("heap_frames") /\ vaddr' = vaddr + PAGE_SIZE
      BY <1>7, <2>1 DEF map_heap
    <3>2. vaddr >= KHEAP_START
      BY <3>1 DEF MapInv, FramesInOrder
    <3>3. ~(Page(vaddr) < Page(KHEAP_START))
      BY <1>1, <3>2, HeapPages
    <3>4. /\ next_frame' \in Nat /\ pc' \in {"heap_frames", "panic"}
          /\ \A p \in DOMAIN pte' : pte'[p] \in Nat /\ pte'[p] < next_frame'
          /\ IdentityMapped'
      BY <3>1, <3>3, FrameGiven DEF Statements
    <3>5. vaddr' \in Nat /\ vaddr' >= KHEAP_START
      BY <1>1, <3>1, <3>2, Sizes
    <3> QED BY <3>4, <3>5 DEF MapInv, FramesInOrder, Statements
  <2>2. CASE ~(vaddr < HEAP_END)
    BY <1>1, <1>7, <2>2, MapStays DEF map_heap, Statements
  <2> QED BY <2>1, <2>2
<1>8. CASE heap_init
  BY <1>1, <1>8, MapStays DEF heap_init, Statements
<1>9. CASE UNCHANGED vars
  BY <1>9 DEF vars, MapInv, FramesInOrder, IdentityMapped, Page
<1> QED BY <1>2, <1>3, <1>4, <1>5, <1>6, <1>7, <1>8, <1>9 DEF Next

\* vm_initialize and alloc_frame: wherever the initrd is and however much
\* memory there is, a page below the heap has the frame of the same number,
\* and no frame is mapped twice.
THEOREM LowMemoryIsIdentity == Spec => []IdentityMapped
<1>1. MapInv => IdentityMapped
  BY DEF MapInv
<1> QED BY <1>1, MapInit, MapNext, PTL DEF Spec

(***************************************************************************)
(* The page tables of the heap, wherever the initrd is.                    *)
(***************************************************************************)

\* The addresses that the loops over the heap visit.
HeapAddresses == {KHEAP_START + k * PAGE_SIZE : k \in Nat}

\* The heap has its page tables before it gets frames.
HeapTables ==
    /\ pc \in {"heap_tables", "heap_frames"} => vaddr \in HeapAddresses
    /\ pc = "heap_tables" => \A v \in HeapAddresses : v < vaddr => TableOf(v) \in tables
    /\ pc \in {"identity", "initrd", "heap_frames"} =>
          \A v \in HeapAddresses : v < HEAP_END => TableOf(v) \in tables

\* The next address of the loop over the heap.
LEMMA HeapAddressNext ==
    ASSUME NEW v \in HeapAddresses
    PROVE  /\ v \in Nat /\ v + PAGE_SIZE \in HeapAddresses
           /\ \A w \in HeapAddresses : w < v + PAGE_SIZE => w < v \/ w = v
<1>1. PICK k \in Nat : v = KHEAP_START + k * PAGE_SIZE
  BY DEF HeapAddresses
<1>2. k * PAGE_SIZE \in Nat /\ (k + 1) * PAGE_SIZE = k * PAGE_SIZE + PAGE_SIZE
  BY Sizes
<1>3. v + PAGE_SIZE = KHEAP_START + (k + 1) * PAGE_SIZE
  BY <1>1, <1>2, Sizes
<1>4. ASSUME NEW w \in HeapAddresses, w < v + PAGE_SIZE PROVE w < v \/ w = v
  <2>1. PICK m \in Nat : w = KHEAP_START + m * PAGE_SIZE
    BY DEF HeapAddresses
  <2>2. m * PAGE_SIZE \in Nat
    BY Sizes
  <2>3. m <= k
    <3> SUFFICES ASSUME m >= k + 1 PROVE FALSE
      OBVIOUS
    <3>1. m * PAGE_SIZE >= (k + 1) * PAGE_SIZE
      BY Sizes
    <3> QED BY <1>1, <1>2, <1>4, <2>1, <2>2, <3>1, Sizes
  <2>4. CASE m = k
    BY <1>1, <2>1, <2>4
  <2>5. CASE m + 1 <= k
    <3>1. (m + 1) * PAGE_SIZE <= k * PAGE_SIZE /\ (m + 1) * PAGE_SIZE = m * PAGE_SIZE + PAGE_SIZE
      BY <2>5, Sizes
    <3> QED BY <1>1, <1>2, <2>1, <2>2, <3>1, Sizes
  <2> QED BY <2>3, <2>4, <2>5
<1> QED BY <1>1, <1>2, <1>3, <1>4, Sizes DEF HeapAddresses

LEMMA PageHasTable ==
    ASSUME get_page
    PROVE  tables \subseteq tables' /\ TableOf(vaddr) \in tables'
  BY DEF get_page

LEMMA HeapTablesNext == HeapTables /\ [Next]_vars => HeapTables'
<1> SUFFICES ASSUME HeapTables, [Next]_vars PROVE HeapTables'
  OBVIOUS
<1>0. KHEAP_START \in HeapAddresses /\ \A v \in HeapAddresses : v \in Nat /\ ~(v < KHEAP_START)
  <2>1. 0 * PAGE_SIZE = 0 /\ KHEAP_START + 0 = KHEAP_START /\ 0 \in Nat
    BY Sizes
  <2>2. KHEAP_START \in HeapAddresses
    BY <2>1 DEF HeapAddresses
  <2>3. ASSUME NEW k \in Nat
        PROVE  KHEAP_START + k * PAGE_SIZE \in Nat /\ ~(KHEAP_START + k * PAGE_SIZE < KHEAP_START)
    <3>1. k * PAGE_SIZE \in Nat
      BY Sizes
    <3> QED BY <3>1, Sizes
  <2> QED BY <2>2, <2>3 DEF HeapAddresses
<1>1. CASE frame_initialize
  BY <1>1 DEF frame_initialize, HeapTables
<1>2. CASE create_kernel_pd
  BY <1>0, <1>2 DEF create_kernel_pd, HeapTables, HeapAddresses
<1>3. CASE map_heap_tables
  <2>1. /\ pc = "heap_tables" /\ vaddr \in HeapAddresses
        /\ \A v \in HeapAddresses : v < vaddr => TableOf(v) \in tables
    BY <1>3 DEF map_heap_tables, HeapTables
  <2>2. CASE vaddr < HEAP_END
    <3>1. get_page /\ vaddr' = vaddr + PAGE_SIZE /\ pc' = pc
      BY <1>3, <2>2 DEF map_heap_tables
    <3>2. /\ vaddr' \in HeapAddresses
          /\ \A v \in HeapAddresses : v < vaddr' => TableOf(v) \in tables'
      BY <2>1, <3>1, HeapAddressNext, PageHasTable
    <3> QED BY <2>1, <3>1, <3>2 DEF HeapTables, HeapAddresses, TableOf
  <2>3. CASE ~(vaddr < HEAP_END)
    <3>1. pc' = "identity" /\ tables' = tables
      BY <1>3, <2>3 DEF map_heap_tables
    <3>2. HEAP_END \in Nat /\ vaddr \in Nat
      BY <1>0, <2>1, Sizes DEF HEAP_END
    <3>3. \A v \in HeapAddresses : v < HEAP_END => v < vaddr
      BY <1>0, <2>3, <3>2
    <3> QED BY <2>1, <3>1, <3>3 DEF HeapTables, HeapAddresses, TableOf, HEAP_END
  <2> QED BY <2>2, <2>3
<1>4. CASE map_kernel \/ map_initrd
  <2>1. \A v \in HeapAddresses : v < HEAP_END => TableOf(v) \in tables
    BY <1>4 DEF map_kernel, map_initrd, HeapTables
  <2>2. /\ tables \subseteq tables' /\ pc' \in {"identity", "initrd", "heap_frames", "panic"}
        /\ pc' = "heap_frames" => vaddr' = KHEAP_START
    BY <1>4, PageHasTable DEF map_kernel, map_initrd, alloc_frame
  <2> QED BY <1>0, <2>1, <2>2 DEF HeapTables, HeapAddresses, TableOf, HEAP_END
<1>5. CASE map_heap
  <2>1. /\ pc = "heap_frames" /\ vaddr \in HeapAddresses
        /\ \A v \in HeapAddresses : v < HEAP_END => TableOf(v) \in tables
    BY <1>5 DEF map_heap, HeapTables
  <2>2. /\ tables \subseteq tables' /\ pc' \in {"heap_frames", "heap_init", "panic"}
        /\ pc' = "heap_frames" => vaddr' = vaddr + PAGE_SIZE
    BY <1>5, <2>1, PageHasTable DEF map_heap, alloc_frame
  <2>3. vaddr + PAGE_SIZE \in HeapAddresses
    BY <2>1, HeapAddressNext
  <2> QED BY <2>1, <2>2, <2>3 DEF HeapTables, HeapAddresses, TableOf, HEAP_END
<1>6. CASE heap_init
  BY <1>6 DEF heap_init, HeapTables
<1>7. CASE UNCHANGED vars
  BY <1>7 DEF vars, HeapTables, HeapAddresses, TableOf, HEAP_END
<1> QED BY <1>1, <1>2, <1>3, <1>4, <1>5, <1>6, <1>7 DEF Next

(***************************************************************************)
(* What the kernel places, wherever the initrd is.                         *)
(***************************************************************************)

\* Placing goes on upwards until placement_address is set anew.
Upwards == {"bitmaps", "directory", "heap_tables", "identity", "initrd"}

RegionOK(r) == r.lo \in Nat /\ r.hi \in Nat /\ r.lo <= r.hi

\* The image and what pm.c and vm.c have placed.
Own(regions) == {r \in regions : r.what # "initrd"}
OwnApart(regions) == \A r, s \in Own(regions) : r # s => Apart(r, s)

\* It lies below placement_address.
OwnBelow ==
    /\ nframes \in Nat /\ initrd_end \in Nat /\ placement_address \in Nat /\ order \in Nat
    /\ pc = "bitmaps" => order <= MAX_ORDER
    /\ pc \in Upwards => \A r \in Own(placed) : RegionOK(r) /\ r.hi <= placement_address

OwnInv == MapInv /\ HeapTables /\ OwnBelow /\ EarlyPlacedDisjoint

LEMMA OwnAre == EarlyPlacedDisjoint <=> (pc # "done" => OwnApart(placed))
  BY DEF EarlyPlacedDisjoint, OwnApart, Own

\* ikmalloc puts a region behind them.
LEMMA OwnPlaced ==
    ASSUME NEW what, NEW size \in Nat, NEW align \in BOOLEAN, ikmalloc(what, size, align),
           placement_address \in Nat, OwnApart(placed),
           \A r \in Own(placed) : RegionOK(r) /\ r.hi <= placement_address
    PROVE  /\ placement_address' \in Nat /\ OwnApart(placed')
           /\ \A r \in Own(placed') : RegionOK(r) /\ r.hi <= placement_address'
<1> DEFINE at == Placement(align)
           R == Region(what, at, size)
<1>1. at \in Int /\ at >= placement_address
  <2>1. ALIGN(placement_address, PAGE_SIZE) \in Int
        /\ ALIGN(placement_address, PAGE_SIZE) >= placement_address
    BY AlignUp
  <2> QED BY <2>1 DEF Placement
<1> HIDE DEF at
<1>2. placement_address' = at + size /\ placed' = placed \cup {R}
  BY DEF ikmalloc, at
<1>3. R.lo = at /\ R.hi = at + size
  BY DEF Region
<1> HIDE DEF R
<1>4. placement_address' \in Nat /\ placement_address' >= placement_address
  BY <1>1, <1>2
<1>5. \A r \in Own(placed') : r \in Own(placed) \/ r = R
  BY <1>2 DEF Own
<1>6. RegionOK(R) /\ R.hi <= placement_address'
  BY <1>1, <1>2, <1>3 DEF RegionOK
<1>7. \A r \in Own(placed) : r.hi <= R.lo /\ r.hi <= placement_address'
  BY <1>1, <1>3, <1>4 DEF RegionOK
<1>8. OwnApart(placed')
  BY <1>5, <1>7 DEF OwnApart, Apart
<1> QED BY <1>4, <1>5, <1>6, <1>7, <1>8

LEMMA OwnTable ==
    ASSUME get_page, placement_address \in Nat, OwnApart(placed),
           \A r \in Own(placed) : RegionOK(r) /\ r.hi <= placement_address
    PROVE  /\ placement_address' \in Nat /\ OwnApart(placed')
           /\ \A r \in Own(placed') : RegionOK(r) /\ r.hi <= placement_address'
<1>1. CASE TableOf(vaddr) \in tables
  BY <1>1 DEF get_page
<1>2. CASE TableOf(vaddr) \notin tables
  <2>1. ikmalloc("table", PAGE_SIZE, TRUE)
    BY <1>2 DEF get_page
  <2> QED BY <2>1, OwnPlaced, Sizes
<1> QED BY <1>1, <1>2

\* The image ends where the free memory begins, or before: the page that is
\* counted for an initrd makes up for the multiboot header that is not.
LEMMA ImageBelow ==
    ASSUME NEW l \in Layouts
    PROVE  /\ l.kernel \in Nat /\ PmStart(l) \in Nat /\ PmStart(l) <= PM_END
           /\ KERNEL_LO + l.kernel <= PmStart(l)
<1>1. /\ l.kernel \in Nat /\ l.initrd \in Nat /\ l.initrd >= 1 /\ PmStart(l) <= PM_END
      /\ HEADER_BYTES <= PAGE_SIZE
  BY BootConstants, BootImage
<1>2. l.kernel - HEADER_BYTES \in Int /\ l.initrd \in Int
  BY <1>1, Sizes
<1>3. PICK k, i : k = ALIGN(l.kernel - HEADER_BYTES, PAGE_SIZE) /\ i = ALIGN(l.initrd, PAGE_SIZE)
  OBVIOUS
<1>4. k \in Int /\ k >= l.kernel - HEADER_BYTES
  BY <1>2, <1>3, AlignUp
<1>5. i \in Int /\ i >= PAGE_SIZE
  <2> DEFINE x == l.initrd + PAGE_SIZE - 1
             q == x \div PAGE_SIZE
  <2>1. x \in Nat /\ x >= PAGE_SIZE /\ i = q * PAGE_SIZE
    BY <1>1, <1>3, Sizes DEF ALIGN
  <2>2. q \in Nat /\ q >= 1
    <3>1. x >= 1 * PAGE_SIZE /\ 1 \in Nat
      BY <2>1, Sizes
    <3> HIDE DEF x
    <3>2. Page(x) \in Nat /\ Page(x) >= 1
      BY <2>1, <3>1, PageBelow
    <3> QED BY <3>2 DEF Page
  <2> HIDE DEF q
  <2>3. PICK d \in Nat : q = d + 1
    <3>1. q - 1 \in Nat /\ q = (q - 1) + 1
      BY <2>2
    <3> QED BY <3>1
  <2>4. (d + 1) * PAGE_SIZE = d * PAGE_SIZE + PAGE_SIZE /\ d * PAGE_SIZE \in Nat
    BY Sizes
  <2> QED BY <2>1, <2>3, <2>4, Sizes
<1>6. PmStart(l) = KERNEL_LO + k + i
  BY <1>3 DEF PmStart
<1> QED BY <1>1, <1>4, <1>5, <1>6, Sizes

LEMMA OwnInit == Init => OwnInv
<1> SUFFICES ASSUME Init PROVE OwnInv
  OBVIOUS
<1>1. PICK l \in Layouts :
         /\ initrd_end = InitrdStart(l) + l.initrd
         /\ nframes = (PM_END - PmStart(l)) \div PAGE_SIZE
         /\ placement_address = PmStart(l)
         /\ placed = {Region("kernel", KERNEL_LO, l.kernel),
                      Region("initrd", InitrdStart(l), l.initrd)}
  BY DEF Init
<1>2. pc = "bitmaps" /\ order = 0
  BY DEF Init
<1>3. /\ l.kernel \in Nat /\ PmStart(l) \in Nat /\ PmStart(l) <= PM_END
      /\ KERNEL_LO + l.kernel <= PmStart(l)
  BY ImageBelow
<1>4. nframes \in Nat
  <2>1. ASSUME NEW a \in Nat PROVE a \div PAGE_SIZE \in Nat
    BY PageBelow DEF Page
  <2>2. PM_END - PmStart(l) \in Nat
    BY <1>3, Sizes
  <2> QED BY <1>1, <2>1, <2>2
<1> DEFINE K == Region("kernel", KERNEL_LO, l.kernel)
           I == Region("initrd", InitrdStart(l), l.initrd)
<1>5. K.lo = KERNEL_LO /\ K.hi = KERNEL_LO + l.kernel /\ I.what = "initrd"
  BY DEF Region
<1>6. placed = {K, I}
  BY <1>1
<1> HIDE DEF K, I
<1>7. \A r \in Own(placed) : r = K
  BY <1>5, <1>6 DEF Own
<1>8. RegionOK(K) /\ K.hi <= placement_address
  BY <1>1, <1>3, <1>5, Sizes DEF RegionOK
<1>9. initrd_end \in Nat
  <2>1. l.initrd \in Nat /\ l.gap \in Nat
    BY BootConstants
  <2>2. KERNEL_LO + l.kernel + l.gap \in Nat
    BY <1>3, <2>1, Sizes
  <2>3. InitrdStart(l) \in Int /\ InitrdStart(l) >= KERNEL_LO + l.kernel + l.gap
    BY <2>2, AlignUp DEF InitrdStart
  <2> QED BY <1>1, <2>1, <2>2, <2>3
<1>10. OwnBelow
  <2>1. placement_address \in Nat
    BY <1>1, <1>3
  <2>2. order \in Nat /\ order <= MAX_ORDER
    BY <1>2, Sizes
  <2>3. \A r \in Own(placed) : RegionOK(r) /\ r.hi <= placement_address
    BY <1>7, <1>8
  <2> QED BY <1>4, <1>9, <2>1, <2>2, <2>3 DEF OwnBelow
<1>11. EarlyPlacedDisjoint
  BY <1>7, OwnAre DEF OwnApart
<1> QED BY <1>2, <1>10, <1>11, MapInit DEF OwnInv, HeapTables

\* The size of a bitmap.
LEMMA BitmapSize ==
    ASSUME nframes \in Nat, order \in 0 .. MAX_ORDER
    PROVE  BitmapBytes \in Nat
<1>1. ASSUME NEW a \in Nat, NEW b \in Nat \ {0} PROVE a \div b \in Nat
  <2> DEFINE q == a \div b
  <2>1. q \in Int /\ a < b * q + b
    OBVIOUS
  <2> HIDE DEF q
  <2>2. q >= 0
    <3> SUFFICES ASSUME q <= -1 PROVE FALSE
      BY <2>1
    <3>1. b * q <= b * (-1)
      BY <2>1
    <3> QED BY <2>1, <3>1
  <2> QED BY <2>1, <2>2 DEF q
<1>2. 2^order \in Nat \ {0}
  BY BootPowers
<1>3. nframes \div 2^order \in Nat
  BY <1>1, <1>2
<1>4. (nframes \div 2^order) + BYTE - 1 \in Nat
  BY <1>3, Sizes
<1> QED BY <1>1, <1>4, Sizes DEF BitmapBytes

LEMMA OwnNext == OwnInv /\ [Next]_vars => OwnInv'
<1> SUFFICES ASSUME OwnInv, [Next]_vars PROVE OwnInv'
  OBVIOUS
<1>0. MapInv' /\ HeapTables' /\ nframes \in Nat /\ placement_address \in Nat /\ order \in Nat
      /\ initrd_end \in Nat /\ initrd_end' = initrd_end
  <2>1. initrd_end' = initrd_end
    BY DEF Next, vars, frame_initialize, create_kernel_pd, map_heap_tables, map_kernel,
           map_initrd, map_heap, heap_init
  <2> QED BY <2>1, MapNext, HeapTablesNext DEF OwnInv, OwnBelow
<1> SUFFICES OwnBelow' /\ (pc' # "done" => OwnApart(placed'))
  <2>1. EarlyPlacedDisjoint' <=> (pc' # "done" => OwnApart(placed'))
    BY DEF EarlyPlacedDisjoint, OwnApart, Own
  <2> QED BY <1>0, <2>1 DEF OwnInv
<1>1. /\ pc # "done" => OwnApart(placed)
      /\ pc \in Upwards => \A r \in Own(placed) : RegionOK(r) /\ r.hi <= placement_address
      /\ pc = "bitmaps" => order <= MAX_ORDER
  BY OwnAre DEF OwnInv, OwnBelow
<1>2. ASSUME nframes' = nframes, order' \in Nat, pc' # "done", pc' = "bitmaps" => order' <= MAX_ORDER,
             placement_address' \in Nat, OwnApart(placed'),
             \A r \in Own(placed') : RegionOK(r) /\ r.hi <= placement_address'
      PROVE  OwnBelow' /\ (pc' # "done" => OwnApart(placed'))
  BY <1>0, <1>2 DEF OwnBelow, Own, RegionOK
<1>3. CASE frame_initialize
  <2>1. pc = "bitmaps" /\ order \in 0 .. MAX_ORDER
    BY <1>0, <1>1, <1>3, Sizes DEF frame_initialize
  <2>2. BitmapBytes \in Nat
    BY <1>0, <2>1, BitmapSize
  <2>3. PICK align \in BOOLEAN : ikmalloc("bitmap", BitmapBytes, align)
    BY <1>3 DEF frame_initialize
  <2>4. /\ placement_address' \in Nat /\ OwnApart(placed')
        /\ \A r \in Own(placed') : RegionOK(r) /\ r.hi <= placement_address'
    BY <1>0, <1>1, <2>1, <2>2, <2>3, OwnPlaced DEF Upwards
  <2>5. /\ nframes' = nframes /\ order' \in Nat /\ pc' # "done"
        /\ pc' = "bitmaps" => order' <= MAX_ORDER
    BY <1>3, <2>1, Sizes DEF frame_initialize
  <2> QED BY <1>2, <2>4, <2>5
<1>4. CASE create_kernel_pd
  <2>1. /\ ikmalloc("directory", PD_BYTES, TRUE) /\ pc = "directory" /\ pc' = "heap_tables"
        /\ nframes' = nframes /\ order' = order
    BY <1>4 DEF create_kernel_pd
  <2>2. /\ placement_address' \in Nat /\ OwnApart(placed')
        /\ \A r \in Own(placed') : RegionOK(r) /\ r.hi <= placement_address'
    BY <1>0, <1>1, <2>1, OwnPlaced, Sizes DEF Upwards
  <2> QED BY <1>0, <1>2, <2>1, <2>2
<1>5. CASE map_heap_tables \/ map_kernel \/ map_initrd
  <2>1. /\ pc \in Upwards /\ pc # "done" /\ nframes' = nframes /\ order' = order
        /\ pc' \notin {"done", "bitmaps"}
    BY <1>5 DEF map_heap_tables, map_kernel, map_initrd, alloc_frame, Upwards
  <2>2. CASE get_page
    BY <1>0, <1>1, <1>2, <2>1, <2>2, OwnTable
  <2>3. CASE UNCHANGED <<placement_address, placed>>
    BY <1>0, <1>1, <1>2, <2>1, <2>3
  <2>4. CASE map_initrd /\ ~(vaddr < initrd_end + PAGE_SIZE)
    <3>1. /\ pc' = "heap_frames" /\ placed' = placed
          /\ placement_address' = initrd_end + PAGE_SIZE
      BY <2>4 DEF map_initrd
    <3>2. placement_address' \in Nat
      BY <1>0, <3>1, Sizes
    <3> QED BY <1>0, <1>1, <2>1, <3>1, <3>2 DEF OwnBelow, Upwards
  <2> QED BY <1>5, <2>2, <2>3, <2>4 DEF map_heap_tables, map_kernel, map_initrd
<1>6. CASE map_heap
  <2>1. /\ pc = "heap_frames" /\ nframes' = nframes /\ order' = order
        /\ pc' \in {"heap_frames", "heap_init", "panic"}
    BY <1>6 DEF map_heap, alloc_frame
  <2>2. placement_address' = placement_address /\ placed' = placed
    <3>1. CASE vaddr < HEAP_END
      <4>1. TableOf(vaddr) \in tables
        BY <2>1, <3>1 DEF OwnInv, HeapTables
      <4> QED BY <1>6, <3>1, <4>1 DEF map_heap, get_page
    <3>2. CASE ~(vaddr < HEAP_END)
      BY <1>6, <3>2 DEF map_heap
    <3> QED BY <3>1, <3>2
  <2> QED BY <1>0, <1>1, <2>1, <2>2 DEF OwnBelow, Upwards
<1>7. CASE heap_init
  <2>1. /\ pc' = "done" /\ nframes' = nframes /\ order' = order
        /\ placement_address' = placement_address + HEAP_BYTES + NODE_BYTES
    BY <1>7 DEF heap_init
  <2>2. placement_address' \in Nat
    BY <1>0, <2>1, Sizes
  <2> QED BY <1>0, <2>1, <2>2 DEF OwnBelow, Upwards
<1>8. CASE UNCHANGED vars
  BY <1>8, <1>1 DEF vars, OwnInv, OwnBelow, Own, OwnApart, RegionOK, Upwards
<1> QED BY <1>3, <1>4, <1>5, <1>6, <1>7, <1>8 DEF Next

\* ikmalloc, while it places: wherever the loader has put the initrd, the image
\* and all that pm.c and vm.c place lie apart until the heap is created.
THEOREM PlacedApart == Spec => []EarlyPlacedDisjoint
<1>1. OwnInv => EarlyPlacedDisjoint
  BY DEF OwnInv
<1> QED BY <1>1, OwnInit, OwnNext, PTL DEF Spec

(***************************************************************************)
(* What is left of the initrd, wherever it is.                             *)
(***************************************************************************)

\* An address that is not in the part of the initrd below pm_start.
Clear(a) == a >= pm_start \/ a >= initrd_end

\* What is placed from now on is clear of that part, and so is all that has
\* been placed but the image, which lies before the initrd.
KeptInv ==
    /\ pm_start \in Int /\ initrd_end \in Int
    /\ placement_address \in Int /\ Clear(placement_address)
    /\ \A r \in placed : r.what = "initrd" => r.hi = initrd_end
    /\ \A s \in Own(placed) : Clear(s.lo) \/ \A r \in placed : r.what = "initrd" => s.hi <= r.lo

\* A region that is put at a clear address or behind it.
LEMMA KeptPlaced ==
    ASSUME KeptInv, NEW what, what # "initrd", NEW at \in Int, at >= placement_address,
           NEW size \in Nat, placed' = placed \cup {Region(what, at, size)},
           placement_address' \in Int, placement_address' >= placement_address,
           UNCHANGED <<pm_start, initrd_end>>
    PROVE  KeptInv'
<1> DEFINE R == Region(what, at, size)
<1>1. R.what # "initrd" /\ R.lo = at
  BY DEF Region
<1>2. placed' = placed \cup {R}
  OBVIOUS
<1> HIDE DEF R
<1>3. /\ pm_start \in Int /\ initrd_end \in Int /\ placement_address \in Int
      /\ placement_address >= pm_start \/ placement_address >= initrd_end
  BY DEF KeptInv, Clear
<1>4. at >= pm_start \/ at >= initrd_end
  BY <1>3
<1>5. placement_address' >= pm_start \/ placement_address' >= initrd_end
  BY <1>3
<1>6. \A r \in placed' : r.what = "initrd" => r \in placed
  BY <1>1, <1>2
<1>7. \A s \in Own(placed') : s = R \/ s \in Own(placed)
  BY <1>2 DEF Own
<1>8. \A r \in placed' : r.what = "initrd" => r.hi = initrd_end
  BY <1>6 DEF KeptInv
<1>9. \A s \in Own(placed') :
         \/ s.lo >= pm_start \/ s.lo >= initrd_end
         \/ \A r \in placed' : r.what = "initrd" => s.hi <= r.lo
  BY <1>1, <1>4, <1>6, <1>7 DEF KeptInv, Clear
<1> QED BY <1>3, <1>5, <1>8, <1>9 DEF KeptInv, Clear, Own

LEMMA KeptAllocated ==
    ASSUME KeptInv, NEW what, what # "initrd", NEW size \in Nat, NEW align \in BOOLEAN,
           ikmalloc(what, size, align), UNCHANGED <<pm_start, initrd_end>>
    PROVE  KeptInv'
<1>1. PICK at : at = Placement(align)
  OBVIOUS
<1>2. placement_address \in Int
  BY DEF KeptInv
<1>3. at \in Int /\ at >= placement_address
  BY <1>1, <1>2, AlignUp DEF Placement
<1>4. placement_address' = at + size /\ placed' = placed \cup {Region(what, at, size)}
  BY <1>1 DEF ikmalloc
<1>5. placement_address' \in Int /\ placement_address' >= placement_address
  BY <1>2, <1>3, <1>4
<1> QED BY <1>3, <1>4, <1>5, KeptPlaced

LEMMA KeptTable ==
    ASSUME KeptInv, get_page, UNCHANGED <<pm_start, initrd_end>>
    PROVE  KeptInv'
<1>1. CASE TableOf(vaddr) \in tables
  BY <1>1 DEF get_page, KeptInv, Clear, Own
<1>2. CASE TableOf(vaddr) \notin tables
  <2>1. ikmalloc("table", PAGE_SIZE, TRUE)
    BY <1>2 DEF get_page
  <2> QED BY <2>1, KeptAllocated, Sizes
<1> QED BY <1>1, <1>2

LEMMA KeptInit == Init => KeptInv
<1> SUFFICES ASSUME Init PROVE KeptInv
  OBVIOUS
<1>1. PICK l \in Layouts :
         /\ initrd_end = InitrdStart(l) + l.initrd
         /\ pm_start = PmStart(l)
         /\ placement_address = PmStart(l)
         /\ placed = {Region("kernel", KERNEL_LO, l.kernel),
                      Region("initrd", InitrdStart(l), l.initrd)}
  BY DEF Init
<1>2. l.kernel \in Nat /\ l.initrd \in Nat /\ l.gap \in Nat /\ PmStart(l) \in Nat
  BY BootConstants, ImageBelow
<1>3. InitrdStart(l) \in Int /\ InitrdStart(l) >= KERNEL_LO + l.kernel
  <2>1. KERNEL_LO + l.kernel + l.gap \in Int
    BY <1>2, Sizes
  <2>2. InitrdStart(l) \in Int /\ InitrdStart(l) >= KERNEL_LO + l.kernel + l.gap
    BY <2>1, AlignUp DEF InitrdStart
  <2> QED BY <1>2, <2>2, Sizes
<1> DEFINE K == Region("kernel", KERNEL_LO, l.kernel)
           I == Region("initrd", InitrdStart(l), l.initrd)
<1>4. /\ K.hi = KERNEL_LO + l.kernel /\ K.what = "kernel" /\ I.what = "initrd"
      /\ I.lo = InitrdStart(l) /\ I.hi = InitrdStart(l) + l.initrd
  BY DEF Region
<1>5. placed = {K, I}
  BY <1>1
<1> HIDE DEF K, I
<1>6. K.hi <= I.lo /\ I.hi = initrd_end
  BY <1>1, <1>3, <1>4
<1>7. /\ \A r \in placed : r.what = "initrd" => r = I
      /\ \A s \in Own(placed) : s = K
  BY <1>4, <1>5 DEF Own
<1>8. /\ pm_start \in Int /\ initrd_end \in Int /\ placement_address \in Int
      /\ placement_address >= pm_start
  BY <1>1, <1>2, <1>3
<1> QED BY <1>6, <1>7, <1>8 DEF KeptInv, Clear

LEMMA KeptNext == OwnInv /\ KeptInv /\ [Next]_vars => KeptInv'
<1> SUFFICES ASSUME OwnInv, KeptInv, [Next]_vars PROVE KeptInv'
  OBVIOUS
<1>0. UNCHANGED <<pm_start, initrd_end>>
  BY DEF Next, vars, frame_initialize, create_kernel_pd, map_heap_tables, map_kernel,
         map_initrd, map_heap, heap_init
<1>1. CASE frame_initialize
  <2>1. pc = "bitmaps" /\ order \in 0 .. MAX_ORDER /\ nframes \in Nat
    BY <1>1, Sizes DEF frame_initialize, OwnInv, OwnBelow
  <2>2. BitmapBytes \in Nat
    BY <2>1, BitmapSize
  <2>3. PICK align \in BOOLEAN : ikmalloc("bitmap", BitmapBytes, align)
    BY <1>1 DEF frame_initialize
  <2> QED BY <1>0, <2>2, <2>3, KeptAllocated
<1>2. CASE create_kernel_pd
  <2>1. ikmalloc("directory", PD_BYTES, TRUE)
    BY <1>2 DEF create_kernel_pd
  <2> QED BY <1>0, <2>1, KeptAllocated, Sizes
<1>3. CASE UNCHANGED <<placement_address, placed>>
  BY <1>0, <1>3 DEF KeptInv, Clear, Own
<1>4. CASE get_page
  BY <1>0, <1>4, KeptTable
<1>5. CASE placement_address' = initrd_end + PAGE_SIZE /\ placed' = placed
  <2>1. placement_address' \in Int /\ placement_address' >= initrd_end'
    BY <1>0, <1>5, Sizes DEF KeptInv
  <2> QED BY <1>0, <1>5, <2>1 DEF KeptInv, Clear, Own
<1>6. CASE heap_init
  <2>1. /\ placement_address' = placement_address + HEAP_BYTES + NODE_BYTES
        /\ placed' = placed \cup
              {Region("heap", placement_address, HEAP_BYTES),
               Region("root", placement_address + HEAP_BYTES, NODE_BYTES)}
    BY <1>6 DEF heap_init
  <2> DEFINE h == Region("heap", placement_address, HEAP_BYTES)
             t == Region("root", placement_address + HEAP_BYTES, NODE_BYTES)
  <2>2. /\ h.what # "initrd" /\ h.lo = placement_address
        /\ t.what # "initrd" /\ t.lo = placement_address + HEAP_BYTES
    BY DEF Region
  <2>3. placed' = placed \cup {h, t}
    BY <2>1
  <2> HIDE DEF h, t
  <2>4. /\ pm_start \in Int /\ initrd_end \in Int /\ placement_address \in Int
        /\ placement_address >= pm_start \/ placement_address >= initrd_end
    BY DEF KeptInv, Clear
  <2>5. /\ placement_address' \in Int
        /\ placement_address' >= pm_start \/ placement_address' >= initrd_end
        /\ t.lo >= pm_start \/ t.lo >= initrd_end
        /\ h.lo >= pm_start \/ h.lo >= initrd_end
    BY <2>1, <2>2, <2>4, Sizes
  <2>6. /\ \A r \in placed' : r.what = "initrd" => r \in placed
        /\ \A s \in Own(placed') : s = h \/ s = t \/ s \in Own(placed)
    BY <2>2, <2>3 DEF Own
  <2>7. \A s \in Own(placed') :
           \/ s.lo >= pm_start \/ s.lo >= initrd_end
           \/ \A r \in placed' : r.what = "initrd" => s.hi <= r.lo
    BY <2>5, <2>6 DEF KeptInv, Clear
  <2>8. \A r \in placed' : r.what = "initrd" => r.hi = initrd_end
    BY <2>6 DEF KeptInv
  <2> QED BY <1>0, <2>4, <2>5, <2>7, <2>8 DEF KeptInv, Clear, Own
<1> QED BY <1>1, <1>2, <1>3, <1>4, <1>5, <1>6
        DEF Next, vars, map_heap_tables, map_kernel, map_initrd, map_heap

\* pm_initialize and vm_initialize: wherever the loader has put the initrd,
\* nothing is placed over the part of it that lies below pm_start.
THEOREM InitrdApart == Spec => []InitrdKept
<1>1. OwnInv /\ KeptInv => InitrdKept
  <2> SUFFICES ASSUME KeptInv, NEW r \in placed, NEW s \in placed,
                      r.what = "initrd", s.what # "initrd"
               PROVE  Apart(r, s) \/ s.lo >= pm_start
    BY DEF InitrdKept
  <2>1. r.hi = initrd_end /\ (Clear(s.lo) \/ s.hi <= r.lo)
    BY DEF KeptInv, Own
  <2> QED BY <2>1 DEF Clear, Apart
<1>2. OwnInv /\ KeptInv /\ [Next]_vars => (OwnInv /\ KeptInv)'
  BY OwnNext, KeptNext
<1>3. Init => OwnInv /\ KeptInv
  BY OwnInit, KeptInit
<1> QED BY <1>1, <1>2, <1>3, PTL DEF Spec

(***************************************************************************)
(* What is placed, when the initrd ends where the free memory begins that  *)
(* pm_initialize computes, or before.                                      *)
(***************************************************************************)
InitrdBehind == \A l \in Layouts : InitrdStart(l) + l.initrd <= PmStart(l)

Disjoint(regions) == \A r, s \in regions : r # s => Apart(r, s)

\* Everything placed lies below placement_address.
PlacedBelow ==
    /\ nframes \in Nat /\ initrd_end \in Nat /\ placement_address \in Nat /\ order \in Nat
    /\ \A r \in placed : RegionOK(r)
    /\ pc = "bitmaps" => order <= MAX_ORDER
    /\ pc \in Upwards => /\ initrd_end <= placement_address
                         /\ \A r \in placed : r.hi <= placement_address
    /\ pc \in {"heap_tables", "identity", "initrd"} =>
          initrd_end + PD_BYTES <= placement_address
    /\ pc = "initrd" => placement_address + PAGE_SIZE <= vaddr

\* Once the identity map is complete, it has everything placed and room for
\* the heap structure and its root.
MapComplete ==
    pc \in {"heap_frames", "heap_init", "done"} =>
       /\ \A r \in placed : \A a \in r.lo .. (r.hi - 1) : Page(a) \in DOMAIN pte
       /\ pc # "done" => \A a \in Nat : a < placement_address + HEAP_BYTES + NODE_BYTES =>
                                           Page(a) \in DOMAIN pte

AllApart == pc # "done" => Disjoint(placed)

PlaceInv == MapInv /\ PlacedBelow /\ HeapTables /\ MapComplete /\ AllApart

\* ikmalloc puts a region behind all others.
LEMMA PlacedBehind ==
    ASSUME PlacedBelow, Disjoint(placed), pc \in Upwards,
           NEW what, NEW size \in Nat, NEW align \in BOOLEAN, ikmalloc(what, size, align)
    PROVE  /\ placement_address' \in Nat /\ placement_address' >= placement_address + size
           /\ \A r \in placed' : RegionOK(r) /\ r.hi <= placement_address'
           /\ Disjoint(placed')
<1> DEFINE at == Placement(align)
           R == Region(what, at, size)
<1>1. placement_address \in Nat /\ \A r \in placed : RegionOK(r) /\ r.hi <= placement_address
  BY DEF PlacedBelow
<1>2. at \in Int /\ at >= placement_address
  <2>1. ALIGN(placement_address, PAGE_SIZE) \in Int
        /\ ALIGN(placement_address, PAGE_SIZE) >= placement_address
    BY <1>1, AlignUp
  <2> QED BY <1>1, <2>1 DEF Placement
<1> HIDE DEF at
<1>3. placement_address' = at + size /\ placed' = placed \cup {R}
  BY DEF ikmalloc, at
<1>4. R.lo = at /\ R.hi = at + size
  BY DEF Region
<1> HIDE DEF R
<1>5. placement_address' \in Nat /\ placement_address' >= placement_address + size
  BY <1>1, <1>2, <1>3
<1>6. \A r \in placed' : RegionOK(r) /\ r.hi <= placement_address'
  <2>1. RegionOK(R) /\ R.hi <= placement_address'
    BY <1>1, <1>2, <1>3, <1>4 DEF RegionOK
  <2>2. \A r \in placed : r.hi <= placement_address'
    BY <1>1, <1>5 DEF RegionOK
  <2> QED BY <1>1, <1>3, <2>1, <2>2
<1>7. \A r \in placed : r.hi <= R.lo
  BY <1>1, <1>2, <1>4 DEF RegionOK
<1>8. Disjoint(placed')
  BY <1>3, <1>7 DEF Disjoint, Apart
<1> QED BY <1>5, <1>6, <1>8

\* So does get_page, if it places a table at all.
LEMMA TablePlaced ==
    ASSUME PlacedBelow, Disjoint(placed), pc \in Upwards, get_page
    PROVE  /\ placement_address' \in Nat /\ placement_address' >= placement_address
           /\ \A r \in placed' : RegionOK(r) /\ r.hi <= placement_address'
           /\ Disjoint(placed')
           /\ tables \subseteq tables' /\ TableOf(vaddr) \in tables'
<1>1. placement_address \in Nat /\ \A r \in placed : RegionOK(r) /\ r.hi <= placement_address
  BY DEF PlacedBelow
<1>2. CASE TableOf(vaddr) \in tables
  BY <1>1, <1>2 DEF get_page
<1>3. CASE TableOf(vaddr) \notin tables
  <2>1. ikmalloc("table", PAGE_SIZE, TRUE) /\ tables' = tables \cup {TableOf(vaddr)}
    BY <1>3 DEF get_page
  <2>2. /\ placement_address' \in Nat /\ placement_address' >= placement_address + PAGE_SIZE
        /\ \A r \in placed' : RegionOK(r) /\ r.hi <= placement_address'
        /\ Disjoint(placed')
    BY <2>1, PlacedBehind, Sizes
  <2> QED BY <1>1, <2>1, <2>2, Sizes
<1> QED BY <1>2, <1>3

LEMMA PlaceInit == InitrdBehind /\ Init => PlaceInv
<1> SUFFICES ASSUME InitrdBehind, Init PROVE PlaceInv
  OBVIOUS
<1>1. PICK l \in Layouts :
         /\ initrd_end = InitrdStart(l) + l.initrd
         /\ nframes = (PM_END - PmStart(l)) \div PAGE_SIZE
         /\ placement_address = PmStart(l)
         /\ placed = {Region("kernel", KERNEL_LO, l.kernel),
                      Region("initrd", InitrdStart(l), l.initrd)}
  BY DEF Init
<1>2. pc = "bitmaps" /\ order = 0
  BY DEF Init
<1>3. l.kernel \in Nat /\ l.initrd \in Nat /\ l.gap \in Nat /\ PmStart(l) <= PM_END
      /\ InitrdStart(l) + l.initrd <= PmStart(l)
  BY BootConstants DEF InitrdBehind
<1>4. InitrdStart(l) \in Int /\ InitrdStart(l) >= KERNEL_LO + l.kernel
  <2>1. KERNEL_LO + l.kernel + l.gap \in Int
    BY <1>3, Sizes
  <2>2. InitrdStart(l) \in Int /\ InitrdStart(l) >= KERNEL_LO + l.kernel + l.gap
    BY <2>1, AlignUp DEF InitrdStart
  <2> QED BY <1>3, <2>2, Sizes
<1>5. PmStart(l) \in Int
  <2>1. l.kernel - HEADER_BYTES \in Int /\ l.initrd \in Int
    BY <1>3, Sizes
  <2>2. ALIGN(l.kernel - HEADER_BYTES, PAGE_SIZE) \in Int /\ ALIGN(l.initrd, PAGE_SIZE) \in Int
    BY <2>1, AlignUp
  <2> QED BY <2>2, Sizes DEF PmStart
<1>6. PmStart(l) \in Nat /\ PM_END - PmStart(l) \in Nat
  BY <1>3, <1>4, <1>5, Sizes
<1>7. nframes \in Nat
  <2>1. ASSUME NEW a \in Nat PROVE a \div PAGE_SIZE \in Nat
    BY PageBelow DEF Page
  <2> QED BY <1>1, <1>6, <2>1
<1> DEFINE K == Region("kernel", KERNEL_LO, l.kernel)
           I == Region("initrd", InitrdStart(l), l.initrd)
<1>8. K.lo = KERNEL_LO /\ K.hi = KERNEL_LO + l.kernel
      /\ I.lo = InitrdStart(l) /\ I.hi = InitrdStart(l) + l.initrd
  BY DEF Region
<1>9. placed = {K, I}
  BY <1>1
<1> HIDE DEF K, I
<1>10. RegionOK(K) /\ RegionOK(I) /\ K.hi <= I.lo
       /\ K.hi <= placement_address /\ I.hi <= placement_address
  BY <1>1, <1>3, <1>4, <1>5, <1>8, Sizes DEF RegionOK
<1>11. PlacedBelow
  <2>1. initrd_end \in Nat /\ initrd_end <= placement_address /\ placement_address \in Nat
    BY <1>1, <1>3, <1>4, <1>6, Sizes
  <2>2. \A r \in placed : RegionOK(r) /\ r.hi <= placement_address
    BY <1>9, <1>10
  <2> QED BY <1>2, <1>7, <2>1, <2>2, Sizes DEF PlacedBelow
<1>12. AllApart
  BY <1>9, <1>10 DEF AllApart, Disjoint, Apart
<1> QED BY <1>2, <1>11, <1>12, MapInit DEF PlaceInv, HeapTables, MapComplete

\* The bitmaps and the directory are placed.
LEMMA BitmapKeeps ==
    ASSUME PlaceInv, frame_initialize
    PROVE  (PlacedBelow /\ MapComplete /\ AllApart)'
<1>1. /\ PlacedBelow /\ Disjoint(placed) /\ pc \in Upwards /\ nframes \in Nat /\ order \in 0 .. MAX_ORDER
      /\ initrd_end \in Nat /\ initrd_end <= placement_address /\ placement_address \in Nat
  BY Sizes DEF PlaceInv, frame_initialize, AllApart, Upwards, PlacedBelow
<1>2. BitmapBytes \in Nat
  BY <1>1, BitmapSize
<1>3. PICK align \in BOOLEAN : ikmalloc("bitmap", BitmapBytes, align)
  BY DEF frame_initialize
<1>4. /\ placement_address' \in Nat /\ placement_address' >= placement_address + BitmapBytes
      /\ \A r \in placed' : RegionOK(r) /\ r.hi <= placement_address'
      /\ Disjoint(placed')
  BY <1>1, <1>2, <1>3, PlacedBehind
<1>5. pc' \in {"bitmaps", "directory"} /\ (pc' = "bitmaps" => order' <= MAX_ORDER) /\ order' \in Nat
      /\ nframes' = nframes /\ initrd_end' = initrd_end
  BY <1>1, Sizes DEF frame_initialize
<1>6. initrd_end <= placement_address'
  BY <1>1, <1>2, <1>4
<1>7. PlacedBelow'
  BY <1>1, <1>4, <1>5, <1>6 DEF PlacedBelow, RegionOK
<1> QED BY <1>4, <1>5, <1>7 DEF MapComplete, AllApart, Disjoint, Apart

LEMMA DirectoryKeeps ==
    ASSUME PlaceInv, create_kernel_pd
    PROVE  (PlacedBelow /\ MapComplete /\ AllApart)'
<1>1. /\ PlacedBelow /\ Disjoint(placed) /\ pc \in Upwards
      /\ initrd_end \in Nat /\ initrd_end <= placement_address /\ placement_address \in Nat
  BY DEF PlaceInv, create_kernel_pd, AllApart, Upwards, PlacedBelow
<1>2. /\ placement_address' \in Nat /\ placement_address' >= placement_address + PD_BYTES
      /\ \A r \in placed' : RegionOK(r) /\ r.hi <= placement_address'
      /\ Disjoint(placed')
  <2>1. ikmalloc("directory", PD_BYTES, TRUE)
    BY DEF create_kernel_pd
  <2> QED BY <1>1, <2>1, PlacedBehind, Sizes
<1>3. pc' = "heap_tables" /\ vaddr' = KHEAP_START
      /\ nframes' = nframes /\ initrd_end' = initrd_end /\ order' = order
  BY DEF create_kernel_pd
<1>4. initrd_end <= placement_address' /\ initrd_end + PD_BYTES <= placement_address'
  BY <1>1, <1>2, Sizes
<1>5. PlacedBelow'
  BY <1>1, <1>2, <1>3, <1>4 DEF PlacedBelow, RegionOK
<1> QED BY <1>2, <1>3, <1>5 DEF MapComplete, AllApart, Disjoint, Apart

LEMMA HeapTablesKeeps ==
    ASSUME PlaceInv, map_heap_tables
    PROVE  (PlacedBelow /\ MapComplete /\ AllApart)'
<1>1. /\ PlacedBelow /\ Disjoint(placed) /\ pc \in Upwards /\ pc = "heap_tables"
      /\ initrd_end \in Nat /\ initrd_end + PD_BYTES <= placement_address
      /\ placement_address \in Nat
      /\ vaddr \in HeapAddresses
      /\ \A v \in HeapAddresses : v < vaddr => TableOf(v) \in tables
  BY DEF PlaceInv, map_heap_tables, AllApart, Upwards, PlacedBelow, HeapTables
<1>2. nframes' = nframes /\ initrd_end' = initrd_end /\ order' = order
  BY DEF map_heap_tables
<1>3. CASE vaddr < HEAP_END
  <2>1. get_page /\ vaddr' = vaddr + PAGE_SIZE /\ pc' = pc
    BY <1>3 DEF map_heap_tables
  <2>2. /\ placement_address' \in Nat /\ placement_address' >= placement_address
        /\ \A r \in placed' : RegionOK(r) /\ r.hi <= placement_address'
        /\ Disjoint(placed')
        /\ tables \subseteq tables' /\ TableOf(vaddr) \in tables'
    BY <1>1, <2>1, TablePlaced
  <2>3. initrd_end <= placement_address' /\ initrd_end + PD_BYTES <= placement_address'
    BY <1>1, <2>2, Sizes
  <2>4. PlacedBelow'
    BY <1>1, <1>2, <2>1, <2>2, <2>3 DEF PlacedBelow, RegionOK
  <2> QED BY <1>1, <2>1, <2>2, <2>4 DEF MapComplete, AllApart, Disjoint, Apart
<1>4. CASE ~(vaddr < HEAP_END)
  <2>1. vaddr' = 0 /\ pc' = "identity" /\ placement_address' = placement_address
        /\ placed' = placed /\ tables' = tables
    BY <1>4 DEF map_heap_tables
  <2>2. PlacedBelow'
    BY <1>1, <1>2, <2>1 DEF PlacedBelow, RegionOK, Upwards
  <2> QED BY <1>1, <2>1, <2>2 DEF MapComplete, AllApart, Disjoint, Apart
<1> QED BY <1>3, <1>4

\* The identity map grows until it has what was placed; with the initrd
\* right behind the image, the loop for the initrd finds nothing to do.
LEMMA KernelKeeps ==
    ASSUME PlaceInv, map_kernel
    PROVE  (PlacedBelow /\ MapComplete /\ AllApart)'
<1>1. /\ PlacedBelow /\ Disjoint(placed) /\ pc \in Upwards /\ pc = "identity"
      /\ initrd_end \in Nat /\ initrd_end + PD_BYTES <= placement_address
      /\ placement_address \in Nat /\ vaddr \in Nat
      /\ \A v \in HeapAddresses : v < HEAP_END => TableOf(v) \in tables
  BY DEF PlaceInv, map_kernel, AllApart, Upwards, PlacedBelow, HeapTables,
         MapInv, FramesInOrder
<1>2. nframes' = nframes /\ initrd_end' = initrd_end /\ order' = order
  BY DEF map_kernel
<1>3. CASE vaddr < placement_address + PAGE_SIZE
  <2>1. get_page /\ alloc_frame("identity") /\ vaddr' = vaddr + PAGE_SIZE
    BY <1>3 DEF map_kernel
  <2>2. pc' \in {"identity", "panic"}
    BY <2>1 DEF alloc_frame
  <2>3. /\ placement_address' \in Nat /\ placement_address' >= placement_address
        /\ \A r \in placed' : RegionOK(r) /\ r.hi <= placement_address'
        /\ Disjoint(placed')
        /\ tables \subseteq tables'
    BY <1>1, <2>1, TablePlaced
  <2>4. initrd_end <= placement_address' /\ initrd_end + PD_BYTES <= placement_address'
    BY <1>1, <2>3, Sizes
  <2>5. PlacedBelow'
    BY <1>1, <1>2, <2>2, <2>3, <2>4 DEF PlacedBelow, RegionOK
  <2> QED BY <2>2, <2>3, <2>5 DEF MapComplete, AllApart, Disjoint, Apart
<1>4. CASE ~(vaddr < placement_address + PAGE_SIZE)
  <2>1. pc' = "initrd" /\ placement_address' = placement_address
        /\ placed' = placed /\ tables' = tables /\ vaddr' = vaddr
    BY <1>4 DEF map_kernel
  <2>2. placement_address + PAGE_SIZE <= vaddr
    BY <1>1, <1>4, Sizes
  <2>3. PlacedBelow'
    BY <1>1, <1>2, <2>1, <2>2 DEF PlacedBelow, RegionOK, Upwards
  <2> QED BY <1>1, <2>1, <2>3 DEF MapComplete, AllApart, Disjoint, Apart
<1> QED BY <1>3, <1>4

LEMMA InitrdKeeps ==
    ASSUME PlaceInv, map_initrd
    PROVE  (PlacedBelow /\ MapComplete /\ AllApart)'
<1>1. /\ PlacedBelow /\ Disjoint(placed) /\ pc = "initrd"
      /\ initrd_end \in Nat /\ initrd_end + PD_BYTES <= placement_address
      /\ placement_address \in Nat /\ vaddr \in Nat /\ next_frame \in Nat
      /\ placement_address + PAGE_SIZE <= vaddr
      /\ vaddr = next_frame * PAGE_SIZE /\ DOMAIN pte = 0 .. (next_frame - 1)
      /\ \A r \in placed : RegionOK(r) /\ r.hi <= placement_address
      /\ \A v \in HeapAddresses : v < HEAP_END => TableOf(v) \in tables
  BY DEF PlaceInv, map_initrd, AllApart, Upwards, PlacedBelow, HeapTables,
         MapInv, FramesInOrder
<1>2. nframes' = nframes /\ initrd_end' = initrd_end /\ order' = order
  BY DEF map_initrd
<1>3. ~(vaddr < initrd_end + PAGE_SIZE)
  BY <1>1, Sizes
<1>4. /\ pc' = "heap_frames" /\ placement_address' = initrd_end + PAGE_SIZE
      /\ vaddr' = KHEAP_START /\ placed' = placed /\ tables' = tables /\ pte' = pte
  BY <1>3 DEF map_initrd
<1>5. ASSUME NEW a \in Nat, a < vaddr PROVE Page(a) \in DOMAIN pte
  <2>1. Page(a) \in Nat /\ Page(a) < next_frame
    BY <1>1, <1>5, PageBelow
  <2> QED BY <1>1, <2>1
<1>6. PlacedBelow'
  <2>1. placement_address' \in Nat
    BY <1>1, <1>4, Sizes
  <2> QED BY <1>1, <1>2, <1>4, <2>1 DEF PlacedBelow, RegionOK, Upwards
<1>7. \A r \in placed : \A a \in r.lo .. (r.hi - 1) : Page(a) \in DOMAIN pte
  <2> SUFFICES ASSUME NEW r \in placed, NEW a \in r.lo .. (r.hi - 1)
               PROVE  Page(a) \in DOMAIN pte
    OBVIOUS
  <2>1. a \in Nat /\ a < vaddr
    BY <1>1, Sizes DEF RegionOK
  <2> QED BY <1>5, <2>1
<1>8. \A a \in Nat : a < placement_address' + HEAP_BYTES + NODE_BYTES => Page(a) \in DOMAIN pte
  <2> SUFFICES ASSUME NEW a \in Nat, a < placement_address' + HEAP_BYTES + NODE_BYTES
               PROVE  Page(a) \in DOMAIN pte
    OBVIOUS
  <2>1. a < vaddr
    BY <1>1, <1>4, Sizes
  <2> QED BY <1>5, <2>1
<1>9. MapComplete'
  BY <1>4, <1>7, <1>8 DEF MapComplete, Page
<1> QED BY <1>1, <1>4, <1>6, <1>9 DEF AllApart, Disjoint, Apart

\* The tables of the heap are there: its frames move nothing.
LEMMA HeapFramesKeeps ==
    ASSUME PlaceInv, map_heap
    PROVE  (PlacedBelow /\ MapComplete /\ AllApart)'
<1>1. /\ PlacedBelow /\ Disjoint(placed) /\ pc = "heap_frames" /\ vaddr \in HeapAddresses
      /\ \A v \in HeapAddresses : v < HEAP_END => TableOf(v) \in tables
      /\ \A r \in placed : \A a \in r.lo .. (r.hi - 1) : Page(a) \in DOMAIN pte
      /\ \A a \in Nat : a < placement_address + HEAP_BYTES + NODE_BYTES => Page(a) \in DOMAIN pte
  BY DEF PlaceInv, map_heap, AllApart, HeapTables, MapComplete
<1>2. /\ nframes' = nframes /\ initrd_end' = initrd_end /\ order' = order
      /\ placement_address' = placement_address /\ placed' = placed /\ tables' = tables
      /\ DOMAIN pte \subseteq DOMAIN pte' /\ pc' \in {"heap_frames", "heap_init", "panic"}
      /\ pc' = "heap_frames" => vaddr' = vaddr + PAGE_SIZE
  <2>1. CASE vaddr < HEAP_END
    <3>1. get_page /\ alloc_frame("heap_frames") /\ vaddr' = vaddr + PAGE_SIZE
      BY <2>1, <1>1 DEF map_heap
    <3>2. TableOf(vaddr) \in tables
      BY <1>1, <2>1
    <3>3. DOMAIN pte \subseteq DOMAIN pte' /\ pc' \in {"heap_frames", "panic"}
      BY <3>1 DEF alloc_frame
    <3> QED BY <3>1, <3>2, <3>3 DEF get_page, map_heap
  <2>2. CASE ~(vaddr < HEAP_END)
    BY <2>2 DEF map_heap
  <2> QED BY <2>1, <2>2
<1>3. PlacedBelow'
  BY <1>1, <1>2 DEF PlacedBelow, RegionOK, Upwards
<1>4. MapComplete'
  BY <1>1, <1>2 DEF MapComplete, Page
<1> QED BY <1>1, <1>2, <1>3, <1>4 DEF AllApart, Disjoint, Apart

\* The heap structure and its root lie in the room that was left.
LEMMA HeapInitKeeps ==
    ASSUME PlaceInv, heap_init
    PROVE  (PlacedBelow /\ MapComplete /\ AllApart)'
<1> DEFINE H == Region("heap", placement_address, HEAP_BYTES)
           T == Region("root", placement_address + HEAP_BYTES, NODE_BYTES)
<1>1. /\ PlacedBelow /\ pc = "heap_init" /\ placement_address \in Nat
      /\ \A r \in placed : RegionOK(r)
      /\ \A r \in placed : \A a \in r.lo .. (r.hi - 1) : Page(a) \in DOMAIN pte
      /\ \A a \in Nat : a < placement_address + HEAP_BYTES + NODE_BYTES => Page(a) \in DOMAIN pte
  BY DEF PlaceInv, heap_init, MapComplete, PlacedBelow
<1>2. /\ nframes' = nframes /\ initrd_end' = initrd_end /\ order' = order
      /\ placement_address' = placement_address + HEAP_BYTES + NODE_BYTES
      /\ placed' = placed \cup {H, T} /\ pte' = pte /\ pc' = "done"
  BY DEF heap_init
<1>3. /\ H.lo = placement_address /\ H.hi = placement_address + HEAP_BYTES
      /\ T.lo = placement_address + HEAP_BYTES
      /\ T.hi = placement_address + HEAP_BYTES + NODE_BYTES
  BY DEF Region
<1> HIDE DEF H, T
<1>4. RegionOK(H) /\ RegionOK(T) /\ placement_address' \in Nat
  BY <1>1, <1>2, <1>3, Sizes DEF RegionOK
<1>5. PlacedBelow'
  BY <1>1, <1>2, <1>4 DEF PlacedBelow, RegionOK, Upwards
<1>6. ASSUME NEW r \in {H, T}, NEW a \in r.lo .. (r.hi - 1) PROVE Page(a) \in DOMAIN pte
  <2>1. a \in Nat /\ a < placement_address + HEAP_BYTES + NODE_BYTES
    BY <1>1, <1>3, Sizes
  <2> QED BY <1>1, <2>1
<1>7. MapComplete'
  BY <1>1, <1>2, <1>6 DEF MapComplete, Page
<1> QED BY <1>2, <1>5, <1>7 DEF AllApart

LEMMA PlaceNext == PlaceInv /\ [Next]_vars => PlaceInv'
<1> SUFFICES ASSUME PlaceInv, [Next]_vars PROVE PlaceInv'
  OBVIOUS
<1>1. MapInv' /\ HeapTables'
  BY MapNext, HeapTablesNext DEF PlaceInv
<1>2. CASE frame_initialize
  BY <1>1, <1>2, BitmapKeeps DEF PlaceInv
<1>3. CASE create_kernel_pd
  BY <1>1, <1>3, DirectoryKeeps DEF PlaceInv
<1>4. CASE map_heap_tables
  BY <1>1, <1>4, HeapTablesKeeps DEF PlaceInv
<1>5. CASE map_kernel
  BY <1>1, <1>5, KernelKeeps DEF PlaceInv
<1>6. CASE map_initrd
  BY <1>1, <1>6, InitrdKeeps DEF PlaceInv
<1>7. CASE map_heap
  BY <1>1, <1>7, HeapFramesKeeps DEF PlaceInv
<1>8. CASE heap_init
  BY <1>1, <1>8, HeapInitKeeps DEF PlaceInv
<1>9. CASE UNCHANGED vars
  <2>1. PlacedBelow'
    BY <1>9 DEF vars, PlaceInv, PlacedBelow, RegionOK, Upwards
  <2>2. (MapComplete /\ AllApart)'
    BY <1>9 DEF vars, PlaceInv, MapComplete, AllApart, Disjoint, Apart, Page
  <2> QED BY <1>1, <2>1, <2>2 DEF PlaceInv
<1> QED BY <1>2, <1>3, <1>4, <1>5, <1>6, <1>7, <1>8, <1>9 DEF Next

\* pm_initialize: when the initrd ends where the free memory begins, or before,
\* image, initrd and all that pm.c and vm.c place lie apart until the heap is
\* created.
THEOREM AllPlacedApart == InitrdBehind => (Spec => []AllApart)
<1> SUFFICES ASSUME InitrdBehind PROVE Spec => []AllApart
  OBVIOUS
<1>1. Init => PlaceInv
  BY PlaceInit
<1>2. PlaceInv => AllApart
  BY DEF PlaceInv
<1> QED BY <1>1, <1>2, PlaceNext, PTL DEF Spec

\* vm_initialize: under the same hypothesis, everything placed by its physical
\* address is mapped when paging is enabled.
THEOREM PlacedReachable == InitrdBehind => (Spec => []PlacedIsMapped)
<1> SUFFICES ASSUME InitrdBehind PROVE Spec => []PlacedIsMapped
  OBVIOUS
<1>1. Init => PlaceInv
  BY PlaceInit
<1>2. PlaceInv => PlacedIsMapped
  BY DEF PlaceInv, MapComplete, PlacedIsMapped
<1> QED BY <1>1, <1>2, PlaceNext, PTL DEF Spec

(***************************************************************************)
(* The frames that the loops use, wherever the initrd is.                  *)
(***************************************************************************)

HEAP_PAGES == KHEAP_INITIAL_SIZE \div PAGE_SIZE

\* Since the directory was placed, ikmalloc has moved by at most n pages.
BehindDirectory(n) ==
    \E r \in placed :
       /\ r.what = "directory" /\ r.hi \in Int
       /\ ALIGN(placement_address, PAGE_SIZE) <= ALIGN(r.hi, PAGE_SIZE) + n * PAGE_SIZE

\* So much memory is behind neither the initrd nor the kernel's page tables.
Reached(bytes) ==
    \/ bytes <= initrd_end + 2 * PAGE_SIZE
    \/ \E r \in placed :
          /\ r.what = "directory" /\ r.hi \in Int
          /\ bytes <= ALIGN(r.hi, PAGE_SIZE)
               + (TablesFor(nframes) + TablesFor(HEAP_PAGES) + 2) * PAGE_SIZE

\* A table is placed only for the first of its pages, so that the tables
\* placed are those that the pages visited so far need.
TablesCounted ==
    /\ pc = "heap_tables" =>
          \E k \in 0 .. HEAP_PAGES :
             /\ vaddr = KHEAP_START + k * PAGE_SIZE
             /\ k > 0 => TableOf(vaddr - PAGE_SIZE) \in tables
             /\ BehindDirectory(TablesFor(k))
    /\ pc = "identity" =>
          /\ next_frame > 0 => TableOf(vaddr - PAGE_SIZE) \in tables
          /\ BehindDirectory(TablesFor(HEAP_PAGES) + TablesFor(next_frame))

FramesCounted ==
    /\ nframes \in Nat /\ initrd_end \in Nat /\ placement_address \in Int /\ order \in Nat
    /\ pc = "bitmaps" => order <= MAX_ORDER
    /\ next_frame <= nframes
    /\ pc \in {"identity", "initrd"} => Reached(vaddr)
    /\ pc = "heap_frames" => Reached(next_frame * PAGE_SIZE - (vaddr - KHEAP_START))

RoomInv == MapInv /\ TablesCounted /\ FramesCounted /\ PanicOnlyWhenFull

\* The quotient is the only number that fits.
LEMMA QuotientIs ==
    ASSUME NEW a \in Int, NEW b \in Nat \ {0}, NEW q \in Int, b * q <= a, a < b * q + b
    PROVE  a \div b = q
<1> DEFINE d == a \div b
<1>1. d \in Int /\ b * d <= a /\ a < b * d + b
  OBVIOUS
<1> HIDE DEF d
<1>2. b * d \in Int /\ b * q \in Int
  BY <1>1
<1>3. CASE d + 1 <= q
  <2>1. b * (d + 1) <= b * q /\ b * (d + 1) = b * d + b
    BY <1>1, <1>3
  <2> QED BY <1>1, <1>2, <2>1
<1>4. CASE q + 1 <= d
  <2>1. b * (q + 1) <= b * d /\ b * (q + 1) = b * q + b
    BY <1>1, <1>4
  <2> QED BY <1>1, <1>2, <2>1
<1>5. d = q
  BY <1>1, <1>3, <1>4
<1> QED BY <1>5 DEF d

\* Quotients of natural numbers.
LEMMA QuotientNat ==
    ASSUME NEW a \in Nat, NEW b \in Nat \ {0}
    PROVE  a \div b \in Nat /\ b * (a \div b) <= a /\ a < b * (a \div b) + b
<1> DEFINE q == a \div b
<1>1. q \in Int /\ b * q <= a /\ a < b * q + b
  OBVIOUS
<1> HIDE DEF q
<1>2. q >= 0
  <2> SUFFICES ASSUME q <= -1 PROVE FALSE
    BY <1>1
  <2>1. b * q <= b * (-1)
    BY <1>1
  <2> QED BY <1>1, <2>1
<1> QED BY <1>1, <1>2 DEF q

\* The next number's quotient is the same or the next.
LEMMA QuotientNext ==
    ASSUME NEW a \in Nat, NEW b \in Nat \ {0}
    PROVE  (a + 1) \div b = a \div b \/ (a + 1) \div b = (a \div b) + 1
<1> DEFINE q == a \div b
<1>1. q \in Nat /\ b * q <= a /\ a < b * q + b
  BY QuotientNat
<1> HIDE DEF q
<1>2. b * q \in Nat /\ b * (q + 1) = b * q + b /\ q + 1 \in Int /\ q \in Int /\ a + 1 \in Int
  BY <1>1
<1>3. CASE a + 1 < b * q + b
  <2>1. b * q <= a + 1
    BY <1>1, <1>2
  <2> QED BY <1>2, <1>3, <2>1, QuotientIs DEF q
<1>4. CASE ~(a + 1 < b * q + b)
  <2>1. b * (q + 1) <= a + 1 /\ a + 1 < b * (q + 1) + b
    BY <1>1, <1>2, <1>4
  <2>2. (a + 1) \div b = q + 1
    BY <1>2, <2>1, QuotientIs
  <2> QED BY <2>2 DEF q
<1> QED BY <1>3, <1>4

LEMMA Entries == PT_ENTRIES \in Nat \ {0} /\ PAGE_SIZE * PT_ENTRIES \in Nat \ {0}
<1>1. PT_ENTRIES \in Nat \ {0} /\ PAGE_SIZE \in Nat \ {0}
  BY BootConstants
<1>2. \A a, b \in Nat \ {0} : a * b \in Nat \ {0}
  OBVIOUS
<1> QED BY <1>1, <1>2

\* The pages up to number n need one table more than the quotient of n.
LEMMA TablesNeeded ==
    /\ TablesFor(0) = 0
    /\ \A n \in Nat : TablesFor(n + 1) = (n \div PT_ENTRIES) + 1
    /\ \A n \in Nat : TablesFor(n) \in Nat
    /\ \A n \in Nat : TablesFor(n) <= TablesFor(n + 1)
<1> DEFINE b == PT_ENTRIES
<1>1. b \in Nat \ {0}
  BY Entries
<1> HIDE DEF b
<1>2. (0 + b - 1) \div b = 0
  <2>1. b * 0 = 0 /\ 0 + b - 1 \in Int /\ 0 <= 0 + b - 1 /\ 0 + b - 1 < 0 + b /\ 0 \in Int
    BY <1>1
  <2>2. b * 0 <= 0 + b - 1 /\ 0 + b - 1 < b * 0 + b
    BY <2>1
  <2> QED BY <1>1, <2>1, <2>2, QuotientIs
<1>3. ASSUME NEW n \in Nat PROVE ((n + 1) + b - 1) \div b = (n \div b) + 1
  <2>1. PICK q \in Nat : q = n \div b /\ b * q <= n /\ n < b * q + b
    BY <1>1, QuotientNat
  <2>2. b * q \in Nat /\ b * (q + 1) = b * q + b /\ q + 1 \in Int /\ (n + 1) + b - 1 \in Int
        /\ (n + 1) + b - 1 = n + b
    BY <1>1
  <2>3. b * (q + 1) <= (n + 1) + b - 1 /\ (n + 1) + b - 1 < b * (q + 1) + b
    BY <1>1, <2>1, <2>2
  <2>4. ((n + 1) + b - 1) \div b = q + 1
    BY <1>1, <2>2, <2>3, QuotientIs
  <2> QED BY <2>1, <2>4
<1>4. \A n \in Nat : n \div b \in Nat
  BY <1>1, QuotientNat
<1>5. TablesFor(0) = 0
  BY <1>2 DEF TablesFor, b
<1>6. \A n \in Nat : TablesFor(n + 1) = (n \div b) + 1
  BY <1>3 DEF TablesFor, b
<1>7. ASSUME NEW n \in Nat, n # 0 PROVE n - 1 \in Nat /\ n = (n - 1) + 1
  BY <1>7
<1>8. ASSUME NEW n \in Nat PROVE TablesFor(n) \in Nat
  <2>1. CASE n = 0
    BY <1>5, <2>1
  <2>2. CASE n # 0
    <3>1. PICK m \in Nat : n = m + 1
      BY <1>7, <2>2
    <3>2. TablesFor(m + 1) = (m \div b) + 1
      BY <1>6
    <3>3. m \div b \in Nat
      BY <1>4
    <3> QED BY <3>1, <3>2, <3>3
  <2> QED BY <2>1, <2>2
<1>9. ASSUME NEW n \in Nat PROVE TablesFor(n) <= TablesFor(n + 1)
  <2>1. CASE n = 0
    <3>1. TablesFor(n) = 0 /\ TablesFor(n + 1) \in Nat
      BY <1>5, <1>8, <2>1
    <3> QED BY <3>1
  <2>2. CASE n # 0
    <3>1. PICK m \in Nat : n = m + 1
      BY <1>7, <2>2
    <3>2. (m + 1) \div b = m \div b \/ (m + 1) \div b = (m \div b) + 1
      BY <1>1, QuotientNext
    <3>3. TablesFor(n) = (m \div b) + 1 /\ TablesFor(n + 1) = ((m + 1) \div b) + 1
      BY <1>6, <3>1
    <3>4. m \div b \in Nat
      BY <1>4
    <3> QED BY <3>2, <3>3, <3>4
  <2> QED BY <2>1, <2>2
<1> QED BY <1>5, <1>6, <1>8, <1>9 DEF b

\* One page more: it needs a table more, or it is in the table of the page
\* before it.
LEMMA TableNext ==
    ASSUME NEW base \in Nat, base % (PAGE_SIZE * PT_ENTRIES) = 0, NEW n \in Nat,
           NEW va, va = base + n * PAGE_SIZE
    PROVE  \/ TablesFor(n + 1) = TablesFor(n) + 1
           \/ n > 0 /\ TableOf(va) = TableOf(va - PAGE_SIZE) /\ TablesFor(n + 1) = TablesFor(n)
<1> DEFINE b == PT_ENTRIES
           t == PAGE_SIZE * PT_ENTRIES
<1>1. b \in Nat \ {0} /\ t \in Nat \ {0} /\ PAGE_SIZE \in Nat \ {0}
  BY Entries, Sizes
<1>2. PICK c \in Nat : base = t * c
  <2>1. base \div t \in Nat /\ base % t = 0
    BY <1>1, QuotientNat
  <2>2. base = t * (base \div t) + (base % t)
    <3> HIDE DEF t
    <3> QED BY <1>1
  <2>3. t * (base \div t) \in Nat
    <3> HIDE DEF t
    <3> QED BY <1>1, <2>1
  <2> HIDE DEF t
  <2> QED BY <2>1, <2>2, <2>3
\* Page m of the region is in its table number m \div b.
<1>3. ASSUME NEW m \in Nat PROVE TableOf(base + m * PAGE_SIZE) = c + (m \div b)
  <2>1. PICK q \in Nat : q = m \div b /\ b * q <= m /\ m < b * q + b
    BY <1>1, QuotientNat
  <2>2. b * q \in Nat /\ PAGE_SIZE * (b * q) <= m * PAGE_SIZE
        /\ PAGE_SIZE * (b * q) = t * q
    <3>1. b * q \in Nat
      BY <1>1
    <3>2. \A x, y \in Nat : x <= y => PAGE_SIZE * x <= y * PAGE_SIZE
      BY <1>1
    <3>3. PAGE_SIZE * (b * q) = t * q
      BY <1>1
    <3> QED BY <2>1, <3>1, <3>2, <3>3
  <2>3. m * PAGE_SIZE < t * q + t
    <3>1. (m + 1) <= b * q + b /\ m + 1 \in Nat /\ b * q + b \in Nat
      BY <1>1, <2>1, <2>2
    <3>2. \A x, y \in Nat : x <= y => x * PAGE_SIZE <= y * PAGE_SIZE
      BY <1>1
    <3>3. (m + 1) * PAGE_SIZE <= (b * q + b) * PAGE_SIZE
      BY <3>1, <3>2
    <3>4. (m + 1) * PAGE_SIZE = m * PAGE_SIZE + PAGE_SIZE /\ m * PAGE_SIZE \in Nat
      BY <1>1
    <3>5. (b * q + b) * PAGE_SIZE = t * q + t
      BY <1>1
    <3>6. t * q \in Nat
      BY <1>1, <2>2
    <3> HIDE DEF t
    <3> QED BY <1>1, <3>3, <3>4, <3>5, <3>6
  <2>4. t * (c + q) = t * c + t * q /\ t * q \in Nat /\ t * c \in Nat /\ c + q \in Int
    <3> HIDE DEF t
    <3> QED BY <1>1
  <2>5. m * PAGE_SIZE \in Nat
    BY <1>1
  <2> HIDE DEF t
  <2>6. /\ t * (c + q) <= base + m * PAGE_SIZE /\ base + m * PAGE_SIZE \in Int
        /\ base + m * PAGE_SIZE < t * (c + q) + t
    BY <1>1, <1>2, <2>2, <2>3, <2>4, <2>5
  <2>7. (base + m * PAGE_SIZE) \div t = c + q
    BY <1>1, <2>4, <2>6, QuotientIs
  <2> QED BY <2>1, <2>7 DEF TableOf, t
<1>4. CASE n = 0
  <2>1. TablesFor(0) = 0 /\ TablesFor(n + 1) = (n \div PT_ENTRIES) + 1 /\ 0 \div PT_ENTRIES = 0
    <3>1. b * 0 <= 0 /\ 0 < b * 0 + b
      BY <1>1
    <3>2. 0 \div b = 0
      BY <1>1, <3>1, QuotientIs
    <3> QED BY <3>2, TablesNeeded
  <2> QED BY <1>4, <2>1
<1>5. CASE n # 0
  <2>1. PICK m \in Nat : n = m + 1
    <3>1. n - 1 \in Nat /\ n = (n - 1) + 1
      BY <1>5
    <3> QED BY <3>1
  <2>2. TablesFor(n) = (m \div b) + 1 /\ TablesFor(n + 1) = (n \div b) + 1
    BY <2>1, TablesNeeded
  <2>3. n \div b = m \div b \/ n \div b = (m \div b) + 1
    BY <1>1, <2>1, QuotientNext
  <2>4. va - PAGE_SIZE = base + m * PAGE_SIZE
    <3>1. n * PAGE_SIZE = m * PAGE_SIZE + PAGE_SIZE /\ m * PAGE_SIZE \in Nat
      BY <1>1, <2>1
    <3> QED BY <1>1, <3>1
  <2>5. TableOf(va) = c + (n \div b) /\ TableOf(va - PAGE_SIZE) = c + (m \div b)
    BY <1>3, <2>4
  <2>6. n > 0
    BY <1>5
  <2> QED BY <2>2, <2>3, <2>5, <2>6
<1> QED BY <1>4, <1>5

\* From one page boundary to the next, and how far the first can be.
LEMMA AlignNext ==
    ASSUME NEW a \in Int
    PROVE  /\ ALIGN(a, PAGE_SIZE) \in Int
           /\ ALIGN(ALIGN(a, PAGE_SIZE) + PAGE_SIZE, PAGE_SIZE) = ALIGN(a, PAGE_SIZE) + PAGE_SIZE
<1> DEFINE s == PAGE_SIZE
<1>1. s \in Nat \ {0}
  BY Sizes
<1> HIDE DEF s
<1>2. PICK q \in Int : q = (a + s - 1) \div s
  BY <1>1
<1>3. q * s \in Int /\ s * (q + 1) = q * s + s /\ q + 1 \in Int /\ (q + 1) * s = q * s + s
  BY <1>1
<1>4. (q * s + s) + s - 1 \in Int /\ s * (q + 1) <= (q * s + s) + s - 1
      /\ (q * s + s) + s - 1 < s * (q + 1) + s
  BY <1>1, <1>3
<1>5. ((q * s + s) + s - 1) \div s = q + 1
  BY <1>1, <1>3, <1>4, QuotientIs
<1>6. ALIGN(a, s) = q * s
  BY <1>2 DEF ALIGN
<1>7. ALIGN(q * s + s, s) = (q + 1) * s
  BY <1>5 DEF ALIGN
<1>8. ALIGN(ALIGN(a, s) + s, s) = ALIGN(a, s) + s /\ ALIGN(a, s) \in Int
  BY <1>3, <1>6, <1>7
<1> QED BY <1>8 DEF s

\* get_page places at most one table, and none that is there.
LEMMA TableCounted ==
    ASSUME placement_address \in Int, get_page, NEW n \in Nat, BehindDirectory(n)
    PROVE  /\ placement_address' \in Int /\ placed \subseteq placed'
           /\ TableOf(vaddr) \in tables'
           /\ BehindDirectory(n + 1)'
           /\ TableOf(vaddr) \in tables => BehindDirectory(n)'
<1>1. PICK r \in placed :
         /\ r.what = "directory" /\ r.hi \in Int
         /\ ALIGN(placement_address, PAGE_SIZE) <= ALIGN(r.hi, PAGE_SIZE) + n * PAGE_SIZE
  BY DEF BehindDirectory
<1>2. ALIGN(r.hi, PAGE_SIZE) \in Int /\ ALIGN(placement_address, PAGE_SIZE) \in Int
      /\ n * PAGE_SIZE \in Int /\ (n + 1) * PAGE_SIZE = n * PAGE_SIZE + PAGE_SIZE
      /\ PAGE_SIZE \in Nat
  BY <1>1, AlignNext, Sizes
<1>3. CASE TableOf(vaddr) \in tables
  <2>1. placement_address' = placement_address /\ placed' = placed /\ tables' = tables
    BY <1>3 DEF get_page
  <2>2. ALIGN(placement_address', PAGE_SIZE) <= ALIGN(r.hi, PAGE_SIZE) + n * PAGE_SIZE
    BY <1>1, <2>1
  <2>3. ALIGN(placement_address', PAGE_SIZE) <= ALIGN(r.hi, PAGE_SIZE) + (n + 1) * PAGE_SIZE
    BY <1>1, <1>2, <2>1
  <2>4. r \in placed' /\ r.what = "directory" /\ r.hi \in Int
    BY <1>1, <2>1
  <2>5. BehindDirectory(n)' /\ BehindDirectory(n + 1)'
    BY <2>2, <2>3, <2>4 DEF BehindDirectory
  <2> QED BY <1>3, <2>1, <2>5
<1>4. CASE TableOf(vaddr) \notin tables
  <2>1. /\ placement_address' = ALIGN(placement_address, PAGE_SIZE) + PAGE_SIZE
        /\ placed \subseteq placed' /\ tables' = tables \cup {TableOf(vaddr)}
    BY <1>4 DEF get_page, ikmalloc, Placement
  <2>2. ALIGN(placement_address', PAGE_SIZE) = ALIGN(placement_address, PAGE_SIZE) + PAGE_SIZE
    BY <2>1, AlignNext
  <2>3. ALIGN(placement_address', PAGE_SIZE) <= ALIGN(r.hi, PAGE_SIZE) + (n + 1) * PAGE_SIZE
    BY <1>1, <1>2, <2>2
  <2>4. BehindDirectory(n + 1)'
    BY <1>1, <2>1, <2>3 DEF BehindDirectory
  <2> QED BY <1>2, <1>4, <2>1, <2>4
<1> QED BY <1>3, <1>4

\* What is reached stays reached, and so does less.
LEMMA ReachedStays ==
    ASSUME NEW m \in Int, NEW k \in Int, k <= m, Reached(m), placed \subseteq placed',
           initrd_end' = initrd_end, nframes' = nframes, initrd_end \in Nat, nframes \in Nat
    PROVE  Reached(k)'
<1>1. CASE m <= initrd_end + 2 * PAGE_SIZE
  <2>1. k <= initrd_end' + 2 * PAGE_SIZE
    BY <1>1, Sizes
  <2> QED BY <2>1 DEF Reached
<1>2. CASE ~(m <= initrd_end + 2 * PAGE_SIZE)
  <2> DEFINE c == (TablesFor(nframes) + TablesFor(HEAP_PAGES) + 2) * PAGE_SIZE
  <2>1. PICK r \in placed : /\ r.what = "directory" /\ r.hi \in Int
                            /\ m <= ALIGN(r.hi, PAGE_SIZE) + c
    BY <1>2 DEF Reached
  <2>2. c \in Int /\ ALIGN(r.hi, PAGE_SIZE) \in Int
    <3>1. HEAP_PAGES \in Nat
      BY QuotientNat, Sizes DEF HEAP_PAGES
    <3>2. TablesFor(nframes) \in Nat /\ TablesFor(HEAP_PAGES) \in Nat
      BY <3>1, TablesNeeded
    <3> QED BY <2>1, <3>2, AlignNext, Sizes
  <2> HIDE DEF c
  <2>3. k <= ALIGN(r.hi, PAGE_SIZE) + c
    BY <2>1, <2>2
  <2>4. k <= ALIGN(r.hi, PAGE_SIZE)
              + (TablesFor(nframes') + TablesFor(HEAP_PAGES) + 2) * PAGE_SIZE
    BY <2>3 DEF c
  <2> QED BY <2>1, <2>4 DEF Reached, HEAP_PAGES, TablesFor
<1> QED BY <1>1, <1>2

\* When the frames run out, the memory they are is less than what was reached
\* and the heap.
LEMMA OutOfFrames ==
    ASSUME nframes \in Nat, initrd_end \in Nat, NEW m \in Int, Reached(m),
           nframes * PAGE_SIZE < m + KHEAP_INITIAL_SIZE,
           placed \subseteq placed', initrd_end' = initrd_end, nframes' = nframes
    PROVE  PanicOnlyWhenFull'
<1>1. nframes * PAGE_SIZE \in Int /\ KHEAP_INITIAL_SIZE \in Nat /\ PAGE_SIZE \in Nat
  BY Sizes
<1>2. CASE m <= initrd_end + 2 * PAGE_SIZE
  <2>1. nframes * PAGE_SIZE < initrd_end + 2 * PAGE_SIZE + KHEAP_INITIAL_SIZE
    BY <1>1, <1>2
  <2> QED BY <2>1 DEF PanicOnlyWhenFull
<1>3. CASE ~(m <= initrd_end + 2 * PAGE_SIZE)
  <2> DEFINE c == (TablesFor(nframes) + TablesFor(HEAP_PAGES) + 2) * PAGE_SIZE
  <2>1. PICK r \in placed : /\ r.what = "directory" /\ r.hi \in Int
                            /\ m <= ALIGN(r.hi, PAGE_SIZE) + c
    BY <1>3 DEF Reached
  <2>2. c \in Int /\ ALIGN(r.hi, PAGE_SIZE) \in Int
    <3>1. HEAP_PAGES \in Nat
      BY QuotientNat, Sizes DEF HEAP_PAGES
    <3>2. TablesFor(nframes) \in Nat /\ TablesFor(HEAP_PAGES) \in Nat
      BY <3>1, TablesNeeded
    <3> QED BY <2>1, <3>2, AlignNext, Sizes
  <2> HIDE DEF c
  <2>3. nframes * PAGE_SIZE < ALIGN(r.hi, PAGE_SIZE) + KHEAP_INITIAL_SIZE + c
    BY <1>1, <2>1, <2>2
  <2>4. nframes' * PAGE_SIZE < ALIGN(r.hi, PAGE_SIZE) + KHEAP_INITIAL_SIZE
          + (TablesFor(nframes') + TablesFor(KHEAP_INITIAL_SIZE \div PAGE_SIZE) + 2) * PAGE_SIZE
    BY <2>3 DEF c, HEAP_PAGES
  <2> QED BY <2>1, <2>4 DEF PanicOnlyWhenFull, TablesFor
<1> QED BY <1>2, <1>3

\* More pages need no fewer tables.
LEMMA TablesGrow ==
    ASSUME NEW m \in Nat, NEW n \in Nat, m <= n
    PROVE  TablesFor(m) <= TablesFor(n)
<1> DEFINE b == PT_ENTRIES
<1>1. b \in Nat \ {0}
  BY Entries
<1> HIDE DEF b
<1>2. m + b - 1 \in Nat /\ n + b - 1 \in Nat
  BY <1>1
<1>3. PICK p \in Nat : p = (m + b - 1) \div b /\ b * p <= m + b - 1
  BY <1>1, <1>2, QuotientNat
<1>4. PICK q \in Nat : q = (n + b - 1) \div b /\ n + b - 1 < b * q + b
  BY <1>1, <1>2, QuotientNat
<1>5. p <= q
  <2> SUFFICES ASSUME q + 1 <= p PROVE FALSE
    BY <1>3, <1>4
  <2>1. b * (q + 1) <= b * p /\ b * (q + 1) = b * q + b /\ b * q \in Nat /\ b * p \in Nat
    BY <1>1
  <2> QED BY <1>1, <1>3, <1>4, <2>1
<1> QED BY <1>3, <1>4, <1>5 DEF TablesFor, b

\* The heap is made of whole pages.
LEMMA HeapPageCount ==
    /\ HEAP_PAGES \in Nat /\ HEAP_PAGES * PAGE_SIZE = KHEAP_INITIAL_SIZE
    /\ TablesFor(HEAP_PAGES) \in Nat
    /\ \A k \in Nat : k * PAGE_SIZE < KHEAP_INITIAL_SIZE => k < HEAP_PAGES
    /\ \A k \in 0 .. HEAP_PAGES : k * PAGE_SIZE >= KHEAP_INITIAL_SIZE => k = HEAP_PAGES
<1> DEFINE s == PAGE_SIZE
           z == KHEAP_INITIAL_SIZE
           h == z \div s
<1>1. s \in Nat \ {0} /\ z \in Nat /\ z % s = 0
  BY BootConstants
<1> HIDE DEF s, z
<1>2. h \in Nat
  BY <1>1, QuotientNat
<1>3. z = s * h + (z % s)
  BY <1>1
<1> HIDE DEF h
<1>4. s * h \in Nat /\ h * s = s * h
  BY <1>1, <1>2
<1>5. h * s = z
  BY <1>1, <1>3, <1>4
<1>6. ASSUME NEW k \in Nat, k * s < z PROVE k < h
  <2> SUFFICES ASSUME h <= k PROVE FALSE
    BY <1>2
  <2>1. h * s <= k * s /\ k * s \in Nat
    BY <1>1, <1>2
  <2> QED BY <1>1, <1>5, <1>6, <2>1
<1>7. ASSUME NEW k \in 0 .. h, k * s >= z PROVE k = h
  <2> SUFFICES ASSUME k + 1 <= h PROVE FALSE
    BY <1>2
  <2>1. (k + 1) * s <= h * s /\ (k + 1) * s = k * s + s /\ k * s \in Nat
    BY <1>1, <1>2
  <2> QED BY <1>1, <1>5, <1>7, <2>1
<1>8. h = HEAP_PAGES
  BY DEF h, z, s, HEAP_PAGES
<1>9. TablesFor(HEAP_PAGES) \in Nat
  BY <1>2, <1>8, TablesNeeded
<1> QED BY <1>2, <1>5, <1>6, <1>7, <1>8, <1>9 DEF z, s

LEMMA RoomInit == Init => RoomInv
<1> SUFFICES ASSUME Init PROVE RoomInv
  OBVIOUS
<1>1. PICK l \in Layouts :
         /\ initrd_end = InitrdStart(l) + l.initrd
         /\ nframes = (PM_END - PmStart(l)) \div PAGE_SIZE
         /\ placement_address = PmStart(l)
  BY DEF Init
<1>2. pc = "bitmaps" /\ order = 0 /\ next_frame = 0
  BY DEF Init
<1>3. l.kernel \in Nat /\ l.initrd \in Nat /\ l.gap \in Nat /\ PmStart(l) <= PM_END
  BY BootConstants
<1>4. InitrdStart(l) \in Nat
  <2>1. KERNEL_LO + l.kernel + l.gap \in Nat
    BY <1>3, Sizes
  <2>2. InitrdStart(l) \in Int /\ InitrdStart(l) >= KERNEL_LO + l.kernel + l.gap
    BY <2>1, AlignUp DEF InitrdStart
  <2> QED BY <2>1, <2>2
<1>5. PmStart(l) \in Int
  <2>1. l.kernel - HEADER_BYTES \in Int /\ l.initrd \in Int
    BY <1>3, Sizes
  <2>2. ALIGN(l.kernel - HEADER_BYTES, PAGE_SIZE) \in Int /\ ALIGN(l.initrd, PAGE_SIZE) \in Int
    BY <2>1, AlignUp
  <2> QED BY <2>2, Sizes DEF PmStart
<1>6. nframes \in Nat
  <2>1. PM_END - PmStart(l) \in Nat
    BY <1>3, <1>5, Sizes
  <2> QED BY <1>1, <2>1, QuotientNat, Sizes
<1>7. initrd_end \in Nat /\ placement_address \in Int
  BY <1>1, <1>3, <1>4, <1>5
<1> QED BY <1>2, <1>6, <1>7, MapInit, Sizes
        DEF RoomInv, TablesCounted, FramesCounted, PanicOnlyWhenFull

LEMMA RoomBitmap ==
    ASSUME RoomInv, frame_initialize
    PROVE  (TablesCounted /\ FramesCounted /\ PanicOnlyWhenFull)'
<1>1. /\ nframes \in Nat /\ initrd_end \in Nat /\ placement_address \in Int
      /\ order \in Nat /\ order <= MAX_ORDER /\ next_frame <= nframes /\ pc = "bitmaps"
  BY DEF RoomInv, FramesCounted, frame_initialize
<1>2. BitmapBytes \in Int
  <2>1. 2^order \in Nat \ {0}
    BY <1>1, BootPowers, Sizes
  <2>2. nframes \div 2^order \in Int
    BY <1>1, <2>1
  <2> QED BY <2>2, Sizes DEF BitmapBytes
<1>3. placement_address' \in Int
  <2>1. ALIGN(placement_address, PAGE_SIZE) \in Int
    BY <1>1, AlignUp
  <2>2. PICK align \in BOOLEAN : placement_address' = Placement(align) + BitmapBytes
    BY DEF frame_initialize, ikmalloc
  <2>3. Placement(align) \in Int
    BY <1>1, <2>1 DEF Placement
  <2> QED BY <1>2, <2>2, <2>3
<1>4. /\ nframes' = nframes /\ initrd_end' = initrd_end /\ order' = order + 1
      /\ next_frame' = next_frame /\ pc' \in {"bitmaps", "directory"}
      /\ pc' = "bitmaps" => order # MAX_ORDER
  BY <1>1 DEF frame_initialize
<1>5. order' \in Nat /\ (pc' = "bitmaps" => order' <= MAX_ORDER)
  BY <1>1, <1>4, Sizes
<1> QED BY <1>1, <1>3, <1>4, <1>5 DEF TablesCounted, FramesCounted, PanicOnlyWhenFull

LEMMA RoomDirectory ==
    ASSUME RoomInv, create_kernel_pd
    PROVE  (TablesCounted /\ FramesCounted /\ PanicOnlyWhenFull)'
<1>1. /\ nframes \in Nat /\ initrd_end \in Nat /\ placement_address \in Int
      /\ order \in Nat /\ next_frame <= nframes
  BY DEF RoomInv, FramesCounted
<1>2. /\ nframes' = nframes /\ initrd_end' = initrd_end /\ order' = order
      /\ next_frame' = next_frame /\ pc' = "heap_tables" /\ vaddr' = KHEAP_START
  BY DEF create_kernel_pd
<1> DEFINE at == ALIGN(placement_address, PAGE_SIZE)
           R == Region("directory", at, PD_BYTES)
<1>3. at \in Int /\ placement_address' = at + PD_BYTES /\ R \in placed'
  BY <1>1, AlignUp DEF create_kernel_pd, ikmalloc, Placement
<1>4. R.what = "directory" /\ R.hi = at + PD_BYTES
  BY DEF Region
<1> HIDE DEF R, at
<1>5. placement_address' \in Int /\ R.hi = placement_address'
  BY <1>3, <1>4, Sizes
<1>6. ALIGN(placement_address', PAGE_SIZE) <= ALIGN(R.hi, PAGE_SIZE) + 0 * PAGE_SIZE
  <2>1. ALIGN(placement_address', PAGE_SIZE) \in Int /\ 0 * PAGE_SIZE = 0
    BY <1>5, AlignUp, Sizes
  <2> QED BY <1>5, <2>1
<1>7. BehindDirectory(0)'
  BY <1>3, <1>4, <1>5, <1>6 DEF BehindDirectory
<1>8. TablesFor(0) = 0 /\ 0 \in 0 .. HEAP_PAGES /\ vaddr' = KHEAP_START + 0 * PAGE_SIZE /\ ~(0 > 0)
  BY <1>2, TablesNeeded, HeapPageCount, Sizes
<1>9. TablesCounted'
  <2>1. BehindDirectory(TablesFor(0))'
    BY <1>7, <1>8
  <2> QED BY <1>2, <1>8, <2>1 DEF TablesCounted, HEAP_PAGES
<1> QED BY <1>1, <1>2, <1>5, <1>9 DEF FramesCounted, PanicOnlyWhenFull

LEMMA RoomHeapTables ==
    ASSUME RoomInv, map_heap_tables
    PROVE  (TablesCounted /\ FramesCounted /\ PanicOnlyWhenFull)'
<1>1. /\ nframes \in Nat /\ initrd_end \in Nat /\ placement_address \in Int
      /\ order \in Nat /\ next_frame <= nframes /\ pc = "heap_tables"
  BY DEF RoomInv, FramesCounted, map_heap_tables
<1>2. PICK k \in 0 .. HEAP_PAGES :
         /\ vaddr = KHEAP_START + k * PAGE_SIZE
         /\ k > 0 => TableOf(vaddr - PAGE_SIZE) \in tables
         /\ BehindDirectory(TablesFor(k))
  BY <1>1 DEF RoomInv, TablesCounted
<1>3. nframes' = nframes /\ initrd_end' = initrd_end /\ order' = order /\ next_frame' = next_frame
  BY DEF map_heap_tables
<1>4. k \in Nat /\ k + 1 \in Nat /\ k * PAGE_SIZE \in Nat
      /\ (k + 1) * PAGE_SIZE = k * PAGE_SIZE + PAGE_SIZE
  BY <1>2, HeapPageCount, Sizes
<1>5. CASE vaddr < HEAP_END
  <2>1. get_page /\ vaddr' = vaddr + PAGE_SIZE /\ pc' = pc
    BY <1>5 DEF map_heap_tables
  <2>2. k + 1 \in 0 .. HEAP_PAGES
    <3>1. k * PAGE_SIZE < KHEAP_INITIAL_SIZE
      BY <1>2, <1>4, <1>5, Sizes DEF HEAP_END
    <3> QED BY <1>4, <3>1, HeapPageCount
  <2>3. vaddr' = KHEAP_START + (k + 1) * PAGE_SIZE /\ vaddr' - PAGE_SIZE = vaddr
    BY <1>2, <1>4, <2>1, Sizes
  <2>4. PICK n \in Nat : n = TablesFor(k)
    BY <1>4, TablesNeeded
  <2>5. /\ placement_address' \in Int /\ TableOf(vaddr) \in tables'
        /\ BehindDirectory(n + 1)'
        /\ TableOf(vaddr) \in tables => BehindDirectory(n)'
    BY <1>1, <1>2, <2>1, <2>4, TableCounted
  <2>6. PICK m \in Nat : m = TablesFor(k + 1)
    BY <1>4, TablesNeeded
  <2>7. BehindDirectory(m)'
    <3>1. KHEAP_START \in Nat /\ KHEAP_START % (PAGE_SIZE * PT_ENTRIES) = 0
      BY BootConstants
    <3>2. \/ m = n + 1
          \/ k > 0 /\ TableOf(vaddr) = TableOf(vaddr - PAGE_SIZE) /\ m = n
      BY <1>2, <1>4, <2>4, <2>6, <3>1, TableNext
    <3> QED BY <1>2, <2>5, <3>2
  <2>8. TableOf(vaddr' - PAGE_SIZE) \in tables'
    BY <2>3, <2>5
  <2>9. BehindDirectory(TablesFor(k + 1))'
    BY <2>6, <2>7 DEF TablesFor
  <2>10. TablesCounted'
    BY <1>1, <2>1, <2>2, <2>3, <2>8, <2>9 DEF TablesCounted, HEAP_PAGES
  <2> QED BY <1>1, <1>3, <2>1, <2>5, <2>10 DEF FramesCounted, PanicOnlyWhenFull
<1>6. CASE ~(vaddr < HEAP_END)
  <2>1. vaddr' = 0 /\ pc' = "identity" /\ placement_address' = placement_address
        /\ placed' = placed /\ tables' = tables
    BY <1>6 DEF map_heap_tables
  <2>2. k = HEAP_PAGES
    <3>1. k * PAGE_SIZE >= KHEAP_INITIAL_SIZE
      BY <1>2, <1>4, <1>6, Sizes DEF HEAP_END
    <3> QED BY <1>2, <3>1, HeapPageCount
  <2>3. next_frame' = 0
    BY <1>1, <1>3 DEF RoomInv, MapInv, FramesInOrder
  <2>4. PICK n \in Nat : n = TablesFor(HEAP_PAGES)
    BY HeapPageCount
  <2>5. BehindDirectory(n)'
    BY <1>2, <2>1, <2>2, <2>4 DEF BehindDirectory
  <2>6. TablesFor(HEAP_PAGES) + TablesFor(next_frame') = n
    BY <2>3, <2>4, TablesNeeded
  <2>7. TablesCounted'
    <3>1. BehindDirectory(TablesFor(HEAP_PAGES) + TablesFor(next_frame))'
      BY <2>5, <2>6 DEF HEAP_PAGES, TablesFor
    <3>2. ~(next_frame' > 0)
      BY <2>3
    <3> QED BY <2>1, <3>1, <3>2 DEF TablesCounted, HEAP_PAGES
  <2>8. Reached(vaddr)'
    <3>1. vaddr' <= initrd_end' + 2 * PAGE_SIZE
      BY <1>1, <1>3, <2>1, Sizes
    <3> QED BY <3>1 DEF Reached
  <2> QED BY <1>1, <1>3, <2>1, <2>7, <2>8 DEF FramesCounted, PanicOnlyWhenFull
<1> QED BY <1>5, <1>6

\* A round of an identity loop takes the next frame, or there is none.
LEMMA RoundTakesFrame ==
    ASSUME RoomInv, pc \in {"identity", "initrd"}, alloc_frame(pc), vaddr' = vaddr + PAGE_SIZE
    PROVE  /\ vaddr = next_frame * PAGE_SIZE /\ vaddr \in Nat /\ next_frame \in Nat
           /\ \/ pc' = pc /\ next_frame' = next_frame + 1 /\ next_frame + 1 <= nframes
              \/ pc' = "panic" /\ next_frame' = next_frame /\ next_frame = nframes
<1>1. /\ next_frame \in Nat /\ vaddr \in Nat /\ vaddr = next_frame * PAGE_SIZE
      /\ DOMAIN pte = 0 .. (next_frame - 1)
  BY DEF RoomInv, MapInv, FramesInOrder
<1>2. Page(vaddr) = next_frame
  BY <1>1, PageAt
<1>3. PFN(Page(vaddr)) = 0
  <2>1. next_frame \notin DOMAIN pte
    BY <1>1
  <2> QED BY <1>2, <2>1 DEF PFN
<1>4. nframes \in Nat /\ next_frame <= nframes
  BY DEF RoomInv, FramesCounted
<1>5. CASE next_frame = nframes
  BY <1>1, <1>3, <1>5 DEF alloc_frame
<1>6. CASE next_frame # nframes
  <2>1. pc' = pc /\ next_frame' = next_frame + 1
    BY <1>3, <1>6 DEF alloc_frame
  <2> QED BY <1>1, <1>4, <1>6, <2>1
<1> QED BY <1>5, <1>6

LEMMA RoomKernel ==
    ASSUME RoomInv, map_kernel
    PROVE  (TablesCounted /\ FramesCounted /\ PanicOnlyWhenFull)'
<1>1. /\ nframes \in Nat /\ initrd_end \in Nat /\ placement_address \in Int
      /\ order \in Nat /\ next_frame <= nframes /\ pc = "identity" /\ Reached(vaddr)
      /\ next_frame > 0 => TableOf(vaddr - PAGE_SIZE) \in tables
      /\ BehindDirectory(TablesFor(HEAP_PAGES) + TablesFor(next_frame))
      /\ vaddr = next_frame * PAGE_SIZE /\ vaddr \in Nat /\ next_frame \in Nat
  BY DEF RoomInv, FramesCounted, TablesCounted, MapInv, FramesInOrder, map_kernel
<1>2. nframes' = nframes /\ initrd_end' = initrd_end /\ order' = order
  BY DEF map_kernel
<1>3. CASE vaddr < placement_address + PAGE_SIZE
  <2>1. get_page /\ alloc_frame("identity") /\ vaddr' = vaddr + PAGE_SIZE
    BY <1>3 DEF map_kernel
  <2>2. \/ pc' = pc /\ next_frame' = next_frame + 1 /\ next_frame + 1 <= nframes
        \/ pc' = "panic" /\ next_frame' = next_frame /\ next_frame = nframes
    BY <1>1, <2>1, RoundTakesFrame
  <2>3. PICK h \in Nat : h = TablesFor(HEAP_PAGES)
    BY HeapPageCount
  <2>4. PICK t \in Nat : t = TablesFor(next_frame)
    BY <1>1, TablesNeeded
  <2>5. PICK u \in Nat : u = TablesFor(next_frame + 1)
    BY <1>1, TablesNeeded
  <2>6. PICK n \in Nat : n = h + t
    OBVIOUS
  <2>7. BehindDirectory(n)
    BY <1>1, <2>3, <2>4, <2>6
  <2>8. /\ placement_address' \in Int /\ TableOf(vaddr) \in tables' /\ placed \subseteq placed'
        /\ BehindDirectory(n + 1)'
        /\ TableOf(vaddr) \in tables => BehindDirectory(n)'
    BY <1>1, <2>1, <2>7, TableCounted
  \* Where the loop is now is not far behind what was placed.
  <2>9. Reached(vaddr + PAGE_SIZE)
    <3>1. PICK r \in placed :
             /\ r.what = "directory" /\ r.hi \in Int
             /\ ALIGN(placement_address, PAGE_SIZE) <= ALIGN(r.hi, PAGE_SIZE) + n * PAGE_SIZE
      BY <2>7 DEF BehindDirectory
    <3>2. PICK w \in Nat : w = TablesFor(nframes)
      BY <1>1, TablesNeeded
    <3>3. n + 2 <= w + h + 2
      <4>1. t <= w
        BY <1>1, <2>4, <3>2, TablesGrow
      <4> QED BY <2>6, <4>1
    <3>4. (n + 2) * PAGE_SIZE <= (w + h + 2) * PAGE_SIZE
      BY <3>3, Sizes
    <3>5. (n + 2) * PAGE_SIZE = n * PAGE_SIZE + 2 * PAGE_SIZE /\ n * PAGE_SIZE \in Int
          /\ (w + h + 2) * PAGE_SIZE \in Int
      BY Sizes
    <3>6. ALIGN(placement_address, PAGE_SIZE) \in Int /\ ALIGN(r.hi, PAGE_SIZE) \in Int
          /\ placement_address <= ALIGN(placement_address, PAGE_SIZE)
      BY <1>1, <3>1, AlignUp
    <3>7. vaddr + PAGE_SIZE <= ALIGN(r.hi, PAGE_SIZE) + (w + h + 2) * PAGE_SIZE
      BY <1>1, <1>3, <3>1, <3>4, <3>5, <3>6, Sizes
    <3> QED BY <2>3, <3>1, <3>2, <3>7 DEF Reached
  <2>10. vaddr + PAGE_SIZE \in Nat
    BY <1>1, Sizes
  <2>11. CASE pc' = pc
    <3>1. next_frame' = next_frame + 1 /\ next_frame' <= nframes
      BY <1>1, <2>2, <2>11
    <3>2. BehindDirectory(h + u)'
      <4>1. 0 \in Nat /\ 0 % (PAGE_SIZE * PT_ENTRIES) = 0 /\ vaddr = 0 + next_frame * PAGE_SIZE
        <5>1. \A b \in Nat \ {0} : 0 % b = 0
          OBVIOUS
        <5> QED BY <1>1, <5>1, Entries
      <4>2. \/ u = t + 1
            \/ next_frame > 0 /\ TableOf(vaddr) = TableOf(vaddr - PAGE_SIZE) /\ u = t
        BY <1>1, <2>4, <2>5, <4>1, TableNext
      <4>3. CASE u = t + 1
        <5>1. h + u = n + 1
          BY <2>6, <4>3
        <5> QED BY <2>8, <5>1
      <4>4. CASE next_frame > 0 /\ TableOf(vaddr) = TableOf(vaddr - PAGE_SIZE) /\ u = t
        <5>1. h + u = n /\ TableOf(vaddr) \in tables
          BY <1>1, <2>6, <4>4
        <5> QED BY <2>8, <5>1
      <4> QED BY <4>2, <4>3, <4>4
    <3>3. TablesFor(HEAP_PAGES) + TablesFor(next_frame') = h + u
      BY <2>3, <2>5, <3>1
    <3>4. BehindDirectory(TablesFor(HEAP_PAGES) + TablesFor(next_frame))'
      BY <3>2, <3>3 DEF HEAP_PAGES, TablesFor
    <3>5. TableOf(vaddr' - PAGE_SIZE) \in tables'
      <4>1. vaddr' - PAGE_SIZE = vaddr
        BY <1>1, <2>1, Sizes
      <4> QED BY <2>8, <4>1
    <3>6. TablesCounted'
      BY <1>1, <2>11, <3>4, <3>5 DEF TablesCounted, HEAP_PAGES, TableOf
    <3>7. Reached(vaddr)'
      <4>1. PICK v \in Nat : v = vaddr + PAGE_SIZE
        BY <2>10
      <4>2. Reached(v)'
        BY <1>1, <1>2, <2>8, <2>9, <4>1, ReachedStays
      <4> QED BY <2>1, <4>1, <4>2 DEF Reached
    <3> QED BY <1>1, <1>2, <2>8, <2>11, <3>1, <3>6, <3>7 DEF FramesCounted, PanicOnlyWhenFull
  <2>12. CASE pc' = "panic"
    <3>1. next_frame = nframes /\ next_frame' = next_frame
      BY <1>1, <2>2, <2>12
    <3>2. nframes * PAGE_SIZE < (vaddr + PAGE_SIZE) + KHEAP_INITIAL_SIZE
      BY <1>1, <3>1, Sizes
    <3>3. PanicOnlyWhenFull'
      BY <1>1, <1>2, <2>8, <2>9, <2>10, <3>2, OutOfFrames
    <3> QED BY <1>1, <1>2, <2>8, <2>12, <3>1, <3>3 DEF FramesCounted, TablesCounted
  <2> QED BY <2>2, <2>11, <2>12
<1>4. CASE ~(vaddr < placement_address + PAGE_SIZE)
  <2>1. pc' = "initrd" /\ placement_address' = placement_address /\ next_frame' = next_frame
        /\ placed' = placed /\ tables' = tables /\ vaddr' = vaddr
    BY <1>4 DEF map_kernel
  <2>2. Reached(vaddr)'
    BY <1>1, <1>2, <2>1 DEF Reached, TablesFor, HEAP_PAGES
  <2> QED BY <1>1, <1>2, <2>1, <2>2 DEF FramesCounted, TablesCounted, PanicOnlyWhenFull
<1> QED BY <1>3, <1>4

\* get_page takes nothing away.
LEMMA TableAdds ==
    ASSUME placement_address \in Int, get_page
    PROVE  placement_address' \in Int /\ placed \subseteq placed'
<1>1. ALIGN(placement_address, PAGE_SIZE) \in Int /\ PAGE_SIZE \in Int
  BY AlignUp, Sizes
<1> QED BY <1>1 DEF get_page, ikmalloc, Placement

LEMMA RoomInitrd ==
    ASSUME RoomInv, map_initrd
    PROVE  (TablesCounted /\ FramesCounted /\ PanicOnlyWhenFull)'
<1>1. /\ nframes \in Nat /\ initrd_end \in Nat /\ placement_address \in Int
      /\ order \in Nat /\ next_frame <= nframes /\ pc = "initrd" /\ Reached(vaddr)
      /\ vaddr = next_frame * PAGE_SIZE /\ vaddr \in Nat /\ next_frame \in Nat
  BY DEF RoomInv, FramesCounted, MapInv, FramesInOrder, map_initrd
<1>2. nframes' = nframes /\ initrd_end' = initrd_end /\ order' = order
  BY DEF map_initrd
<1>3. CASE vaddr < initrd_end + PAGE_SIZE
  <2>1. get_page /\ alloc_frame("initrd") /\ vaddr' = vaddr + PAGE_SIZE
    BY <1>3 DEF map_initrd
  <2>2. \/ pc' = pc /\ next_frame' = next_frame + 1 /\ next_frame + 1 <= nframes
        \/ pc' = "panic" /\ next_frame' = next_frame /\ next_frame = nframes
    BY <1>1, <2>1, RoundTakesFrame
  <2>3. placement_address' \in Int /\ placed \subseteq placed'
    BY <1>1, <2>1, TableAdds
  <2>4. vaddr + PAGE_SIZE <= initrd_end + 2 * PAGE_SIZE /\ vaddr + PAGE_SIZE \in Nat
    BY <1>1, <1>3, Sizes
  <2>5. CASE pc' = pc
    <3>1. next_frame' <= nframes'
      BY <1>1, <1>2, <2>2, <2>5
    <3>2. Reached(vaddr)'
      BY <1>2, <2>1, <2>4 DEF Reached
    <3> QED BY <1>1, <1>2, <2>3, <2>5, <3>1, <3>2 DEF FramesCounted, TablesCounted, PanicOnlyWhenFull
  <2>6. CASE pc' = "panic"
    <3>1. next_frame = nframes /\ next_frame' = next_frame
      BY <1>1, <2>2, <2>6
    <3>2. nframes * PAGE_SIZE < (vaddr + PAGE_SIZE) + KHEAP_INITIAL_SIZE
      BY <1>1, <3>1, Sizes
    <3>3. Reached(vaddr + PAGE_SIZE)
      BY <2>4 DEF Reached
    <3>4. PanicOnlyWhenFull'
      BY <1>1, <1>2, <2>3, <2>4, <3>2, <3>3, OutOfFrames
    <3> QED BY <1>1, <1>2, <2>3, <2>6, <3>1, <3>4 DEF FramesCounted, TablesCounted
  <2> QED BY <2>2, <2>5, <2>6
<1>4. CASE ~(vaddr < initrd_end + PAGE_SIZE)
  <2>1. /\ pc' = "heap_frames" /\ placement_address' = initrd_end + PAGE_SIZE
        /\ vaddr' = KHEAP_START /\ placed' = placed /\ next_frame' = next_frame
    BY <1>4 DEF map_initrd
  <2>2. next_frame' * PAGE_SIZE - (vaddr' - KHEAP_START) = vaddr
    BY <1>1, <2>1, Sizes
  <2>3. Reached(next_frame * PAGE_SIZE - (vaddr - KHEAP_START))'
    BY <1>1, <1>2, <2>1, <2>2 DEF Reached, TablesFor, HEAP_PAGES
  <2>4. placement_address' \in Int
    BY <1>1, <2>1, Sizes
  <2> QED BY <1>1, <1>2, <2>1, <2>3, <2>4 DEF FramesCounted, TablesCounted, PanicOnlyWhenFull
<1> QED BY <1>3, <1>4

LEMMA RoomHeap ==
    ASSUME RoomInv, map_heap
    PROVE  (TablesCounted /\ FramesCounted /\ PanicOnlyWhenFull)'
<1>1. /\ nframes \in Nat /\ initrd_end \in Nat /\ placement_address \in Int
      /\ order \in Nat /\ next_frame <= nframes /\ pc = "heap_frames"
      /\ Reached(next_frame * PAGE_SIZE - (vaddr - KHEAP_START))
      /\ vaddr \in Nat /\ next_frame \in Nat
  BY DEF RoomInv, FramesCounted, MapInv, FramesInOrder, map_heap
<1>2. nframes' = nframes /\ initrd_end' = initrd_end /\ order' = order
  BY DEF map_heap
<1>3. CASE vaddr < HEAP_END
  <2>1. get_page /\ alloc_frame("heap_frames") /\ vaddr' = vaddr + PAGE_SIZE
    BY <1>3 DEF map_heap
  <2>2. placement_address' \in Int /\ placed \subseteq placed'
    BY <1>1, <2>1, TableAdds
  <2>3. PICK m \in Int : m = next_frame * PAGE_SIZE - (vaddr - KHEAP_START)
    BY <1>1, Sizes
  <2>4. CASE pc' = "panic" /\ next_frame = nframes /\ next_frame' = next_frame
    <3>1. nframes * PAGE_SIZE < m + KHEAP_INITIAL_SIZE
      <4>1. nframes * PAGE_SIZE \in Int
        BY <1>1, Sizes
      <4> QED BY <1>1, <1>3, <2>3, <2>4, <4>1, Sizes DEF HEAP_END
    <3>2. PanicOnlyWhenFull'
      BY <1>1, <1>2, <2>2, <2>3, <3>1, OutOfFrames
    <3> QED BY <1>1, <1>2, <2>2, <2>4, <3>2 DEF FramesCounted, TablesCounted
  <2>5. CASE pc' = "heap_frames" /\ next_frame' \in {next_frame, next_frame + 1}
             /\ next_frame' <= nframes
    <3>1. PICK f \in Nat : f = next_frame'
      BY <1>1, <2>5
    <3>2. f * PAGE_SIZE <= next_frame * PAGE_SIZE + PAGE_SIZE
      <4>1. (next_frame + 1) * PAGE_SIZE = next_frame * PAGE_SIZE + PAGE_SIZE
            /\ next_frame * PAGE_SIZE \in Nat
        BY <1>1, Sizes
      <4>2. CASE f = next_frame
        BY <4>1, <4>2, Sizes
      <4>3. CASE f = next_frame + 1
        BY <4>1, <4>3, Sizes
      <4> QED BY <2>5, <3>1, <4>2, <4>3
    <3>3. PICK k \in Int : k = f * PAGE_SIZE - (vaddr' - KHEAP_START)
      BY <1>1, <2>1, Sizes
    <3>4. k <= m
      <4>1. f * PAGE_SIZE \in Int /\ next_frame * PAGE_SIZE \in Int
        BY <1>1, Sizes
      <4> QED BY <1>1, <2>1, <2>3, <3>2, <3>3, <4>1, Sizes
    <3>5. Reached(k)'
      BY <1>1, <1>2, <2>2, <2>3, <3>4, ReachedStays
    <3>6. Reached(next_frame * PAGE_SIZE - (vaddr - KHEAP_START))'
      BY <3>1, <3>3, <3>5 DEF Reached
    <3> QED BY <1>1, <1>2, <2>2, <2>5, <3>6 DEF FramesCounted, TablesCounted, PanicOnlyWhenFull
  <2>6. \/ pc' = "panic" /\ next_frame = nframes /\ next_frame' = next_frame
        \/ pc' = "heap_frames" /\ next_frame' \in {next_frame, next_frame + 1}
           /\ next_frame' <= nframes
    <3>1. CASE PFN(Page(vaddr)) # 0
      BY <1>1, <2>1, <3>1 DEF alloc_frame
    <3>2. CASE PFN(Page(vaddr)) = 0 /\ next_frame = nframes
      BY <1>1, <2>1, <3>2 DEF alloc_frame
    <3>3. CASE PFN(Page(vaddr)) = 0 /\ next_frame # nframes
      <4>1. pc' = "heap_frames" /\ next_frame' = next_frame + 1
        BY <2>1, <3>3 DEF alloc_frame
      <4> QED BY <1>1, <3>3, <4>1
    <3> QED BY <3>1, <3>2, <3>3
  <2> QED BY <2>4, <2>5, <2>6
<1>4. CASE ~(vaddr < HEAP_END)
  <2>1. pc' = "heap_init" /\ placement_address' = placement_address /\ next_frame' = next_frame
    BY <1>4 DEF map_heap
  <2> QED BY <1>1, <1>2, <2>1 DEF FramesCounted, TablesCounted, PanicOnlyWhenFull
<1> QED BY <1>3, <1>4

LEMMA RoomNext == RoomInv /\ [Next]_vars => RoomInv'
<1> SUFFICES ASSUME RoomInv, [Next]_vars PROVE RoomInv'
  OBVIOUS
<1>1. MapInv'
  BY MapNext DEF RoomInv
<1>2. CASE frame_initialize
  BY <1>1, <1>2, RoomBitmap DEF RoomInv
<1>3. CASE create_kernel_pd
  BY <1>1, <1>3, RoomDirectory DEF RoomInv
<1>4. CASE map_heap_tables
  BY <1>1, <1>4, RoomHeapTables DEF RoomInv
<1>5. CASE map_kernel
  BY <1>1, <1>5, RoomKernel DEF RoomInv
<1>6. CASE map_initrd
  BY <1>1, <1>6, RoomInitrd DEF RoomInv
<1>7. CASE map_heap
  BY <1>1, <1>7, RoomHeap DEF RoomInv
<1>8. CASE heap_init
  <2>1. placement_address' \in Int
    BY <1>8, Sizes DEF RoomInv, FramesCounted, heap_init
  <2> QED BY <1>1, <1>8, <2>1 DEF RoomInv, heap_init, TablesCounted, FramesCounted, PanicOnlyWhenFull
<1>9. CASE UNCHANGED vars
  <2>1. TablesCounted'
    BY <1>9 DEF vars, RoomInv, TablesCounted, BehindDirectory, HEAP_PAGES, TablesFor, TableOf
  <2>2. FramesCounted'
    BY <1>9 DEF vars, RoomInv, FramesCounted, Reached, HEAP_PAGES, TablesFor
  <2>3. PanicOnlyWhenFull'
    BY <1>9 DEF vars, RoomInv, PanicOnlyWhenFull, TablesFor
  <2> QED BY <1>1, <2>1, <2>2, <2>3 DEF RoomInv
<1> QED BY <1>2, <1>3, <1>4, <1>5, <1>6, <1>7, <1>8, <1>9 DEF Next

\* vm_initialize: wherever the initrd is, the boot runs out of frames only if
\* the frames do not reach for the heap and for what must be mapped
\* identically; the tables that the loops place cannot keep them going.
THEOREM OutOfFramesOnlyWhenFull == Spec => []PanicOnlyWhenFull
<1>1. RoomInv => PanicOnlyWhenFull
  BY DEF RoomInv
<1> QED BY <1>1, RoomInit, RoomNext, PTL DEF Spec
=============================================================================
