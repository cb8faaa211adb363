----------------------------- MODULE KernelHeap -----------------------------
(***************************************************************************)
(* The kernel heap of kernel/arch/i386/vm.c: heap_init, heap_alloc,        *)
(* heap_free, expand_heap and their wrappers kmalloc, ikmalloc and kfree,  *)
(* on the AVL tree of AvlTree.  The nodes of the tree are themselves       *)
(* allocated on the heap (create_node calls kmalloc), and are never freed. *)
(*                                                                         *)
(* Addresses are numbers below WORD.  A block is a header of HDR units and *)
(* its data.  A step is one call of kmalloc, ikmalloc(page_align) or       *)
(* kfree; "S" is the heap while a call runs.                               *)
(***************************************************************************)
EXTENDS AvlTree, TLC

CONSTANTS
    WORD,          \* addresses wrap at WORD (2^32)
    PAGE_SIZE,     \* 0x1000
    HDR,           \* sizeof(header_t)
    NODE,          \* sizeof(avl_node_t)
    Heaps,         \* what heap_init is called with: the start of the heap,
                   \* its initial size, and the size it may grow to
    Sizes,         \* sizes asked of kmalloc
    AlignedSizes   \* sizes asked of ikmalloc with page_align

ASSUME HeapConstants ==
    /\ {WORD, PAGE_SIZE, HDR, NODE} \subseteq Nat \ {0} /\ WORD % PAGE_SIZE = 0
    /\ \A h \in Heaps :
          /\ {h.start, h.initial, h.max_size} \subseteq Nat \ {0}
          /\ h.start % PAGE_SIZE = 0 /\ h.initial % PAGE_SIZE = 0
          /\ h.start + h.initial < WORD /\ h.max_size < WORD
    /\ Sizes \cup AlignedSizes \subseteq Nat \ {0}

VARIABLES
    heap,      \* heap_t, the memory of its nodes and the block headers
    live,      \* ghost: header addresses of the blocks callers hold
    freed      \* ghost: header addresses of freed blocks not yet reused

vars == <<heap, live, freed>>

(***************************************************************************)
(* heap.node      memory of the nodes, by address; NULL is address 0       *)
(* heap.header    size stored in the header at an address                  *)
(* heap.reentered ghost: a node was removed from the tree by the           *)
(*                allocation of another node, in the middle of avl_insert  *)
(***************************************************************************)

\* The first node is allocated before the heap exists, outside of it.
FIRST == 1

ALIGN(x) == (((x + PAGE_SIZE - 1) % WORD) \div PAGE_SIZE) * PAGE_SIZE

\* Mutant of AlignedHeader: the header is aligned, not the data.
AlignedHeader_self(addr) == ALIGN(addr)

\* Where the header goes for the data to be page-aligned.
AlignedHeader(addr) == ALIGN(addr + HDR) - HDR

(***************************************************************************)
(* heap_alloc.                                                             *)
(***************************************************************************)

\* A result of heap_alloc: the heap and the address of the data, or NULL.
Allocated(S, addr, size) ==
    [s |-> [S EXCEPT !.header = (addr :> size) @@ @], addr |-> addr + HDR]
OutOfMemory(S) == [s |-> S, addr |-> NULL]

\* heap->root = avl_...(heap->root, ...), where r is what the call returned.
WithTree(S, r) == [S EXCEPT !.node = r.m, !.root = r.p]

\* expand_heap: the new end of the heap, or 0.  Both sums are 32-bit sums.
expand_heap(S, size) ==
    LET new_end_addr == ALIGN((S.end_addr + size) % WORD)
    IN  IF new_end_addr > (S.start_addr + S.max_size) % WORD THEN 0 ELSE new_end_addr

\* No free block was found: the block goes to the end of the expanded heap.
AllocAtEnd(S, addr, size) ==
    LET new_end == expand_heap(S, (addr - S.end_addr) + HDR + size)
    IN  IF new_end = 0 THEN OutOfMemory(S)
                       ELSE Allocated([S EXCEPT !.end_addr = new_end], addr, size)

\* Mutant of AllocFrom: the header is not counted.
AllocFrom_short(S, p, addr, size) ==
    LET cut == addr - S.node[p].base + size
        n   == [S.node EXCEPT ![p].base = addr + size, ![p].size = @ - cut]
    IN  Allocated([S EXCEPT !.node = n], addr, size)

\* The block at addr is taken out of free block p, which is deleted if that
\* leaves nothing of it.
AllocFrom(S, p, addr, size) ==
    LET cut == addr - S.node[p].base + HDR + size
        n   == [S.node EXCEPT ![p].base = addr + HDR + size, ![p].size = @ - cut]
    IN  Allocated(WithTree(S, IF n[p].size = 0
                                THEN avl_delete(n, S.root, n[p].base)
                                ELSE Result(n, S.root)), addr, size)

\* heap_alloc without page_align.
heap_alloc(S, size) ==
    LET best_fit == find_best_fit(S.node, S.root, size + HDR)
    IN  IF best_fit = NULL
          THEN AllocAtEnd(S, S.end_addr, size)
          ELSE AllocFrom(S, best_fit, S.node[best_fit].base, size)

\* A free block that a node fills exactly is deleted by allocating the node.
NodeFitsExactly(S) ==
    LET fit == find_best_fit(S.node, S.root, NODE + HDR)
    IN  fit # NULL /\ S.node[fit].size = NODE + HDR

\* Store a new node in the block a that heap_alloc returned.
InitNode(a, base, size, deleted) ==
    [s |-> [a.s EXCEPT !.node = (a.addr :> NewNode(base, size)) @@ @,
                       !.reentered = @ \/ deleted],
     p |-> a.addr]

\* create_node: kmalloc of a node, which nobody checks for NULL.
create_node(S, base, size) ==
    InitNode(heap_alloc(S, NODE), base, size, NodeFitsExactly(S))

\* Link node c.p at the end of the path of descent d, and rebalance.
LinkNode(c, d, sides, base) ==
    WithTree(c.s, Unwind(c.s.node, d.path, sides, base, c.p))

\* avl_insert on heap->root.
avl_insert(S, base, size) ==
    LET d == Descend(S.node, S.root, base)
    IN  IF size = 0 THEN S
        ELSE LinkNode(IF d.found = NULL THEN create_node(S, base, size)
                                        ELSE [s |-> S, p |-> d.found],
                      d, Sides(S.node, d.path, base), base)

\* heap_alloc with page_align: the part of the block before the aligned
\* header is inserted as a free block, while the block still has its base.
heap_alloc_aligned(S, size) ==
    LET best_fit == find_best_fit(S.node, S.root, size + PAGE_SIZE - 1 + HDR)
        base     == S.node[best_fit].base
        aligned  == AlignedHeader(base)
        offset   == aligned - base
    IN  CASE best_fit = NULL ->
                AllocAtEnd(S, AlignedHeader(S.end_addr), size)
          [] best_fit # NULL /\ base % PAGE_SIZE = PAGE_SIZE - HDR ->
                AllocFrom(S, best_fit, base, size)
          [] best_fit # NULL /\ base % PAGE_SIZE # PAGE_SIZE - HDR ->
                AllocFrom(IF offset > HDR THEN avl_insert(S, base, offset) ELSE S,
                          best_fit, aligned, size)

(***************************************************************************)
(* heap_free.                                                              *)
(***************************************************************************)
EndOf(S, p) == S.node[p].base + S.node[p].size

\* The tests of the overlap search, at one node.
Overlaps(S, p, base, size) ==
    \/ S.node[p].base <= base /\ base < EndOf(S, p)
    \/ S.node[p].base < base + size /\ base + size <= EndOf(S, p)
    \/ base < S.node[p].base /\ EndOf(S, p) < base + size

\* The nodes that the searches of heap_free visit.
Visited(S, base) ==
    LET d == Descend(S.node, S.root, base)
    IN  {d.path[k] : k \in 1 .. Len(d.path)} \cup ({d.found} \ {NULL})

DeleteBlock(S, base) == WithTree(S, avl_delete(S.node, S.root, base))

\* Mutant of Coalesce: only the left neighbour is merged.
Coalesce_left(S, base, size) ==
    LET left == {p \in Visited(S, base) : EndOf(S, p) = base}
        l    == CHOOSE p \in left : TRUE
    IN  IF left = {} THEN avl_insert(S, base, size)
        ELSE avl_insert(DeleteBlock(S, S.node[l].base), S.node[l].base,
                        size + S.node[l].size)

\* Delete the neighbours and insert the block grown by them.
Coalesce(S, base, size) ==
    LET left  == {p \in Visited(S, base) : EndOf(S, p) = base}
        right == {p \in Visited(S, base) : S.node[p].base = base + size}
        l     == CHOOSE p \in left : TRUE
        r     == CHOOSE p \in right : TRUE
        base1 == IF left = {} THEN base ELSE S.node[l].base
        size1 == IF left = {} THEN size ELSE size + S.node[l].size
        S1    == IF left = {} THEN S ELSE DeleteBlock(S, S.node[l].base)
        size2 == IF right = {} THEN size1 ELSE size1 + S1.node[r].size
        S2    == IF right = {} THEN S1 ELSE DeleteBlock(S1, S1.node[r].base)
    IN  avl_insert(S2, base1, size2)

\* Mutant of heap_free: the search for overlapping free blocks is left out.
heap_free_unchecked(S, base, size) ==
    IF size = 0 \/ base < S.start_addr \/ base + size > S.end_addr
      THEN S
      ELSE Coalesce(S, base, size)

\* Mutant of heap_free: a block at the very end is taken for one outside.
heap_free_inner(S, base, size) ==
    IF \/ size = 0 \/ base < S.start_addr \/ base + size >= S.end_addr
       \/ \E p \in Visited(S, base) : Overlaps(S, p, base, size)
      THEN S
      ELSE Coalesce(S, base, size)

heap_free(S, base, size) ==
    IF \/ size = 0 \/ base < S.start_addr \/ base + size > S.end_addr
       \/ \E p \in Visited(S, base) : Overlaps(S, p, base, size)
      THEN S
      ELSE Coalesce(S, base, size)

\* ifree: the header tells the size.  Its magic number is intact, as long as
\* the block has not been reused.
ifree(S, h) == heap_free(S, h, S.header[h] + HDR)

(***************************************************************************)
(* Memory as sets of addresses.                                            *)
(***************************************************************************)
Units(base, size) == base .. (base + size - 1)

BlockUnits(S, h) == Units(h, S.header[h] + HDR)

\* Blocks that hold nodes, whether in the tree or dropped from it.
NodeHeaders(S) == {p - HDR : p \in DOMAIN S.node \ {NULL, FIRST}}

FreeUnits(S) ==
    UNION {Units(b.base, b.size) : b \in Blocks(S.node, S.root)}

InUse(S, held) ==
    UNION {BlockUnits(S, h) : h \in held \cup NodeHeaders(S)}

(***************************************************************************)
(* heap_init and the calls.                                                *)
(***************************************************************************)
Init ==
    /\ \E h \in Heaps :
          heap = [node       |-> (FIRST :> NewNode(h.start, h.initial)),
                  root       |-> FIRST,
                  start_addr |-> h.start,
                  end_addr   |-> h.start + h.initial,
                  max_size   |-> h.max_size,
                  header     |-> <<>>,
                  reentered  |-> FALSE]
    /\ live = {}
    /\ freed = {}

\* The state after a call that leaves heap S and callers with "held": headers
\* of freed blocks that have been reused are gone.
After(S, held, gone) ==
    LET kept == {h \in gone : BlockUnits(S, h) \cap InUse(S, held) = {}}
        used == held \cup NodeHeaders(S) \cup kept
    IN  /\ heap' = [S EXCEPT !.header = [h \in used |-> @[h]]]
        /\ live' = held
        /\ freed' = kept

Returned(a) ==
    After(a.s, IF a.addr = NULL THEN live ELSE live \cup {a.addr - HDR}, freed)

kmalloc(size) == Returned(heap_alloc(heap, size))

kmalloc_aligned(size) == Returned(heap_alloc_aligned(heap, size))

kfree(h) ==
    /\ h \in live
    /\ After(ifree(heap, h), live \ {h}, freed \cup {h})

\* A second kfree of the same pointer.
kfree_again(h) ==
    /\ h \in freed
    /\ After(ifree(heap, h), live, freed)

Next ==
    \/ \E size \in Sizes : kmalloc(size)
    \/ \E size \in AlignedSizes : kmalloc_aligned(size)
    \/ \E h \in live : kfree(h)
    \/ \E h \in freed : kfree_again(h)

Spec == Init /\ [][Next]_vars

(***************************************************************************)
(* Properties.  The ones about the tree hold until a node is allocated out *)
(* of a free block that fits it exactly: see ReentrantDeleteHarmless.      *)
(***************************************************************************)

\* Sizes of a set of blocks given by header, added up.
RECURSIVE Total(_, _)
Total(S, hs) ==
    IF hs = {} THEN 0
    ELSE LET h == CHOOSE x \in hs : TRUE
         IN  S.header[h] + HDR + Total(S, hs \ {h})

NothingShared(S) ==
    /\ InUse(S, live) \cap FreeUnits(S) = {}
    /\ Cardinality(InUse(S, live)) = Total(S, live \cup NodeHeaders(S))
    /\ live \cap NodeHeaders(S) = {}
    /\ InUse(S, live) \cup FreeUnits(S) \subseteq S.start_addr .. S.end_addr - 1

\* No address belongs to two blocks that callers hold, to such a block and a
\* node of the tree, or to any of them and a free block; all lie in the heap.
BlocksDisjoint == ~heap.reentered => NothingShared(heap)

\* heap_free merges both neighbours although it looks for them on one search
\* path: free blocks are never empty, never touch, overlap or appear
\* twice, whatever part of the tree the node of the new block was cut from.
Coalesced ==
    ~heap.reentered =>
        /\ Ordered(heap.node, heap.root)
        /\ \A b \in Blocks(heap.node, heap.root) : b.size > 0
        /\ \A b, c \in Blocks(heap.node, heap.root) :
              b.base < c.base => b.base + b.size < c.base

\* A page-aligned request yields page-aligned data: page directories and page
\* tables are allocated this way and their address goes to the MMU.
AlignedData ==
    ~heap.reentered =>
        \A size \in AlignedSizes :
            heap_alloc_aligned(heap, size).addr % PAGE_SIZE = 0

\* A second kfree of a pointer whose block is free is caught by the overlap
\* search, wherever in a larger free block it lies by then.
DoubleFreeIgnored ==
    [][\A h \in freed :
          kfree_again(h) /\ BlockUnits(heap, h) \subseteq FreeUnits(heap)
              /\ ~heap.reentered =>
                  Blocks(heap'.node, heap'.root) = Blocks(heap.node, heap.root)]_vars

\* heap_init: "Max size the heap can expands to".  kmalloc only fails when
\* the heap cannot grow by the block within start_addr + max_size.
ExpandsToMaxSize ==
    [][\A size \in Sizes :
          heap_alloc(heap, size).addr = NULL =>
              heap.end_addr + HDR + size > heap.start_addr + heap.max_size]_vars

\* heap_free: "Free a size of memory located at the base address".  After
\* kfree the addresses of the block are free, or hold nodes.
FreeGivesBack ==
    [][\A h \in live :
          kfree(h) => BlockUnits(heap, h) \subseteq
                         FreeUnits(heap') \cup InUse(heap', {})]_vars

\* heap_free, as far as it goes: a block comes back whenever free blocks stay
\* in the tree while its neighbours are merged, and each can hold a node (one
\* is not enough: find_best_fit may pass it by).
FreeGivesBackWithRoom ==
    [][\A h \in live \ live' :
          LET others == {b \in Blocks(heap.node, heap.root) :
                            /\ b.base + b.size # h
                            /\ b.base # h + HDR + heap.header[h]}
          IN  ~heap'.reentered /\ others # {}
                  /\ (\A b \in others : b.size >= HDR + NODE) =>
                 BlockUnits(heap, h) \subseteq FreeUnits(heap') \cup InUse(heap', {})]_vars

\* heap_alloc: "Create a new fragment block before the aligned region if it's
\* large enough".  An aligned request takes no more than its block, the
\* fragments too small for a block, and a node for the fragment.
FragmentKept ==
    [][\A size \in AlignedSizes :
          kmalloc_aligned(size) /\ heap'.end_addr = heap.end_addr =>
              Cardinality(FreeUnits(heap)) - Cardinality(FreeUnits(heap'))
                  <= size + HDR + HDR + NODE + HDR]_vars

\* What avl_insert relies on: allocating a node does not change the tree the
\* node is about to be linked into.
ReentrantDeleteHarmless == NothingShared(heap) /\ Ordered(heap.node, heap.root)
=============================================================================
