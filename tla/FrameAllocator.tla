--------------------------- MODULE FrameAllocator ---------------------------
(***************************************************************************)
(* The physical frame allocator of kernel/arch/i386/pm.c: one bitmap per   *)
(* buddy order, a set bit meaning "free".  The bitmaps are byte arrays     *)
(* bump-allocated one after the other, and set_bit / clear_bit /           *)
(* is_bit_set check no bound, so an index past num_bits[j] reaches the     *)
(* padding of the last byte, the next bitmap, or what follows the last     *)
(* one.  The model therefore keeps ONE memory of bits, addressed as the    *)
(* code addresses it.                                                      *)
(*                                                                         *)
(* The loops over the orders of pmalloc and pfree are small steps: "call"  *)
(* holds their local variables.                                            *)
(***************************************************************************)
EXTENDS Integers

CONSTANTS
    nframes,      \* number of frames, pm_usable / FRAME_SIZE
    MAX_ORDER,    \* largest buddy order (7)
    BYTE,         \* bits per byte of a bitmap (8)
    FRAME_SIZE,   \* bytes per frame (0x1000)
    Sizes,        \* the sizes, in bytes, that callers pass
    bitmap        \* bitmap[j]: byte address of the bitmap of order j

VARIABLES
    bits,         \* the memory the bitmaps live in; TRUE is 1, "free"
    call,         \* the operation in progress and its local variables
    held,         \* ghost: blocks <<pfn, order>> returned and not yet freed
    ret           \* what the last pmalloc returned

vars == <<bits, call, held, ret>>

(***************************************************************************)
(* Constants.                                                              *)
(***************************************************************************)
Orders == 0 .. MAX_ORDER
Frames == 0 .. (nframes - 1)

num_bits(j) == nframes \div 2^j

\* The number of bytes of a bitmap, rounded up.
bytes(j) == (num_bits(j) + BYTE - 1) \div BYTE

\* INDEX_FROM_PFN and OFFSET_FROM_PFN: the bit of memory that index names.
Cell(j, index) == BYTE * bitmap[j] + index

\* The first bit after the last bitmap, and the last bit an access can reach.
End == BYTE * (bitmap[MAX_ORDER] + bytes(MAX_ORDER))
Top == BYTE * bitmap[MAX_ORDER] + nframes + BYTE
Cells == 0 .. Top

\* 2^k is a positive number: arithmetic the provers have no rule for.
ASSUME PowersOfTwo == \A k \in Orders : 2^k \in Nat \ {0}

\* pm_initialize only accepts a region of more than 2^MAX_ORDER frames.
ASSUME FrameConstants ==
    /\ MAX_ORDER \in Nat
    /\ nframes \in Nat
    /\ nframes >= 2^MAX_ORDER
    /\ BYTE \in Nat \ {0}
    /\ FRAME_SIZE \in Nat \ {0}
    /\ Sizes \subseteq Nat \ {0}

\* ikmalloc hands out ascending addresses: the bitmap of order 0 comes first
\* and no bitmap begins inside another.
ASSUME BitmapLayout ==
    /\ bitmap \in [Orders -> Nat]
    /\ \A j \in Orders \ {0} :
          Cell(0, nframes) <= Cell(j, 0) /\ bitmap[j] <= bitmap[MAX_ORDER]
    /\ \A j, m \in Orders : j < m => bitmap[j] + bytes(j) <= bitmap[m]

(***************************************************************************)
(* Helpers.                                                                *)
(***************************************************************************)

\* The smallest order whose blocks hold size bytes.
get_order(size) ==
    LET blocks == (size + FRAME_SIZE - 1) \div FRAME_SIZE
    IN  CHOOSE o \in Orders : /\ 2^o >= blocks
                              /\ \A p \in 0 .. (o - 1) : 2^p < blocks

\* No caller asks for more than the largest block: the order indexes
\* buddy_bitmaps[MAX_ORDER + 1], and get_order has no upper bound.
ASSUME SizesFit == \A size \in Sizes : get_order(size) \in Orders

is_bit_set(m, j, index) == m[Cell(j, index)]

\* Mutant of set_bits: the loop runs to the bit after the last one too.
set_bits_more(m, j, index, n) ==
    [c \in Cells |-> m[c] \/ c \in Cell(j, index) .. Cell(j, index + n)]

\* clear_bit and set_bit on n bits starting at index.
clear_bits(m, j, index, n) ==
    [c \in Cells |-> m[c] /\ c \notin Cell(j, index) .. Cell(j, index + n - 1)]
set_bits(m, j, index, n) ==
    [c \in Cells |-> m[c] \/ c \in Cell(j, index) .. Cell(j, index + n - 1)]

\* How many bits of order j a block of the given order covers.
span(order, j) == IF order > j THEN 2^(order - j) ELSE 1

\* start_index in pmalloc: the first bit of order j of block i.
start_index(order, i, j) ==
    IF order >= j THEN i * 2^(order - j) ELSE i \div 2^(j - order)

\* Mutant of buddy: the index itself in place of index ^ 1.
buddy_self(index) == index

\* start_index ^ 1.
buddy(index) == IF index % 2 = 0 THEN index + 1 ELSE index - 1

FramesOf(pfn, order) == pfn .. (pfn + 2^order - 1)
HeldFrames == UNION {FramesOf(b[1], b[2]) : b \in held}

\* Mutants of FreeBlocks: the scan ends one bit late, or one bit early.
FreeBlocks_late(order) ==
    {i \in 0 .. num_bits(order) : is_bit_set(bits, order, i)}
FreeBlocks_early(order) ==
    {i \in 0 .. (num_bits(order) - 2) : is_bit_set(bits, order, i)}

\* Blocks of an order whose bit is set: what the scan of pmalloc looks for.
FreeBlocks(order) ==
    {i \in 0 .. (num_bits(order) - 1) : is_bit_set(bits, order, i)}

Idle == [op |-> "idle"]

(***************************************************************************)
(* Initial state: frame_initialize fills every byte of every bitmap with   *)
(* 0xFF; whatever lies behind the bitmaps is arbitrary.                    *)
(***************************************************************************)
frame_initialize ==
    /\ bits \in {[c \in Cells |-> IF c < End THEN TRUE ELSE rest[c]] :
                    rest \in [End .. Top -> BOOLEAN]}
    /\ call = Idle

Init ==
    /\ frame_initialize
    /\ held = {}
    /\ ret = -1

(***************************************************************************)
(* pmalloc.                                                                *)
(***************************************************************************)

\* The scan finds the first set bit of the order needed.
pmalloc_find(size) ==
    LET order == get_order(size)
    IN  /\ call = Idle
        /\ \E i \in FreeBlocks(order) :
              /\ \A k \in FreeBlocks(order) : i <= k
              /\ call' = [op |-> "pmalloc", order |-> order, i |-> i, j |-> 0]
        /\ UNCHANGED <<bits, held, ret>>

\* The scan finds nothing.
pmalloc_fail(size) ==
    /\ call = Idle
    /\ FreeBlocks(get_order(size)) = {}
    /\ ret' = -1
    /\ UNCHANGED <<bits, call, held>>

\* The bit of order j that stands for the block being marked.
MarkBit == is_bit_set(bits, call.j, start_index(call.order, call.i, call.j))

\* One iteration of the loop that marks the block as used in every order.
pmalloc_mark ==
    /\ call.op = "pmalloc"
    /\ call.j <= MAX_ORDER
    /\ MarkBit
    /\ bits' = clear_bits(bits, call.j,
                          start_index(call.order, call.i, call.j),
                          span(call.order, call.j))
    /\ call' = [call EXCEPT !.j = @ + 1]
    /\ UNCHANGED <<held, ret>>

\* The loop ends or breaks; the block's first frame is returned.
pmalloc_return ==
    LET pfn == call.i * 2^(call.order)
    IN  /\ call.op = "pmalloc"
        /\ call.j <= MAX_ORDER => ~MarkBit
        /\ ret' = pfn
        /\ held' = held \cup {<<pfn, call.order>>}
        /\ call' = Idle
        /\ UNCHANGED bits

(***************************************************************************)
(* pfree, called by the holder of a block.                                 *)
(***************************************************************************)
pfree(pfn, order) ==
    /\ call = Idle
    /\ <<pfn, order>> \in held
    /\ held' = held \ {<<pfn, order>>}
    /\ call' = [op |-> "pfree", pfn |-> pfn, order |-> order, j |-> 0]
    /\ UNCHANGED <<bits, ret>>

\* Mutant of pfree_mark: the loop breaks before it sets the bits.
pfree_mark_late ==
    LET start == call.pfn \div 2^(call.j)
    IN  /\ call.op = "pfree"
        /\ IF call.j < MAX_ORDER /\ is_bit_set(bits, call.order, buddy(start))
             THEN /\ bits' = set_bits(bits, call.j, start, span(call.order, call.j))
                  /\ call' = [call EXCEPT !.j = @ + 1]
             ELSE /\ call' = Idle
                  /\ UNCHANGED bits
        /\ UNCHANGED <<held, ret>>

\* One iteration: set the bits of order j, then look at the buddy.  The code
\* looks the buddy up in the bitmap of the order FREED, not of order j.
pfree_mark ==
    LET start == call.pfn \div 2^(call.j)
    IN  /\ call.op = "pfree"
        /\ bits' = set_bits(bits, call.j, start, span(call.order, call.j))
        /\ IF call.j < MAX_ORDER /\ is_bit_set(bits', call.order, buddy(start))
             THEN call' = [call EXCEPT !.j = @ + 1]
             ELSE call' = Idle
        /\ UNCHANGED <<held, ret>>

Next ==
    \/ \E size \in Sizes : pmalloc_find(size) \/ pmalloc_fail(size)
    \/ pmalloc_mark
    \/ pmalloc_return
    \/ \E b \in held : pfree(b[1], b[2])
    \/ pfree_mark

Spec == Init /\ [][Next]_vars

(***************************************************************************)
(* Properties.                                                             *)
(***************************************************************************)

Calls ==
    {Idle}
    \cup [op : {"pmalloc"}, order : Orders, i : Frames, j : 0 .. (MAX_ORDER + 1)]
    \cup [op : {"pfree"}, pfn : Frames, order : Orders, j : Orders]

\* Type invariant: the locals of pmalloc and pfree stay in range.
TypeOK ==
    /\ bits \in [Cells -> BOOLEAN]
    /\ call \in Calls
    /\ held \subseteq Frames \X Orders
    /\ ret \in Frames \cup {-1}

\* pmalloc never picks a block that shares a frame with a block somebody
\* still holds, whatever frees and partial merges came before.
NoDoubleAllocation ==
    call.op = "pmalloc" =>
        FramesOf(call.i * 2^(call.order), call.order) \cap HeldFrames = {}

\* Between calls, the bitmap of order 0 tells exactly which frames are held:
\* no frame is lost by freeing it, and none is free while somebody holds it.
FrameBitmapExact ==
    call = Idle =>
        \A f \in Frames : is_bit_set(bits, 0, f) <=> f \notin HeldFrames

\* Between calls, the bit of an order-1 block is set exactly when both of its
\* frames are free: the first merge step of pfree is right.
PairBitmapExact ==
    call = Idle /\ MAX_ORDER >= 1 =>
        \A b \in 0 .. (num_bits(1) - 1) :
            is_bit_set(bits, 1, b) <=> FramesOf(2 * b, 1) \cap HeldFrames = {}

\* Seen from its callers, pmalloc of one frame and pfree are a set of frames:
\* the loops over the orders, the merges and the stray indices never show.
Abstract == INSTANCE FrameSpec WITH taken <- HeldFrames, answer <- ret
ImplementsFrameSpec == Abstract!Spec
=============================================================================
