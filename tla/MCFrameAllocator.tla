-------------------------- MODULE MCFrameAllocator --------------------------
(***************************************************************************)
(* Instances of FrameAllocator.  The bitmaps follow each other without a   *)
(* gap, as ikmalloc places them.  Five frames, orders 0..2 and 2-bit bytes *)
(* make the last frame's order-1 index (4 \div 2 = 2 = num_bits(1)) fall   *)
(* into the bitmap of order 2, and its order-2 index into padding.         *)
(***************************************************************************)
EXTENDS FrameAllocator

MCbitmap ==
    LET place[j \in Nat] == IF j = 0 THEN 0 ELSE place[j - 1] + bytes(j - 1)
    IN  [j \in Orders |-> place[j]]
=============================================================================
