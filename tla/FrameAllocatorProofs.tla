------------------------ MODULE FrameAllocatorProofs ------------------------
(***************************************************************************)
(* Proofs about FrameAllocator, for every number of frames, every largest  *)
(* order and every placement of the bitmaps that BitmapLayout allows.      *)
(***************************************************************************)
EXTENDS FrameAllocator, TLAPS

-----------------------------------------------------------------------------
(* Arithmetic of the index computations.                                   *)

\* INDEX_FROM_PFN and OFFSET_FROM_PFN: an index names a bit at a natural address.
LEMMA CellRange ==
    ASSUME NEW j \in Orders, NEW index \in Nat
    PROVE  Cell(j, index) \in Nat
  <1>1. bitmap[j] \in Nat /\ BYTE \in Nat
    BY BitmapLayout, FrameConstants
  <1>2. BYTE * bitmap[j] \in Nat
    BY <1>1
  <1> QED BY <1>2 DEF Cell

\* A block number below num_bits(order) starts at a frame that exists.
LEMMA BlockStart ==
    ASSUME NEW order \in Orders, NEW i \in 0 .. (num_bits(order) - 1)
    PROVE  i \in Frames /\ i * 2^order \in Frames
  <1>1. 2^order \in Nat \ {0}
    BY PowersOfTwo
  <1>2. ASSUME NEW p \in Nat \ {0}, NEW k \in 0 .. ((nframes \div p) - 1)
        PROVE  k \in Frames /\ k * p \in Frames
    <2> DEFINE q == nframes \div p
    <2>1. q \in Nat /\ p * q <= nframes
      BY <1>2, FrameConstants
    <2>2. k \in Nat /\ k + 1 <= q
      BY <1>2, <2>1
    <2>3. p * k + p <= p * q
      <3> HIDE DEF q
      <3>1. \E d \in Nat : q = k + 1 + d
        <4>1. q - (k + 1) \in Nat /\ q = k + 1 + (q - (k + 1))
          BY <2>1, <2>2
        <4> QED BY <4>1
      <3>2. PICK d \in Nat : q = k + 1 + d
        BY <3>1
      <3>3. p * q = p * k + p + p * d /\ p * d \in Nat /\ p * k \in Nat
        BY <3>2, <1>2, <2>2
      <3> QED BY <3>3, <1>2
    <2>4. p * k \in Nat /\ p * k = k * p /\ k <= p * k
      BY <1>2, <2>2
    <2> QED BY <2>1, <2>2, <2>3, <2>4, <1>2, FrameConstants DEF Frames
  <1> QED BY <1>1, <1>2 DEF num_bits

\* Bits of a higher order never fall into the bitmap of order 0, even when
\* their index lies beyond their own bitmap.
LEMMA HigherOrdersApart ==
    ASSUME NEW j \in Orders, j # 0, NEW index \in Nat, NEW f \in Frames
    PROVE  Cell(0, f) # Cell(j, index)
  <1>1. Cell(0, nframes) <= Cell(j, 0)
    BY BitmapLayout
  <1>2. 0 \in Orders
    BY FrameConstants DEF Orders
  <1>3. BYTE * bitmap[0] \in Int /\ BYTE * bitmap[j] \in Int
    BY <1>2, BitmapLayout, FrameConstants
  <1> QED BY <1>1, <1>3, FrameConstants DEF Cell, Frames

\* Distinct frames have distinct bits of order 0, and all of them exist.
LEMMA FrameCells ==
    ASSUME NEW f \in Frames
    PROVE  /\ Cell(0, f) \in Cells
           /\ \A g \in Frames : Cell(0, f) = Cell(0, g) => f = g
  <1>1. 0 \in Orders /\ MAX_ORDER \in Orders
    BY FrameConstants DEF Orders
  <1>2. BYTE * bitmap[0] \in Nat /\ BYTE * bitmap[MAX_ORDER] \in Nat
    BY <1>1, BitmapLayout, FrameConstants
  <1>3. BYTE * bitmap[0] <= BYTE * bitmap[MAX_ORDER]
    <2>1. CASE MAX_ORDER = 0
      BY <2>1, <1>2
    <2>2. CASE MAX_ORDER # 0
      <3>1. Cell(0, nframes) <= Cell(MAX_ORDER, 0)
        BY <2>2, <1>1, BitmapLayout
      <3> QED BY <3>1, <1>2, FrameConstants DEF Cell
    <2> QED BY <2>1, <2>2
  <1> QED BY <1>2, <1>3, FrameConstants DEF Cell, Cells, Top, Frames

\* A request for one frame is a request of order 0.
LEMMA OneFrame == get_order(FRAME_SIZE) = 0
  <1> DEFINE blocks == (FRAME_SIZE + FRAME_SIZE - 1) \div FRAME_SIZE
  <1>1. blocks = 1
    <2>1. ASSUME NEW F \in Nat \ {0}
          PROVE  (F + F - 1) \div F = 1
      <3> DEFINE x == F + F - 1
                 q == x \div F
      <3>1. x \in Nat /\ q \in Nat /\ F * q <= x /\ x < F * q + F
        BY <2>1
      <3> HIDE DEF q
      <3>2. q # 0
        BY <3>1
      <3>3. \A d \in Nat : q # d + 2
        <4> SUFFICES ASSUME NEW d \in Nat, q = d + 2 PROVE FALSE
          OBVIOUS
        <4>1. F * q = F * d + F + F /\ F * d \in Nat
          BY <2>1
        <4> QED BY <4>1, <3>1
      <3>4. q < 2
        <4> SUFFICES ASSUME ~(q < 2) PROVE FALSE
          OBVIOUS
        <4>1. q - 2 \in Nat /\ q = (q - 2) + 2
          BY <3>1
        <4> QED BY <4>1, <3>3
      <3> QED BY <3>1, <3>2, <3>4 DEF q
    <2> QED BY <2>1, FrameConstants
  <1>2. 2^0 = 1 /\ 0 \in Orders
    BY FrameConstants DEF Orders
  <1>3. \A o \in Orders : (2^o >= 1 /\ \A p \in 0 .. (o - 1) : 2^p < 1) => o = 0
    <2> SUFFICES ASSUME NEW o \in Orders, \A p \in 0 .. (o - 1) : 2^p < 1, o # 0
                 PROVE  FALSE
      OBVIOUS
    <2>1. 0 \in 0 .. (o - 1)
      BY FrameConstants DEF Orders
    <2>2. 2^0 < 1
      BY <2>1, Zenon
    <2> QED BY <2>2, <1>2
  <1> QED
    <2> DEFINE P(o) == 2^o >= 1 /\ \A p \in 0 .. (o - 1) : 2^p < 1
    <2>1. P(0)
      BY <1>2
    <2>2. get_order(FRAME_SIZE) = CHOOSE o \in Orders : P(o)
      BY <1>1 DEF get_order
    <2> QED BY <2>1, <2>2, <1>2, <1>3

-----------------------------------------------------------------------------
(* Type correctness, for requests of any size.                             *)

\* Marking keeps the memory a function from cells to bits.
LEMMA MarkingTyped ==
    ASSUME NEW m \in [Cells -> BOOLEAN], NEW j, NEW index, NEW n
    PROVE  /\ clear_bits(m, j, index, n) \in [Cells -> BOOLEAN]
           /\ set_bits(m, j, index, n) \in [Cells -> BOOLEAN]
  BY DEF clear_bits, set_bits

\* TypeOK alone does not bound the frame pmalloc returns: the block number
\* must be one of its order.
BlockInRange ==
    call.op = "pmalloc" => call.i \in 0 .. (num_bits(call.order) - 1)

TypeInv == TypeOK /\ BlockInRange

\* frame_initialize establishes the strengthened type invariant.
LEMMA InitTypeInv == Init => TypeInv
  <1> SUFFICES ASSUME Init PROVE TypeInv
    OBVIOUS
  <1>1. PICK rest \in [End .. Top -> BOOLEAN] :
           bits = [c \in Cells |-> IF c < End THEN TRUE ELSE rest[c]]
    BY DEF Init, frame_initialize
  <1>2. \A c \in Cells : (IF c < End THEN TRUE ELSE rest[c]) \in BOOLEAN
    <2>1. End \in Int /\ Top \in Int
      <3>1. MAX_ORDER \in Orders
        BY FrameConstants DEF Orders
      <3>2. bitmap[MAX_ORDER] \in Nat /\ 2^MAX_ORDER \in Nat \ {0}
        BY <3>1, BitmapLayout, PowersOfTwo
      <3>3. num_bits(MAX_ORDER) \in Int
        BY <3>2, FrameConstants DEF num_bits
      <3>4. bytes(MAX_ORDER) \in Int
        BY <3>3, FrameConstants DEF bytes
      <3> QED BY <3>2, <3>4, FrameConstants DEF End, Top
    <2>2. \A c \in Cells : ~(c < End) => c \in End .. Top
      BY <2>1 DEF Cells
    <2> QED BY <2>2
  <1>3. bits \in [Cells -> BOOLEAN]
    BY <1>1, <1>2
  <1> QED BY <1>3 DEF Init, frame_initialize, TypeInv, TypeOK, Calls, BlockInRange, Idle

\* Every step of pmalloc and pfree keeps it.
LEMMA NextTypeInv == TypeInv /\ [Next]_vars => TypeInv'
  <1> SUFFICES ASSUME TypeInv, [Next]_vars PROVE TypeInv'
    OBVIOUS
  <1>0. TypeOK /\ Idle \in Calls
    BY DEF TypeInv, Calls
  <1>1. ASSUME NEW size \in Sizes, pmalloc_find(size) PROVE TypeInv'
    <2> DEFINE order == get_order(size)
    <2>1. order \in Orders
      BY SizesFit
    <2>2. PICK i \in FreeBlocks(order) :
             call' = [op |-> "pmalloc", order |-> order, i |-> i, j |-> 0]
      BY <1>1 DEF pmalloc_find
    <2>3. i \in Frames
      BY <2>1, <2>2, BlockStart DEF FreeBlocks
    <2>4. 0 \in 0 .. (MAX_ORDER + 1)
      BY FrameConstants
    <2>5. call' \in Calls /\ BlockInRange'
      <3> HIDE DEF order
      <3> QED BY <2>1, <2>2, <2>3, <2>4 DEF Calls, BlockInRange, FreeBlocks
    <2> QED BY <1>0, <1>1, <2>5 DEF pmalloc_find, TypeOK, TypeInv
  <1>2. ASSUME NEW size \in Sizes, pmalloc_fail(size) PROVE TypeInv'
    <2>1. TypeOK' /\ call' = call
      BY <1>0, <1>2 DEF pmalloc_fail, TypeOK
    <2> QED BY <2>1 DEF TypeInv, BlockInRange
  <1>3. CASE pmalloc_mark
    <2>1. call \in [op : {"pmalloc"}, order : Orders, i : Frames,
                    j : 0 .. (MAX_ORDER + 1)]
      BY <1>0, <1>3 DEF pmalloc_mark, TypeOK, Calls, Idle
    <2>2. call.j + 1 \in 0 .. (MAX_ORDER + 1)
      BY <1>3, <2>1, FrameConstants DEF pmalloc_mark
    <2>3. call' \in Calls /\ call'.i = call.i /\ call'.order = call.order
      BY <1>3, <2>1, <2>2 DEF pmalloc_mark, Calls
    <2>4. bits' \in [Cells -> BOOLEAN]
      BY <1>0, <1>3, MarkingTyped DEF pmalloc_mark, TypeOK
    <2>5. BlockInRange'
      BY <1>3, <2>3 DEF pmalloc_mark, TypeInv, BlockInRange
    <2> QED BY <1>0, <1>3, <2>3, <2>4, <2>5 DEF pmalloc_mark, TypeOK, TypeInv
  <1>4. CASE pmalloc_return
    <2>1. call \in [op : {"pmalloc"}, order : Orders, i : Frames,
                    j : 0 .. (MAX_ORDER + 1)]
      BY <1>0, <1>4 DEF pmalloc_return, TypeOK, Calls, Idle
    <2>2. call.i \in 0 .. (num_bits(call.order) - 1)
      BY <1>4 DEF pmalloc_return, TypeInv, BlockInRange
    <2>3. call.order \in Orders /\ call.i * 2^(call.order) \in Frames
      BY <2>1, <2>2, BlockStart
    <2>4. held' \subseteq Frames \X Orders /\ ret' \in Frames
      BY <1>0, <1>4, <2>3 DEF pmalloc_return, TypeOK
    <2>5. call' = Idle /\ bits' = bits
      BY <1>4 DEF pmalloc_return
    <2>6. BlockInRange'
      BY <2>5 DEF BlockInRange, Idle
    <2> QED BY <1>0, <2>4, <2>5, <2>6 DEF TypeOK, TypeInv
  <1>5. ASSUME NEW b \in held, pfree(b[1], b[2]) PROVE TypeInv'
    <2>1. b[1] \in Frames /\ b[2] \in Orders /\ 0 \in Orders
      BY <1>0, <1>5, FrameConstants DEF TypeOK, Orders
    <2>2. call' \in Calls /\ BlockInRange'
      BY <1>5, <2>1 DEF pfree, Calls, BlockInRange
    <2> QED BY <1>0, <1>5, <2>2 DEF pfree, TypeOK, TypeInv
  <1>6. CASE pfree_mark
    <2>1. call \in [op : {"pfree"}, pfn : Frames, order : Orders, j : Orders]
      BY <1>0, <1>6 DEF pfree_mark, TypeOK, Calls, Idle
    <2>2. call.j < MAX_ORDER => call.j + 1 \in Orders
      BY <2>1, FrameConstants DEF Orders
    <2>3. call' \in Calls /\ call'.op # "pmalloc"
      BY <1>0, <1>6, <2>1, <2>2 DEF pfree_mark, Calls, Idle
    <2>4. bits' \in [Cells -> BOOLEAN]
      BY <1>0, <1>6, MarkingTyped DEF pfree_mark, TypeOK
    <2> QED
      BY <1>0, <1>6, <2>3, <2>4 DEF pfree_mark, TypeOK, TypeInv, BlockInRange
  <1>7. CASE UNCHANGED vars
    BY <1>0, <1>7 DEF vars, TypeOK, TypeInv, BlockInRange
  <1> QED BY <1>1, <1>2, <1>3, <1>4, <1>5, <1>6, <1>7 DEF Next

\* pm.c: whatever sizes are requested and freed, the loop variables stay in
\* range and every block returned starts at a frame that exists.
THEOREM TypeCorrect == Spec => []TypeOK
  <1>1. TypeInv => TypeOK
    BY DEF TypeInv
  <1> QED BY <1>1, InitTypeInv, NextTypeInv, PTL DEF Spec

-----------------------------------------------------------------------------
(* Requests of one frame, the only ones the kernel makes (alloc_frame,     *)
(* free_frame).  While a call runs, the frame it works on is marked or not *)
(* yet marked according to whether the iteration of order 0 is behind it.  *)

SingleFrames == Sizes = {FRAME_SIZE}

\* The frames whose bit of order 0 must be clear.
Used ==
    {f \in Frames : \/ <<f, 0>> \in held
                    \/ call.op = "pmalloc" /\ call.j > 0 /\ f = call.i
                    \/ call.op = "pfree" /\ call.j = 0 /\ f = call.pfn}

OrderZeroOnly ==
    /\ \A b \in held : b[2] = 0
    /\ call.op \in {"pmalloc", "pfree"} => call.order = 0

CallNotHeld ==
    /\ call.op = "pmalloc" => <<call.i, 0>> \notin held
    /\ call.op = "pfree" => <<call.pfn, 0>> \notin held

UsedExact == \A f \in Frames : is_bit_set(bits, 0, f) <=> f \notin Used

SingleInv == TypeInv /\ OrderZeroOnly /\ CallNotHeld /\ UsedExact

\* When only single frames are held, the frames of the blocks held are the
\* blocks themselves.
LEMMA HeldFramesAre ==
    ASSUME NEW h, h \subseteq Frames \X Orders, \A b \in h : b[2] = 0
    PROVE  UNION {FramesOf(b[1], b[2]) : b \in h} = {f \in Frames : <<f, 0>> \in h}
  <1>1. \A b \in h : b[1] \in Frames /\ b = <<b[1], 0>>
    OBVIOUS
  <1>2. \A f \in Frames : FramesOf(f, 0) = {f}
    <2>1. 2^0 = 1
      OBVIOUS
    <2> QED BY <2>1, FrameConstants DEF FramesOf, Frames
  <1>3. \A b \in h : FramesOf(b[1], b[2]) = {b[1]}
    BY <1>1, <1>2
  <1>4. UNION {FramesOf(b[1], b[2]) : b \in h} = UNION {{b[1]} : b \in h}
    BY <1>3
  <1> QED BY <1>1, <1>4, Zenon

\* Clearing or setting bits of order j at one index: order 0 changes at that
\* index only, and not at all when j is a higher order.
LEMMA MarkOne ==
    ASSUME NEW m \in [Cells -> BOOLEAN], NEW j \in Orders, NEW index \in Nat,
           NEW f \in Frames, j = 0 => index \in Frames
    PROVE  /\ is_bit_set(clear_bits(m, j, index, 1), 0, f)
                <=> is_bit_set(m, 0, f) /\ ~(j = 0 /\ f = index)
           /\ is_bit_set(set_bits(m, j, index, 1), 0, f)
                <=> is_bit_set(m, 0, f) \/ (j = 0 /\ f = index)
  <1>1. Cell(0, f) \in Cells
    BY FrameCells
  <1>2. Cell(0, f) \in Nat /\ Cell(j, index) \in Nat
    BY CellRange, FrameConstants DEF Frames, Orders
  <1>3. index + 1 - 1 = index
    OBVIOUS
  <1>4. Cell(0, f) \in Cell(j, index) .. Cell(j, index + 1 - 1)
          <=> Cell(0, f) = Cell(j, index)
    BY <1>2, <1>3
  <1>5. Cell(0, f) = Cell(j, index) <=> (j = 0 /\ f = index)
    BY HigherOrdersApart, FrameCells
  <1> QED BY <1>1, <1>4, <1>5 DEF is_bit_set, clear_bits, set_bits

\* The index of order j of a frame, and the number of bits it covers.
LEMMA FrameIndex ==
    ASSUME NEW f \in Frames, NEW j \in Orders
    PROVE  /\ start_index(0, f, j) = f \div 2^j
           /\ f \div 2^j \in Nat
           /\ j = 0 => f \div 2^j = f
           /\ span(0, j) = 1
  <1>1. 2^j \in Nat \ {0} /\ 2^0 = 1
    BY PowersOfTwo
  <1>2. f \in Nat /\ j \in Nat
    BY FrameConstants DEF Frames, Orders
  <1>3. f \div 2^j \in Nat
    BY <1>1, <1>2
  <1>4. f \div 1 = f /\ f * 1 = f
    BY <1>2
  <1>5. ~(0 > j)
    BY <1>2
  <1>6. CASE j = 0
    <2>1. 0 - j = 0 /\ 0 >= j
      BY <1>6
    <2>2. start_index(0, f, j) = f * 2^0
      BY <2>1 DEF start_index
    <2> QED BY <1>1, <1>3, <1>4, <1>5, <1>6, <2>2 DEF span
  <1>7. CASE j # 0
    <2>1. ~(0 >= j) /\ j - 0 = j
      BY <1>2, <1>7
    <2> QED BY <1>3, <1>5, <1>7, <2>1 DEF span, start_index
  <1> QED BY <1>6, <1>7

\* frame_initialize establishes the inductive invariant: all bits of order 0
\* are set and nobody holds a frame.
LEMMA InitSingleInv == Init => SingleInv
  <1> SUFFICES ASSUME Init PROVE SingleInv
    OBVIOUS
  <1>1. TypeInv
    BY InitTypeInv
  <1>2. OrderZeroOnly /\ CallNotHeld /\ Used = {}
    BY DEF Init, frame_initialize, Idle, OrderZeroOnly, CallNotHeld, Used
  <1>3. \A f \in Frames : is_bit_set(bits, 0, f)
    <2> SUFFICES ASSUME NEW f \in Frames PROVE bits[Cell(0, f)]
      BY DEF is_bit_set
    <2>1. Cell(0, f) \in Cells
      BY FrameCells
    <2>2. Cell(0, f) < End
      <3>1. MAX_ORDER \in Orders /\ 0 \in Orders
        BY FrameConstants DEF Orders
      <3>2. bitmap[MAX_ORDER] \in Nat /\ bitmap[0] \in Nat
             /\ 2^MAX_ORDER \in Nat \ {0}
        BY <3>1, BitmapLayout, PowersOfTwo
      <3>3. BYTE * bitmap[0] \in Nat /\ BYTE * bitmap[MAX_ORDER] \in Nat
        BY <3>2, FrameConstants
      <3>4. num_bits(MAX_ORDER) \in Nat
        BY <3>2, FrameConstants DEF num_bits
      <3>5. bytes(MAX_ORDER) \in Nat
             /\ num_bits(MAX_ORDER) <= BYTE * bytes(MAX_ORDER)
        <4> DEFINE n == num_bits(MAX_ORDER)
        <4>1. ASSUME NEW x \in Nat, NEW w \in Nat \ {0}
              PROVE  /\ (x + w - 1) \div w \in Nat
                     /\ x <= w * ((x + w - 1) \div w)
          <5> DEFINE q == (x + w - 1) \div w
          <5>1. x + w - 1 \in Nat
            BY <4>1
          <5>2. q \in Nat /\ x + w - 1 < w * q + w
            BY <4>1, <5>1
          <5>3. w * q \in Nat
            BY <4>1, <5>2
          <5> QED BY <4>1, <5>2, <5>3
        <4> QED BY <4>1, <3>4, FrameConstants DEF bytes
      <3>6. End = BYTE * bitmap[MAX_ORDER] + BYTE * bytes(MAX_ORDER)
        BY <3>2, <3>5, FrameConstants DEF End
      <3>7. BYTE * bytes(MAX_ORDER) \in Nat
        BY <3>5, FrameConstants
      <3>8. CASE MAX_ORDER = 0
        <4>1. num_bits(MAX_ORDER) = nframes
          <5>1. 2^0 = 1 /\ nframes \div 1 = nframes
            BY FrameConstants
          <5> QED BY <5>1, <3>8 DEF num_bits
        <4> QED BY <4>1, <3>3, <3>5, <3>6, <3>7, <3>8, FrameConstants
            DEF Cell, Frames
      <3>9. CASE MAX_ORDER # 0
        <4>1. Cell(0, nframes) <= Cell(MAX_ORDER, 0)
          BY <3>1, <3>9, BitmapLayout
        <4> QED BY <4>1, <3>3, <3>6, <3>7, FrameConstants DEF Cell, Frames
      <3> QED BY <3>8, <3>9
    <2> QED BY <2>1, <2>2 DEF Init, frame_initialize
  <1> QED BY <1>1, <1>2, <1>3 DEF SingleInv, UsedExact

\* Every step of pmalloc(FRAME_SIZE) and pfree keeps it.
LEMMA NextSingleInv ==
    ASSUME SingleFrames, SingleInv, [Next]_vars
    PROVE  SingleInv'
  <1>1. TypeOK /\ TypeInv /\ TypeInv'
    BY NextTypeInv DEF SingleInv, TypeInv
  <1>2. 0 \in Orders
    BY FrameConstants DEF Orders
  <1>3. bits \in [Cells -> BOOLEAN]
    BY <1>1 DEF TypeOK
  <1>a. ASSUME NEW size \in Sizes, pmalloc_find(size) PROVE SingleInv'
    <2>1. get_order(size) = 0
      BY OneFrame DEF SingleFrames
    <2>2. PICK i \in FreeBlocks(0) :
             call' = [op |-> "pmalloc", order |-> 0, i |-> i, j |-> 0]
      BY <1>a, <2>1 DEF pmalloc_find
    <2>3. i \in Frames /\ is_bit_set(bits, 0, i)
      BY <1>2, <2>2, BlockStart DEF FreeBlocks
    <2>4. call = Idle /\ bits' = bits /\ held' = held
      BY <1>a DEF pmalloc_find
    <2>5. Used' = Used
      BY <2>2, <2>4 DEF Used, Idle
    <2>6. <<i, 0>> \notin held
      BY <2>3 DEF SingleInv, UsedExact, Used
    <2>7. OrderZeroOnly' /\ CallNotHeld'
      BY <2>2, <2>4, <2>6 DEF SingleInv, OrderZeroOnly, CallNotHeld
    <2>8. UsedExact'
      BY <2>4, <2>5 DEF SingleInv, UsedExact, is_bit_set
    <2> QED BY <1>1, <2>7, <2>8 DEF SingleInv
  <1>b. ASSUME NEW size \in Sizes, pmalloc_fail(size) PROVE SingleInv'
    <2>1. call' = call /\ bits' = bits /\ held' = held
      BY <1>b DEF pmalloc_fail
    <2> QED BY <1>1, <2>1 DEF SingleInv, OrderZeroOnly, CallNotHeld, UsedExact,
                              Used, is_bit_set
  <1>c. CASE pmalloc_mark
    <2>1. /\ call \in [op : {"pmalloc"}, order : Orders, i : Frames,
                       j : 0 .. (MAX_ORDER + 1)]
          /\ call.order = 0 /\ call.j \in Orders
      BY <1>c, <1>1, FrameConstants
         DEF pmalloc_mark, TypeOK, Calls, Idle, SingleInv, OrderZeroOnly, Orders
    <2> DEFINE index == call.i \div 2^(call.j)
    <2>2. /\ start_index(call.order, call.i, call.j) = index
          /\ index \in Nat
          /\ call.j = 0 => index = call.i
          /\ span(call.order, call.j) = 1
      BY <2>1, FrameIndex
    <2>3. bits' = clear_bits(bits, call.j, index, 1) /\ held' = held
      BY <1>c, <2>2 DEF pmalloc_mark
    <2>4. \A f \in Frames : is_bit_set(bits', 0, f)
             <=> is_bit_set(bits, 0, f) /\ ~(call.j = 0 /\ f = call.i)
      <3> SUFFICES ASSUME NEW f \in Frames
                   PROVE  is_bit_set(bits', 0, f)
                          <=> is_bit_set(bits, 0, f) /\ ~(call.j = 0 /\ f = call.i)
        OBVIOUS
      <3>1. call.j = 0 => index \in Frames
        BY <2>1, <2>2
      <3> HIDE DEF index
      <3> QED BY <1>3, <2>1, <2>2, <2>3, <3>1, MarkOne
    <2>5. /\ call'.op = "pmalloc" /\ call'.order = 0 /\ call'.i = call.i
          /\ call'.j > 0
      BY <1>c, <2>1 DEF pmalloc_mark, Orders
    <2>6. OrderZeroOnly' /\ CallNotHeld'
      BY <2>1, <2>3, <2>5 DEF SingleInv, OrderZeroOnly, CallNotHeld
    <2>7. \A f \in Frames : f \in Used' <=> f \in Used \/ (call.j = 0 /\ f = call.i)
      BY <2>1, <2>3, <2>5 DEF Used, Orders
    <2>8. UsedExact'
      BY <2>4, <2>7 DEF SingleInv, UsedExact
    <2> QED BY <1>1, <2>6, <2>8 DEF SingleInv
  <1>d. CASE pmalloc_return
    <2>1. /\ call \in [op : {"pmalloc"}, order : Orders, i : Frames,
                       j : 0 .. (MAX_ORDER + 1)]
          /\ call.order = 0
      BY <1>d, <1>1
         DEF pmalloc_return, TypeOK, Calls, Idle, SingleInv, OrderZeroOnly
    <2>2. call.j # 0
      <3> SUFFICES ASSUME call.j = 0 PROVE FALSE
        OBVIOUS
      <3>1. start_index(call.order, call.i, call.j) = call.i
        BY <1>2, <2>1, FrameIndex
      <3>2. is_bit_set(bits, 0, call.i)
        BY <2>1 DEF SingleInv, UsedExact, Used, CallNotHeld
      <3>3. MarkBit
        BY <3>1, <3>2 DEF MarkBit
      <3>4. call.j <= MAX_ORDER
        BY FrameConstants
      <3> QED BY <1>d, <3>3, <3>4 DEF pmalloc_return
    <2>3. call.i * 2^(call.order) = call.i
      <3>1. 2^0 = 1 /\ call.i * 1 = call.i
        BY <2>1, FrameConstants DEF Frames
      <3> QED BY <2>1, <3>1
    <2>4. call' = Idle /\ bits' = bits /\ held' = held \cup {<<call.i, 0>>}
      BY <1>d, <2>1, <2>3 DEF pmalloc_return
    <2>5. Used' = Used
      BY <2>1, <2>2, <2>4 DEF Used, Idle
    <2>6. OrderZeroOnly' /\ CallNotHeld'
      BY <2>4 DEF SingleInv, OrderZeroOnly, CallNotHeld, Idle
    <2>7. UsedExact'
      BY <2>4, <2>5 DEF SingleInv, UsedExact, is_bit_set
    <2> QED BY <1>1, <2>6, <2>7 DEF SingleInv
  <1>e. ASSUME NEW b \in held, pfree(b[1], b[2]) PROVE SingleInv'
    <2>1. b = <<b[1], 0>> /\ b[1] \in Frames /\ b[2] = 0
      BY <1>1, <1>e DEF SingleInv, OrderZeroOnly, TypeOK
    <2>2. /\ call' = [op |-> "pfree", pfn |-> b[1], order |-> 0, j |-> 0]
          /\ call = Idle /\ bits' = bits
          /\ held' = held \ {<<b[1], 0>>}
      BY <1>e, <2>1 DEF pfree
    <2>3. Used' = Used
      BY <2>1, <2>2 DEF Used, Idle
    <2>4. OrderZeroOnly' /\ CallNotHeld'
      BY <2>2 DEF SingleInv, OrderZeroOnly, CallNotHeld
    <2>5. UsedExact'
      BY <2>2, <2>3 DEF SingleInv, UsedExact, is_bit_set
    <2> QED BY <1>1, <2>4, <2>5 DEF SingleInv
  <1>f. CASE pfree_mark
    <2>1. /\ call \in [op : {"pfree"}, pfn : Frames, order : Orders, j : Orders]
          /\ call.order = 0
      BY <1>f, <1>1
         DEF pfree_mark, TypeOK, Calls, Idle, SingleInv, OrderZeroOnly
    <2> DEFINE index == call.pfn \div 2^(call.j)
    <2>2. /\ index \in Nat
          /\ call.j = 0 => index = call.pfn
          /\ span(call.order, call.j) = 1
      BY <2>1, FrameIndex
    <2>3. bits' = set_bits(bits, call.j, index, 1) /\ held' = held
      BY <1>f, <2>2 DEF pfree_mark
    <2>4. \A f \in Frames : is_bit_set(bits', 0, f)
             <=> is_bit_set(bits, 0, f) \/ (call.j = 0 /\ f = call.pfn)
      <3> SUFFICES ASSUME NEW f \in Frames
                   PROVE  is_bit_set(bits', 0, f)
                          <=> is_bit_set(bits, 0, f) \/ (call.j = 0 /\ f = call.pfn)
        OBVIOUS
      <3>1. call.j = 0 => index \in Frames
        BY <2>1, <2>2
      <3> HIDE DEF index
      <3> QED BY <1>3, <2>1, <2>2, <2>3, <3>1, MarkOne
    <2>5. \/ call' = Idle
          \/ /\ call'.op = "pfree" /\ call'.order = 0 /\ call'.pfn = call.pfn
             /\ call'.j > 0
      BY <1>f, <2>1, FrameConstants DEF pfree_mark, Orders
    <2>6. OrderZeroOnly' /\ CallNotHeld'
      BY <2>1, <2>3, <2>5 DEF SingleInv, OrderZeroOnly, CallNotHeld, Idle
    <2>7. \A f \in Frames : f \in Used' <=> f \in Used /\ ~(call.j = 0 /\ f = call.pfn)
      BY <2>1, <2>3, <2>5 DEF Used, Idle, SingleInv, CallNotHeld
    <2>8. UsedExact'
      BY <2>4, <2>7 DEF SingleInv, UsedExact
    <2> QED BY <1>1, <2>6, <2>8 DEF SingleInv
  <1>g. CASE UNCHANGED vars
    BY <1>1, <1>g DEF vars, SingleInv, OrderZeroOnly, CallNotHeld, UsedExact,
                      Used, is_bit_set
  <1> QED BY <1>a, <1>b, <1>c, <1>d, <1>e, <1>f, <1>g DEF Next

\* What SingleInv says of the properties the runs check.
LEMMA SingleInvSuffices == SingleInv => NoDoubleAllocation /\ FrameBitmapExact
  <1> SUFFICES ASSUME SingleInv PROVE NoDoubleAllocation /\ FrameBitmapExact
    OBVIOUS
  <1>1. TypeOK /\ OrderZeroOnly
    BY DEF SingleInv, TypeInv
  <1>2. HeldFrames = {f \in Frames : <<f, 0>> \in held}
    BY <1>1, HeldFramesAre DEF HeldFrames, TypeOK, OrderZeroOnly
  <1>3. NoDoubleAllocation
    <2> SUFFICES ASSUME call.op = "pmalloc"
                 PROVE  FramesOf(call.i * 2^(call.order), call.order)
                          \cap HeldFrames = {}
      BY DEF NoDoubleAllocation
    <2>1. call.i \in Frames /\ call.order = 0
      BY <1>1 DEF TypeOK, Calls, Idle, OrderZeroOnly
    <2>2. 2^0 = 1 /\ call.i * 1 = call.i
      BY <2>1, FrameConstants DEF Frames
    <2>3. FramesOf(call.i * 2^(call.order), call.order) = {call.i}
      BY <2>1, <2>2, FrameConstants DEF FramesOf, Frames
    <2> QED BY <1>2, <2>3 DEF SingleInv, CallNotHeld
  <1>4. FrameBitmapExact
    <2> SUFFICES ASSUME call = Idle, NEW f \in Frames
                 PROVE  is_bit_set(bits, 0, f) <=> f \notin HeldFrames
      BY DEF FrameBitmapExact
    <2>1. f \in Used <=> f \in HeldFrames
      BY <1>2 DEF Used, Idle
    <2> QED BY <2>1 DEF SingleInv, UsedExact
  <1> QED BY <1>3, <1>4

\* alloc_frame / free_frame: as long as every request is for one frame,
\* pmalloc never hands out a frame that is still held, for any number of
\* frames, orders and placement of the bitmaps.
THEOREM SingleFramesNeverShared ==
    ASSUME SingleFrames
    PROVE  Spec => []NoDoubleAllocation
  <1>1. SingleInv /\ [Next]_vars => SingleInv'
    BY NextSingleInv
  <1> QED BY <1>1, InitSingleInv, SingleInvSuffices, PTL DEF Spec

\* alloc_frame / free_frame: under the same condition the bitmap of order 0
\* is exact between calls, so no frame is ever lost either.
THEOREM SingleFramesNeverLost ==
    ASSUME SingleFrames
    PROVE  Spec => []FrameBitmapExact
  <1>1. SingleInv /\ [Next]_vars => SingleInv'
    BY NextSingleInv
  <1> QED BY <1>1, InitSingleInv, SingleInvSuffices, PTL DEF Spec

-----------------------------------------------------------------------------
(* The allocator implements FrameSpec.                                     *)

\* Every step of pmalloc(FRAME_SIZE) and pfree is a step of FrameSpec, or
\* changes nothing that its callers see.
LEMMA StepRefines ==
    ASSUME SingleFrames, SingleInv, SingleInv', [Next]_vars
    PROVE  [Abstract!Next]_<<HeldFrames, ret>>
  <1> DEFINE H == {f \in Frames : <<f, 0>> \in held}
  <1>1. TypeOK /\ OrderZeroOnly /\ TypeOK' /\ OrderZeroOnly'
    BY DEF SingleInv, TypeInv
  <1>2. HeldFrames = H
    BY <1>1, HeldFramesAre DEF HeldFrames, TypeOK, OrderZeroOnly
  <1>3. HeldFrames' = H'
    BY <1>1, HeldFramesAre DEF HeldFrames, TypeOK, OrderZeroOnly
  <1>a. ASSUME held' = held, ret' = ret PROVE UNCHANGED <<HeldFrames, ret>>
    BY <1>a DEF HeldFrames
  <1>b. ASSUME NEW size \in Sizes, pmalloc_fail(size) PROVE Abstract!Refuse
    <2>1. get_order(size) = 0
      BY OneFrame DEF SingleFrames
    <2>2. FreeBlocks(0) = {} /\ ret' = -1 /\ held' = held /\ call = Idle
      BY <1>b, <2>1 DEF pmalloc_fail
    <2>3. num_bits(0) = nframes
      <3>1. 2^0 = 1 /\ nframes \div 1 = nframes
        BY FrameConstants
      <3> QED BY <3>1 DEF num_bits
    <2>4. \A f \in Frames : ~is_bit_set(bits, 0, f)
      BY <2>2, <2>3 DEF FreeBlocks, Frames
    <2>5. \A f \in Frames : <<f, 0>> \in held
      BY <2>2, <2>4 DEF SingleInv, UsedExact, Used, Idle
    <2>6. HeldFrames = Frames /\ HeldFrames' = HeldFrames
      BY <1>2, <2>2, <2>5 DEF HeldFrames
    <2> QED BY <2>2, <2>6 DEF Abstract!Refuse
  <1>c. ASSUME pmalloc_return PROVE \E f \in Frames : Abstract!Take(f)
    <2>1. call.op = "pmalloc" /\ call.i \in Frames /\ call.order = 0
      BY <1>c, <1>1 DEF pmalloc_return, TypeOK, Calls, Idle, OrderZeroOnly
    <2>2. call.i * 2^(call.order) = call.i
      <3>1. 2^0 = 1 /\ call.i * 1 = call.i
        BY <2>1, FrameConstants DEF Frames
      <3> QED BY <2>1, <3>1
    <2>3. held' = held \cup {<<call.i, 0>>} /\ ret' = call.i
      BY <1>c, <2>1, <2>2 DEF pmalloc_return
    <2>4. call.i \notin HeldFrames
      BY <1>2, <2>1 DEF SingleInv, CallNotHeld
    <2>5. H' = H \cup {call.i}
      BY <2>1, <2>3
    <2> QED BY <1>2, <1>3, <2>1, <2>3, <2>4, <2>5 DEF Abstract!Take
  <1>d. ASSUME NEW b \in held, pfree(b[1], b[2])
        PROVE  \E f \in Frames : Abstract!Give(f)
    <2>1. b = <<b[1], 0>> /\ b[1] \in Frames /\ b[2] = 0
      BY <1>1, <1>d DEF OrderZeroOnly, TypeOK
    <2>2. held' = held \ {<<b[1], 0>>} /\ ret' = ret
      BY <1>d, <2>1 DEF pfree
    <2>3. b[1] \in H /\ H' = H \ {b[1]}
      BY <1>d, <2>1, <2>2
    <2> QED BY <1>2, <1>3, <2>1, <2>2, <2>3 DEF Abstract!Give
  <1>e. ASSUME NEW size \in Sizes, pmalloc_find(size)
        PROVE held' = held /\ ret' = ret
    BY <1>e DEF pmalloc_find
  <1>f. CASE pmalloc_mark \/ pfree_mark \/ UNCHANGED vars
    BY <1>a, <1>f DEF pmalloc_mark, pfree_mark, vars
  <1> QED BY <1>a, <1>b, <1>c, <1>d, <1>e, <1>f DEF Next, Abstract!Next

\* pmalloc(FRAME_SIZE) and pfree behave as a set of frames: a frame nobody
\* holds, or -1 exactly when all of them are held.
THEOREM SingleFramesRefine ==
    ASSUME SingleFrames
    PROVE  Spec => ImplementsFrameSpec
  <1>1. Init => Abstract!Init
    BY DEF Init, Abstract!Init, HeldFrames
  <1>2. SingleInv /\ [Next]_vars => SingleInv'
    BY NextSingleInv
  <1>3. SingleInv /\ SingleInv' /\ [Next]_vars
          => [Abstract!Next]_<<HeldFrames, ret>>
    BY StepRefines
  <1> QED BY <1>1, <1>2, <1>3, InitSingleInv, PTL
          DEF Spec, ImplementsFrameSpec, Abstract!Spec

-----------------------------------------------------------------------------
(* The first merge: the bits of order 1, for requests of one frame.        *)

Pairs == 0 .. (num_bits(1) - 1)

\* The frames that keep the bit of their pair clear: pmalloc clears it in its
\* second iteration, pfree sets it in its second if it gets there.
KeepsPair ==
    {f \in Frames : \/ <<f, 0>> \in held
                    \/ call.op = "pmalloc" /\ call.j > 1 /\ f = call.i
                    \/ call.op = "pfree" /\ call.j <= 1 /\ f = call.pfn}

PairExact ==
    \A b \in Pairs : is_bit_set(bits, 1, b)
                     <=> 2 * b \notin KeepsPair /\ 2 * b + 1 \notin KeepsPair

\* pfree goes on to order 1 only if nobody holds the buddy.
BuddyFree ==
    call.op = "pfree" /\ call.j = 1 => <<buddy(call.pfn), 0>> \notin held

PairInv == SingleInv /\ PairExact /\ BuddyFree

\* The two frames of a pair, each the buddy of the other.
LEMMA PairOf ==
    ASSUME NEW b \in Pairs, MAX_ORDER >= 1
    PROVE  /\ b \in Nat /\ 2 * b \in Frames /\ 2 * b + 1 \in Frames
           /\ FramesOf(2 * b, 1) = {2 * b, 2 * b + 1}
           /\ \A f \in Frames : f \div 2 = b <=> f = 2 * b \/ f = 2 * b + 1
           /\ buddy(2 * b) = 2 * b + 1 /\ buddy(2 * b + 1) = 2 * b
  <1>1. 2^1 = 2
    OBVIOUS
  <1>2. num_bits(1) = nframes \div 2 /\ nframes \in Nat
    BY <1>1, FrameConstants DEF num_bits
  <1>3. b \in Nat /\ b <= (nframes \div 2) - 1
    BY <1>2 DEF Pairs
  <1>4. 2 * b + 1 < nframes
    BY <1>2, <1>3
  <1>5. 2 * b \in Frames /\ 2 * b + 1 \in Frames
    BY <1>2, <1>3, <1>4 DEF Frames
  <1>6. FramesOf(2 * b, 1) = {2 * b, 2 * b + 1}
    <2>1. FramesOf(2 * b, 1) = (2 * b) .. (2 * b + 2 - 1)
      BY <1>1 DEF FramesOf
    <2> QED BY <1>3, <2>1
  <1>7. \A f \in Frames : f \div 2 = b <=> f = 2 * b \/ f = 2 * b + 1
    BY <1>2, <1>3 DEF Frames
  <1>8. buddy(2 * b) = 2 * b + 1 /\ buddy(2 * b + 1) = 2 * b
    <2>1. (2 * b) % 2 = 0 /\ (2 * b + 1) % 2 = 1
      BY <1>3
    <2>2. buddy(2 * b) = 2 * b + 1
      BY <2>1 DEF buddy
    <2>3. buddy(2 * b + 1) = (2 * b + 1) - 1
      BY <2>1 DEF buddy
    <2> QED BY <1>3, <2>2, <2>3
  <1> QED BY <1>3, <1>5, <1>6, <1>7, <1>8

\* The bits of the pairs are all in the bitmap of order 1, and no index of
\* another order, however far it strays, reaches them.
LEMMA PairCells ==
    ASSUME NEW b \in Pairs, MAX_ORDER >= 1
    PROVE  /\ Cell(1, b) \in Cells /\ Cell(1, b) \in Nat /\ Cell(1, b) < End
           /\ \A index \in Nat : Cell(1, b) = Cell(1, index) => b = index
           /\ \A j \in Orders : \A index \in Nat :
                 j # 1 /\ (j = 0 => index \in Frames) => Cell(1, b) # Cell(j, index)
  <1>1. 1 \in Orders /\ MAX_ORDER \in Orders /\ MAX_ORDER \in Nat
    BY FrameConstants DEF Orders
  <1>2. /\ bitmap[1] \in Nat /\ bitmap[MAX_ORDER] \in Nat
        /\ BYTE * bitmap[1] \in Nat /\ BYTE * bitmap[MAX_ORDER] \in Nat
    BY <1>1, BitmapLayout, FrameConstants
  <1>3. b \in Nat /\ num_bits(1) \in Nat /\ b < num_bits(1)
    <2>1. 2^1 = 2 /\ nframes \div 2 \in Int
      BY FrameConstants
    <2>2. num_bits(1) \in Int
      BY <2>1 DEF num_bits
    <2> QED BY <2>2 DEF Pairs
  <1>4. ASSUME NEW x \in Nat, NEW w \in Nat \ {0}
        PROVE  (x + w - 1) \div w \in Nat /\ x <= w * ((x + w - 1) \div w)
    <2> DEFINE q == (x + w - 1) \div w
    <2>1. x + w - 1 \in Nat
      BY <1>4
    <2>2. q \in Nat /\ x + w - 1 < w * q + w
      BY <1>4, <2>1
    <2>3. w * q \in Nat
      BY <1>4, <2>2
    <2> QED BY <1>4, <2>2, <2>3
  <1>5. bytes(1) \in Nat /\ num_bits(1) <= BYTE * bytes(1) /\ BYTE * bytes(1) \in Nat
    <2>1. bytes(1) \in Nat /\ num_bits(1) <= BYTE * bytes(1)
      BY <1>3, <1>4, FrameConstants DEF bytes
    <2> QED BY <2>1, FrameConstants
  <1>6. Cell(1, b) = BYTE * bitmap[1] + b /\ Cell(1, b) \in Nat
        /\ Cell(1, b) < BYTE * bitmap[1] + BYTE * bytes(1)
    BY <1>2, <1>3, <1>5 DEF Cell
  <1>7. ASSUME NEW j \in Orders, 1 < j
        PROVE  /\ BYTE * bitmap[1] + BYTE * bytes(1) <= BYTE * bitmap[j]
               /\ BYTE * bitmap[j] \in Nat
    <2>1. bitmap[1] + bytes(1) <= bitmap[j] /\ bitmap[j] \in Nat
      BY <1>1, <1>7, BitmapLayout
    <2>2. BYTE * (bitmap[1] + bytes(1)) <= BYTE * bitmap[j]
      BY <1>2, <1>5, <2>1, FrameConstants
    <2>3. BYTE * (bitmap[1] + bytes(1)) = BYTE * bitmap[1] + BYTE * bytes(1)
      BY <1>2, <1>5, FrameConstants
    <2> QED BY <2>1, <2>2, <2>3, FrameConstants
  <1>8. BYTE * bitmap[1] <= BYTE * bitmap[MAX_ORDER]
    <2>1. CASE MAX_ORDER = 1
      BY <1>2, <2>1
    <2>2. CASE 1 < MAX_ORDER
      BY <1>1, <1>2, <1>5, <1>7, <2>2
    <2> QED BY <1>1, <2>1, <2>2
  <1>9. Cell(1, b) \in Cells
    <2>1. num_bits(1) <= nframes
      <3>1. 2^1 = 2 /\ nframes \div 2 <= nframes
        BY FrameConstants
      <3> QED BY <3>1 DEF num_bits
    <2> QED BY <1>2, <1>3, <1>6, <1>8, <2>1, FrameConstants DEF Cells, Top
  <1>10. Cell(1, b) < End
    <2>1. bytes(MAX_ORDER) \in Nat /\ BYTE * bytes(MAX_ORDER) \in Nat
      <3>1. 2^MAX_ORDER \in Nat \ {0}
        BY <1>1, PowersOfTwo
      <3>2. num_bits(MAX_ORDER) \in Nat
        BY <3>1, FrameConstants DEF num_bits
      <3>3. bytes(MAX_ORDER) \in Nat
        BY <1>4, <3>2, FrameConstants DEF bytes
      <3> QED BY <3>3, FrameConstants
    <2>2. End = BYTE * bitmap[MAX_ORDER] + BYTE * bytes(MAX_ORDER)
      BY <1>2, <2>1, FrameConstants DEF End
    <2>3. CASE MAX_ORDER = 1
      BY <1>6, <2>2, <2>3
    <2>4. CASE 1 < MAX_ORDER
      BY <1>1, <1>2, <1>5, <1>6, <1>7, <2>1, <2>2, <2>4
    <2> QED BY <1>1, <2>3, <2>4
  <1>11. \A index \in Nat : Cell(1, b) = Cell(1, index) => b = index
    BY <1>2, <1>3 DEF Cell
  <1>12. ASSUME NEW j \in Orders, NEW index \in Nat, j # 1, j = 0 => index \in Frames
         PROVE  Cell(1, b) # Cell(j, index)
    <2>1. CASE j = 0
      BY <1>1, <1>3, <1>12, <2>1, HigherOrdersApart
    <2>2. CASE j # 0
      <3>1. 1 < j
        BY <1>12, <2>2, FrameConstants DEF Orders
      <3>2. Cell(j, index) >= BYTE * bitmap[1] + BYTE * bytes(1)
        BY <1>2, <1>5, <1>7, <3>1 DEF Cell
      <3>3. Cell(j, index) \in Nat
        BY CellRange
      <3> QED BY <1>2, <1>5, <1>6, <3>2, <3>3
    <2> QED BY <2>1, <2>2
  <1> QED BY <1>6, <1>9, <1>10, <1>11, <1>12

\* Clearing or setting one bit of order j: the bit of a pair changes if it
\* is that one.
LEMMA MarkPair ==
    ASSUME NEW m \in [Cells -> BOOLEAN], NEW j \in Orders, NEW index \in Nat,
           NEW b \in Pairs, MAX_ORDER >= 1, j = 0 => index \in Frames
    PROVE  /\ is_bit_set(clear_bits(m, j, index, 1), 1, b)
                <=> is_bit_set(m, 1, b) /\ ~(j = 1 /\ b = index)
           /\ is_bit_set(set_bits(m, j, index, 1), 1, b)
                <=> is_bit_set(m, 1, b) \/ (j = 1 /\ b = index)
  <1>1. Cell(1, b) \in Cells /\ Cell(1, b) \in Nat /\ Cell(j, index) \in Nat
    BY PairCells, CellRange
  <1>2. index + 1 - 1 = index
    OBVIOUS
  <1>3. Cell(1, b) \in Cell(j, index) .. Cell(j, index + 1 - 1)
          <=> Cell(1, b) = Cell(j, index)
    BY <1>1, <1>2
  <1>4. Cell(1, b) = Cell(j, index) <=> (j = 1 /\ b = index)
    BY PairCells
  <1> QED BY <1>1, <1>3, <1>4 DEF is_bit_set, clear_bits, set_bits

\* frame_initialize sets the bits of all pairs.
LEMMA InitPairInv ==
    ASSUME MAX_ORDER >= 1
    PROVE  Init => PairInv
  <1> SUFFICES ASSUME Init PROVE PairInv
    OBVIOUS
  <1>1. SingleInv
    BY InitSingleInv
  <1>2. KeepsPair = {} /\ BuddyFree
    BY DEF Init, frame_initialize, Idle, KeepsPair, BuddyFree
  <1>3. \A b \in Pairs : is_bit_set(bits, 1, b)
    BY PairCells DEF is_bit_set, Init, frame_initialize
  <1> QED BY <1>1, <1>2, <1>3 DEF PairInv, PairExact

\* Every step of pmalloc(FRAME_SIZE) and pfree keeps the pairs right.
LEMMA NextPairInv ==
    ASSUME MAX_ORDER >= 1, SingleFrames, PairInv, [Next]_vars
    PROVE  PairInv'
  <1>1. SingleInv /\ SingleInv' /\ TypeOK /\ bits \in [Cells -> BOOLEAN]
    BY NextSingleInv DEF PairInv, SingleInv, TypeInv, TypeOK
  <1>2. 0 \in Orders /\ 1 \in Orders /\ MAX_ORDER \in Nat
    BY FrameConstants DEF Orders
  <1>a. ASSUME NEW size \in Sizes, pmalloc_find(size) PROVE PairInv'
    <2>1. PICK i : call' = [op |-> "pmalloc", order |-> get_order(size), i |-> i, j |-> 0]
      BY <1>a DEF pmalloc_find
    <2>2. call = Idle /\ bits' = bits /\ held' = held
      BY <1>a DEF pmalloc_find
    <2>3. KeepsPair' = KeepsPair /\ BuddyFree'
      BY <2>1, <2>2 DEF KeepsPair, BuddyFree, Idle
    <2>4. PairExact'
      BY <2>2, <2>3 DEF PairInv, PairExact, is_bit_set
    <2> QED BY <1>1, <2>3, <2>4 DEF PairInv
  <1>b. ASSUME call' = call, bits' = bits, held' = held PROVE PairInv'
    BY <1>1, <1>b DEF PairInv, PairExact, KeepsPair, BuddyFree, is_bit_set
  <1>c. CASE pmalloc_mark
    <2>1. /\ call \in [op : {"pmalloc"}, order : Orders, i : Frames,
                       j : 0 .. (MAX_ORDER + 1)]
          /\ call.order = 0 /\ call.j \in Orders
      BY <1>c, <1>1, FrameConstants
         DEF pmalloc_mark, TypeOK, Calls, Idle, SingleInv, OrderZeroOnly, Orders
    <2> DEFINE index == call.i \div 2^(call.j)
    <2>2. /\ start_index(call.order, call.i, call.j) = index
          /\ index \in Nat
          /\ call.j = 0 => index = call.i
          /\ span(call.order, call.j) = 1
      BY <2>1, FrameIndex
    <2>3. bits' = clear_bits(bits, call.j, index, 1) /\ held' = held
      BY <1>c, <2>2 DEF pmalloc_mark
    <2>4. call.j = 1 => index = call.i \div 2
      <3>1. 2^1 = 2
        OBVIOUS
      <3> QED BY <3>1
    <2>5. call.j = 0 => index \in Frames
      BY <2>1, <2>2
    <2> HIDE DEF index
    <2>6. call'.op = "pmalloc" /\ call'.i = call.i /\ call'.j = call.j + 1 /\ call.j \in Nat
      BY <1>c, <2>1 DEF pmalloc_mark, Orders
    <2>7. \A f \in Frames : f \in KeepsPair' <=> f \in KeepsPair \/ (call.j = 1 /\ f = call.i)
      BY <2>1, <2>3, <2>6 DEF KeepsPair
    <2>8. PairExact'
      <3> SUFFICES ASSUME NEW b \in Pairs
                   PROVE  is_bit_set(bits', 1, b)
                          <=> 2 * b \notin KeepsPair' /\ 2 * b + 1 \notin KeepsPair'
        BY DEF PairExact, Pairs, num_bits
      <3>1. is_bit_set(bits', 1, b) <=> is_bit_set(bits, 1, b) /\ ~(call.j = 1 /\ b = index)
        BY <1>1, <2>1, <2>2, <2>3, <2>5, MarkPair
      <3>2. is_bit_set(bits, 1, b) <=> 2 * b \notin KeepsPair /\ 2 * b + 1 \notin KeepsPair
        BY DEF PairInv, PairExact
      <3>3. 2 * b \in Frames /\ 2 * b + 1 \in Frames
            /\ (call.i \div 2 = b <=> call.i = 2 * b \/ call.i = 2 * b + 1)
        BY <2>1, PairOf
      <3> QED BY <2>4, <2>7, <3>1, <3>2, <3>3
    <2>9. BuddyFree'
      BY <2>6 DEF BuddyFree
    <2> QED BY <1>1, <2>8, <2>9 DEF PairInv
  <1>d. CASE pmalloc_return
    <2>1. /\ call \in [op : {"pmalloc"}, order : Orders, i : Frames,
                       j : 0 .. (MAX_ORDER + 1)]
          /\ call.order = 0
      BY <1>d, <1>1
         DEF pmalloc_return, TypeOK, Calls, Idle, SingleInv, OrderZeroOnly
    <2>2. call.j # 0
      <3> SUFFICES ASSUME call.j = 0 PROVE FALSE
        OBVIOUS
      <3>1. start_index(call.order, call.i, call.j) = call.i
        BY <1>2, <2>1, FrameIndex
      <3>2. is_bit_set(bits, 0, call.i)
        BY <1>1, <2>1 DEF SingleInv, UsedExact, Used, CallNotHeld
      <3>3. MarkBit
        BY <3>1, <3>2 DEF MarkBit
      <3>4. call.j <= MAX_ORDER
        BY <1>2
      <3> QED BY <1>d, <3>3, <3>4 DEF pmalloc_return
    <2>3. call.i * 2^(call.order) = call.i
      <3>1. 2^0 = 1 /\ call.i * 1 = call.i
        BY <2>1, FrameConstants DEF Frames
      <3> QED BY <2>1, <3>1
    <2>4. call' = Idle /\ bits' = bits /\ held' = held \cup {<<call.i, 0>>}
      BY <1>d, <2>1, <2>3 DEF pmalloc_return
    <2>5. \A f \in Frames : f \in KeepsPair' <=> f \in KeepsPair \/ f = call.i
      BY <2>1, <2>4 DEF KeepsPair, Idle
    <2>6. call.j = 1 => ~is_bit_set(bits, 1, call.i \div 2)
      <3> SUFFICES ASSUME call.j = 1 PROVE ~is_bit_set(bits, 1, call.i \div 2)
        OBVIOUS
      <3>1. start_index(call.order, call.i, call.j) = call.i \div 2^(call.j)
        BY <1>2, <2>1, FrameIndex
      <3>2. 2^1 = 2 /\ call.j <= MAX_ORDER
        BY <1>2
      <3>3. ~MarkBit
        BY <1>d, <3>2 DEF pmalloc_return
      <3> QED BY <3>1, <3>2, <3>3 DEF MarkBit
    <2>7. call.j # 1 => call.i \in KeepsPair
      BY <1>2, <2>1, <2>2 DEF KeepsPair
    <2>8. PairExact'
      <3> SUFFICES ASSUME NEW b \in Pairs
                   PROVE  is_bit_set(bits, 1, b)
                          <=> 2 * b \notin KeepsPair' /\ 2 * b + 1 \notin KeepsPair'
        BY <2>4 DEF PairExact, Pairs, num_bits
      <3>1. is_bit_set(bits, 1, b) <=> 2 * b \notin KeepsPair /\ 2 * b + 1 \notin KeepsPair
        BY DEF PairInv, PairExact
      <3>2. 2 * b \in Frames /\ 2 * b + 1 \in Frames
            /\ (call.i \div 2 = b <=> call.i = 2 * b \/ call.i = 2 * b + 1)
        BY <2>1, PairOf
      <3>3. CASE call.j = 1
        BY <2>5, <2>6, <3>1, <3>2, <3>3
      <3>4. CASE call.j # 1
        BY <2>5, <2>7, <3>1, <3>2, <3>4
      <3> QED BY <3>3, <3>4
    <2>9. BuddyFree'
      BY <2>4 DEF BuddyFree, Idle
    <2> QED BY <1>1, <2>8, <2>9 DEF PairInv
  <1>e. ASSUME NEW b \in held, pfree(b[1], b[2]) PROVE PairInv'
    <2>1. b = <<b[1], 0>> /\ b[1] \in Frames /\ b[2] = 0
      BY <1>1, <1>e DEF SingleInv, OrderZeroOnly, TypeOK
    <2>2. /\ call' = [op |-> "pfree", pfn |-> b[1], order |-> 0, j |-> 0]
          /\ call = Idle /\ bits' = bits
          /\ held' = held \ {<<b[1], 0>>}
      BY <1>e, <2>1 DEF pfree
    <2>3. KeepsPair' = KeepsPair
      BY <2>1, <2>2 DEF KeepsPair, Idle
    <2>4. PairExact' /\ BuddyFree'
      BY <2>2, <2>3 DEF PairInv, PairExact, BuddyFree, is_bit_set
    <2> QED BY <1>1, <2>4 DEF PairInv
  <1>f. CASE pfree_mark
    <2>1. /\ call \in [op : {"pfree"}, pfn : Frames, order : Orders, j : Orders]
          /\ call.order = 0 /\ <<call.pfn, 0>> \notin held
      BY <1>f, <1>1
         DEF pfree_mark, TypeOK, Calls, Idle, SingleInv, OrderZeroOnly, CallNotHeld
    <2> DEFINE index == call.pfn \div 2^(call.j)
    <2>2. /\ index \in Nat
          /\ call.j = 0 => index = call.pfn
          /\ span(call.order, call.j) = 1
      BY <2>1, FrameIndex
    <2>3. bits' = set_bits(bits, call.j, index, 1) /\ held' = held
      BY <1>f, <2>2 DEF pfree_mark
    <2>4. call.j = 1 => index = call.pfn \div 2
      <3>1. 2^1 = 2
        OBVIOUS
      <3> QED BY <3>1
    <2>5. call.j = 0 => index \in Frames
      BY <2>1, <2>2
    <2>6. IF call.j < MAX_ORDER /\ is_bit_set(bits', 0, buddy(index))
          THEN call' = [call EXCEPT !.j = @ + 1] ELSE call' = Idle
      BY <1>f, <2>1 DEF pfree_mark
    <2> HIDE DEF index
    <2>7. \A b \in Pairs : is_bit_set(bits', 1, b)
             <=> is_bit_set(bits, 1, b) \/ (call.j = 1 /\ b = index)
      BY <1>1, <2>1, <2>2, <2>3, <2>5, MarkPair
    <2>8. \A b \in Pairs : is_bit_set(bits, 1, b)
             <=> 2 * b \notin KeepsPair /\ 2 * b + 1 \notin KeepsPair
      BY DEF PairInv, PairExact
    <2>9. call.j \in Nat
      BY <2>1 DEF Orders
    <2>10. CASE call.j = 0 /\ is_bit_set(bits', 0, buddy(index))
      <3>1. call' = [call EXCEPT !.j = @ + 1]
        BY <1>2, <2>6, <2>10
      <3>2. call'.op = "pfree" /\ call'.j = 1 /\ call'.pfn = call.pfn
        BY <2>1, <2>10, <3>1
      <3>3. KeepsPair' = KeepsPair
        BY <2>1, <2>3, <2>10, <3>2 DEF KeepsPair
      <3>4. PairExact'
        BY <2>7, <2>8, <2>10, <3>3 DEF PairExact, Pairs, num_bits
      <3>5. BuddyFree'
        <4> SUFFICES ASSUME <<buddy(call.pfn), 0>> \in held PROVE FALSE
          BY <2>3, <3>2 DEF BuddyFree, buddy
        <4>1. buddy(call.pfn) \in Frames
          BY <1>1 DEF TypeOK
        <4>2. buddy(call.pfn) \in Used'
          BY <2>3, <4>1 DEF Used
        <4>3. is_bit_set(bits', 0, buddy(call.pfn))
          BY <2>2, <2>10
        <4> QED BY <1>1, <4>1, <4>2, <4>3 DEF SingleInv, UsedExact, is_bit_set
      <3> QED BY <1>1, <3>4, <3>5 DEF PairInv
    <2>11. CASE call.j = 0 /\ ~is_bit_set(bits', 0, buddy(index))
      <3>1. call' = Idle /\ index = call.pfn
        BY <2>2, <2>6, <2>11
      <3>2. \A f \in Frames : f \in KeepsPair' <=> f \in KeepsPair /\ f # call.pfn
        BY <2>1, <2>3, <3>1 DEF KeepsPair, Idle
      <3>3. PairExact'
        <4> SUFFICES ASSUME NEW b \in Pairs
                     PROVE  is_bit_set(bits', 1, b)
                            <=> 2 * b \notin KeepsPair' /\ 2 * b + 1 \notin KeepsPair'
          BY DEF PairExact, Pairs, num_bits
        <4>1. /\ 2 * b \in Frames /\ 2 * b + 1 \in Frames
              /\ buddy(2 * b) = 2 * b + 1 /\ buddy(2 * b + 1) = 2 * b
              /\ 2 * b # 2 * b + 1
          BY PairOf
        <4>2. is_bit_set(bits', 1, b) <=> is_bit_set(bits, 1, b)
          BY <2>7, <2>11
        <4>3. CASE call.pfn \in {2 * b, 2 * b + 1}
          <5>1. call.pfn \in KeepsPair
            BY <2>1, <2>11 DEF KeepsPair
          <5>2. ~is_bit_set(bits, 1, b)
            BY <2>8, <4>3, <5>1
          <5>3. buddy(call.pfn) \in Frames /\ buddy(call.pfn) # call.pfn
                /\ buddy(call.pfn) \in {2 * b, 2 * b + 1}
            BY <4>1, <4>3
          <5>4. buddy(call.pfn) \in Used'
            <6>1. ~is_bit_set(bits', 0, buddy(call.pfn))
              BY <2>11, <3>1
            <6> QED BY <1>1, <5>3, <6>1 DEF SingleInv, UsedExact, is_bit_set
          <5>5. <<buddy(call.pfn), 0>> \in held'
            BY <3>1, <5>4 DEF Used, Idle
          <5>6. buddy(call.pfn) \in KeepsPair'
            BY <5>3, <5>5 DEF KeepsPair
          <5> QED BY <4>2, <5>2, <5>3, <5>6
        <4>4. CASE call.pfn \notin {2 * b, 2 * b + 1}
          BY <2>8, <3>2, <4>1, <4>2, <4>4
        <4> QED BY <4>3, <4>4
      <3> QED BY <1>1, <3>1, <3>3 DEF PairInv, BuddyFree, Idle
    <2>12. CASE call.j = 1
      <3>1. call'.op = "pfree" => call'.j = 2 /\ call'.pfn = call.pfn
        BY <2>1, <2>6, <2>12 DEF Idle
      <3>2. call' = Idle \/ call'.op = "pfree"
        BY <2>1, <2>6
      <3>3. \A f \in Frames : f \in KeepsPair' <=> f \in KeepsPair /\ f # call.pfn
        BY <2>1, <2>3, <2>12, <3>1, <3>2 DEF KeepsPair, Idle
      <3>4. PairExact'
        <4> SUFFICES ASSUME NEW b \in Pairs
                     PROVE  is_bit_set(bits', 1, b)
                            <=> 2 * b \notin KeepsPair' /\ 2 * b + 1 \notin KeepsPair'
          BY DEF PairExact, Pairs, num_bits
        <4>1. /\ 2 * b \in Frames /\ 2 * b + 1 \in Frames
              /\ (call.pfn \div 2 = b <=> call.pfn = 2 * b \/ call.pfn = 2 * b + 1)
              /\ buddy(2 * b) = 2 * b + 1 /\ buddy(2 * b + 1) = 2 * b
              /\ 2 * b # 2 * b + 1
          BY <2>1, PairOf
        <4>2. is_bit_set(bits', 1, b) <=> is_bit_set(bits, 1, b) \/ b = call.pfn \div 2
          BY <2>4, <2>7, <2>12
        <4>3. CASE call.pfn \in {2 * b, 2 * b + 1}
          <5>1. <<buddy(call.pfn), 0>> \notin held
            BY <2>1, <2>12 DEF PairInv, BuddyFree
          <5>2. buddy(call.pfn) \notin KeepsPair
            BY <2>1, <4>1, <4>3, <5>1 DEF KeepsPair
          <5>3. buddy(call.pfn) \notin KeepsPair' /\ call.pfn \notin KeepsPair'
            BY <2>1, <3>3, <4>1, <4>3, <5>2
          <5> QED BY <4>1, <4>2, <4>3, <5>3
        <4>4. CASE call.pfn \notin {2 * b, 2 * b + 1}
          BY <2>8, <3>3, <4>1, <4>2, <4>4
        <4> QED BY <4>3, <4>4
      <3> QED BY <1>1, <3>1, <3>2, <3>4 DEF PairInv, BuddyFree, Idle
    <2>13. CASE call.j > 1
      <3>1. call'.op = "pfree" => call'.j = call.j + 1 /\ call'.pfn = call.pfn
        BY <2>1, <2>6 DEF Idle
      <3>2. call' = Idle \/ call'.op = "pfree"
        BY <2>1, <2>6
      <3>3. KeepsPair' = KeepsPair
        <4>1. ~(call.j <= 1) /\ ~(call.j + 1 <= 1)
          BY <2>9, <2>13
        <4>2. call'.op # "pmalloc" /\ (call'.op = "pfree" => ~(call'.j <= 1))
          BY <3>1, <3>2, <4>1 DEF Idle
        <4> QED BY <2>1, <2>3, <4>1, <4>2 DEF KeepsPair
      <3>4. PairExact'
        BY <2>7, <2>8, <2>9, <2>13, <3>3 DEF PairExact, Pairs, num_bits
      <3>5. BuddyFree'
        BY <2>9, <2>13, <3>1 DEF BuddyFree
      <3> QED BY <1>1, <3>4, <3>5 DEF PairInv
    <2> QED BY <2>9, <2>10, <2>11, <2>12, <2>13
  <1>g. CASE UNCHANGED vars
    BY <1>b, <1>g DEF vars
  <1>h. ASSUME NEW size \in Sizes, pmalloc_fail(size) PROVE PairInv'
    BY <1>b, <1>h DEF pmalloc_fail
  <1> QED BY <1>a, <1>c, <1>d, <1>e, <1>f, <1>g, <1>h DEF Next

\* pfree: as long as every request is for one frame, the first merge is right:
\* between calls the bit of a pair is set exactly when both frames are free,
\* although the loop looks buddies of every order up in the bitmap of order 0.
THEOREM PairsMergeExactly ==
    ASSUME SingleFrames
    PROVE  Spec => []PairBitmapExact
  <1>1. PairInv /\ MAX_ORDER >= 1 => PairBitmapExact
    <2> SUFFICES ASSUME PairInv, MAX_ORDER >= 1, call = Idle, NEW b \in Pairs
                 PROVE  is_bit_set(bits, 1, b) <=> FramesOf(2 * b, 1) \cap HeldFrames = {}
      BY DEF PairBitmapExact, Pairs
    <2>1. TypeOK /\ OrderZeroOnly
      BY DEF PairInv, SingleInv, TypeInv
    <2>2. HeldFrames = {f \in Frames : <<f, 0>> \in held}
      BY <2>1, HeldFramesAre DEF HeldFrames, TypeOK, OrderZeroOnly
    <2>3. KeepsPair = HeldFrames
      BY <2>2 DEF KeepsPair, Idle
    <2>4. FramesOf(2 * b, 1) = {2 * b, 2 * b + 1}
      BY PairOf
    <2> QED BY <2>3, <2>4 DEF PairInv, PairExact
  <1>2. ~(MAX_ORDER >= 1) => PairBitmapExact
    BY DEF PairBitmapExact
  <1>3. CASE MAX_ORDER >= 1
    <2>1. Init => PairInv
      BY <1>3, InitPairInv
    <2>2. PairInv /\ [Next]_vars => PairInv'
      BY <1>3, NextPairInv
    <2>3. PairInv => PairBitmapExact
      BY <1>1, <1>3
    <2> QED BY <2>1, <2>2, <2>3, PTL DEF Spec
  <1>4. CASE ~(MAX_ORDER >= 1)
    <2>1. PairBitmapExact
      BY <1>2, <1>4
    <2> QED BY <2>1, PTL
  <1> QED BY <1>3, <1>4
=============================================================================
