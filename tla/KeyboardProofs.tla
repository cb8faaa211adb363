--------------------------- MODULE KeyboardProofs ---------------------------
(***************************************************************************)
(* The ring buffer of kb.c is a queue, for every buffer size and every set *)
(* of characters: TypeOK and ReadIsStable together are inductive, and      *)
(* under them every step of the driver is a step of KeyQueue.              *)
(***************************************************************************)
EXTENDS Keyboard, SequenceTheorems, TLAPS

\* The inductive invariant.
IInv == TypeOK /\ ReadIsStable

\* The index after i: the remainder only matters at the end of the buffer.
LEMMA SuccIs ==
    ASSUME NEW i \in Slots
    PROVE  /\ succ(i) = IF i = KEYBOARD_BUFFER_SIZE - 1 THEN 0 ELSE i + 1
           /\ succ(i) \in Slots
<1>1. KEYBOARD_BUFFER_SIZE \in Nat /\ KEYBOARD_BUFFER_SIZE > 1
  BY KeyboardConstants
<1>2. CASE i = KEYBOARD_BUFFER_SIZE - 1
  <2>1. (i + 1) % KEYBOARD_BUFFER_SIZE = 0
    BY <1>1, <1>2
  <2> QED BY <2>1, <1>1, <1>2 DEF succ, Slots
<1>3. CASE i # KEYBOARD_BUFFER_SIZE - 1
  <2>1. i + 1 \in 0 .. (KEYBOARD_BUFFER_SIZE - 1)
    BY <1>1, <1>3 DEF Slots
  <2>2. (i + 1) % KEYBOARD_BUFFER_SIZE = i + 1
    BY <1>1, <2>1
  <2> QED BY <2>1, <2>2, <1>1, <1>3 DEF succ, Slots
<1> QED BY <1>2, <1>3

\* The buffer starts empty, with no call in progress.
LEMMA InitIInv == Init => IInv
BY KeyboardConstants
DEF Init, IInv, TypeOK, ReadIsStable, Slots, is_buffer_empty

\* No interrupt and no step of the reader breaks the invariant.
LEMMA NextIInv == IInv /\ [Next]_vars => IInv'
<1> SUFFICES ASSUME IInv, [Next]_vars PROVE IInv'
  OBVIOUS
<1> USE KeyboardConstants
<1>0. /\ succ(buffer_start) \in Slots
      /\ succ(buffer_end) \in Slots
  BY SuccIs DEF IInv, TypeOK
<1>1. ASSUME NEW released \in BOOLEAN, NEW ch \in Chars,
             keyboard_handler(released, ch)
      PROVE  IInv'
  <2>1. CASE released \/ is_buffer_full
    BY <1>1, <2>1 DEF keyboard_handler, keyboard_buffer_put, IInv, TypeOK,
       ReadIsStable, is_buffer_empty
  <2>2. CASE ~released /\ ~is_buffer_full
    <3>1. TypeOK'
      BY <1>0, <1>1, <2>2 DEF keyboard_handler, keyboard_buffer_put, IInv, TypeOK
    <3>2. ReadIsStable'
      BY <1>1, <2>2 DEF keyboard_handler, keyboard_buffer_put, IInv, TypeOK,
         ReadIsStable, is_buffer_empty, is_buffer_full
    <3> QED BY <3>1, <3>2 DEF IInv
  <2> QED BY <2>1, <2>2
<1>2. CASE getchar_ready
  BY <1>2 DEF getchar_ready, IInv, TypeOK, ReadIsStable, is_buffer_empty
<1>3. CASE getchar_read
  BY <1>3 DEF getchar_read, IInv, TypeOK, ReadIsStable, is_buffer_empty
<1>4. CASE getchar_advance
  BY <1>0, <1>4 DEF getchar_advance, IInv, TypeOK, ReadIsStable
<1>5. CASE getchar_advance_first
  BY <1>0, <1>5 DEF getchar_advance_first, IInv, TypeOK, ReadIsStable
<1>6. CASE getchar_read_late
  <2>1. Passed \in Slots
    BY DEF Passed, Slots, IInv, TypeOK
  <2> QED BY <1>6, <2>1 DEF getchar_read_late, IInv, TypeOK, ReadIsStable
<1>7. CASE UNCHANGED vars
  BY <1>7 DEF vars, IInv, TypeOK, ReadIsStable, is_buffer_empty
<1> QED BY <1>1, <1>2, <1>3, <1>4, <1>5, <1>6, <1>7 DEF Next, keyboard_getchar

\* The invariant holds always.
LEMMA AlwaysIInv == Spec => []IInv
BY InitIInv, NextIInv, PTL DEF Spec

\* keyboard_getchar never returns a character that a later key overwrote
\* while the call was between its two steps.
THEOREM ReaderNeverOverrun == Spec => []ReadIsStable
BY AlwaysIInv, PTL DEF IInv

\* The contents of the ring are a sequence of at most SIZE - 1 characters.
LEMMA ContentsSeq ==
    ASSUME IInv
    PROVE  /\ Count \in 0 .. (KEYBOARD_BUFFER_SIZE - 1)
           /\ \A i \in 0 .. (KEYBOARD_BUFFER_SIZE - 1) : Slot(i) \in Slots
           /\ Contents \in Seq(Chars)
           /\ Len(Contents) = Count
           /\ Contents = <<>> <=> is_buffer_empty
<1> USE KeyboardConstants
<1>1. Count \in 0 .. (KEYBOARD_BUFFER_SIZE - 1)
  BY DEF Count, IInv, TypeOK, Slots
<1>2. \A i \in 0 .. (KEYBOARD_BUFFER_SIZE - 1) : Slot(i) \in Slots
  BY DEF Slot, IInv, TypeOK, Slots
<1>3. \A i \in 1 .. Count : keyboard_buffer[Slot(i - 1)] \in Chars
  <2> SUFFICES ASSUME NEW i \in 1 .. Count
               PROVE  keyboard_buffer[Slot(i - 1)] \in Chars
    OBVIOUS
  <2>1. i - 1 \in 0 .. (KEYBOARD_BUFFER_SIZE - 1)
    BY <1>1
  <2>2. Slot(i - 1) \in Slots
    BY <1>2, <2>1
  <2> QED BY <2>2 DEF IInv, TypeOK
<1>4. Contents \in [1 .. Count -> Chars]
  BY <1>3 DEF Contents
<1>5. Contents \in Seq(Chars) /\ Len(Contents) = Count
  BY <1>1, <1>4
<1>6. Contents = <<>> <=> Count = 0
  BY <1>5
<1>7. Count = 0 <=> is_buffer_empty
  BY DEF Count, is_buffer_empty, IInv, TypeOK, Slots
<1> QED BY <1>1, <1>2, <1>5, <1>6, <1>7

\* A key that is kept is appended to the contents; none is lost before the
\* buffer holds SIZE - 1 of them.
LEMMA PutAppends ==
    ASSUME IInv, NEW ch \in Chars, keyboard_buffer_put(ch),
           UNCHANGED buffer_start
    PROVE  IF is_buffer_full
           THEN Len(Contents) = KEYBOARD_BUFFER_SIZE - 1 /\ Contents' = Contents
           ELSE /\ Len(Contents) < KEYBOARD_BUFFER_SIZE - 1
                /\ Contents' = Append(Contents, ch)
<1> USE KeyboardConstants
<1>1. Count \in 0 .. (KEYBOARD_BUFFER_SIZE - 1)
      /\ Contents \in Seq(Chars) /\ Len(Contents) = Count
  BY ContentsSeq
<1>2. succ(buffer_end)
      = IF buffer_end = KEYBOARD_BUFFER_SIZE - 1 THEN 0 ELSE buffer_end + 1
  BY SuccIs DEF IInv, TypeOK
<1>3. CASE is_buffer_full
  <2>1. Count = KEYBOARD_BUFFER_SIZE - 1
    BY <1>2, <1>3 DEF is_buffer_full, Count, IInv, TypeOK, Slots
  <2>2. Contents' = Contents
    BY <1>3 DEF keyboard_buffer_put, Contents, Count, Slot
  <2> QED BY <1>1, <1>3, <2>1, <2>2
<1>4. CASE ~is_buffer_full
  <2>1. Count < KEYBOARD_BUFFER_SIZE - 1
    BY <1>2, <1>4 DEF is_buffer_full, Count, IInv, TypeOK, Slots
  <2>2. /\ keyboard_buffer' = [keyboard_buffer EXCEPT ![buffer_end] = ch]
        /\ buffer_end' = succ(buffer_end)
    BY <1>4 DEF keyboard_buffer_put
  <2>3. Count' = Count + 1
    BY <1>2, <1>4, <2>2 DEF is_buffer_full, Count, IInv, TypeOK, Slots
  <2>4. Slot(Count) = buffer_end
    BY DEF Slot, Count, IInv, TypeOK, Slots
  <2>5. \A i \in 0 .. (Count - 1) : Slot(i) # buffer_end /\ Slot(i) \in Slots
    BY DEF Slot, Count, IInv, TypeOK, Slots
  <2>6. \A i \in Int : Slot(i)' = Slot(i)
    BY DEF Slot
  <2>7. Contents' = [i \in 1 .. (Count + 1) |-> keyboard_buffer'[Slot(i - 1)]]
    BY <1>1, <2>3, <2>6 DEF Contents
  <2>8. keyboard_buffer \in [Slots -> Chars] /\ buffer_end \in Slots
    BY DEF IInv, TypeOK
  <2>9. \A i \in 1 .. (Count + 1) :
           keyboard_buffer'[Slot(i - 1)]
           = IF i = Count + 1 THEN ch ELSE keyboard_buffer[Slot(i - 1)]
    <3> SUFFICES ASSUME NEW i \in 1 .. (Count + 1)
                 PROVE  keyboard_buffer'[Slot(i - 1)]
                        = IF i = Count + 1 THEN ch ELSE keyboard_buffer[Slot(i - 1)]
      OBVIOUS
    <3>1. CASE i = Count + 1
      <4>1. i - 1 = Count
        BY <1>1, <3>1
      <4> QED BY <2>2, <2>4, <2>8, <3>1, <4>1
    <3>2. CASE i # Count + 1
      <4>1. i - 1 \in 0 .. (Count - 1)
        BY <1>1, <3>2
      <4> QED BY <2>2, <2>5, <2>8, <3>2, <4>1
    <3> QED BY <3>1, <3>2
  <2>10. Contents' = Append(Contents, ch)
    <3>1. Contents'
          = [i \in 1 .. (Count + 1) |->
               IF i = Count + 1 THEN ch ELSE keyboard_buffer[Slot(i - 1)]]
      BY <2>7, <2>9
    <3>2. Append(Contents, ch)
          = [i \in 1 .. (Count + 1) |->
               IF i = Count + 1 THEN ch ELSE Contents[i]]
      <4>1. /\ Append(Contents, ch) \in Seq(Chars)
            /\ Len(Append(Contents, ch)) = Count + 1
            /\ \A i \in 1 .. Count : Append(Contents, ch)[i] = Contents[i]
            /\ Append(Contents, ch)[Count + 1] = ch
        BY <1>1, AppendProperties
      <4>2. Append(Contents, ch) \in [1 .. (Count + 1) -> Chars]
        BY <4>1, LenProperties
      <4>3. \A i \in 1 .. (Count + 1) :
               Append(Contents, ch)[i] = IF i = Count + 1 THEN ch ELSE Contents[i]
        BY <1>1, <4>1
      <4> QED BY <4>2, <4>3
    <3>3. \A i \in 1 .. (Count + 1) :
             i # Count + 1 => Contents[i] = keyboard_buffer[Slot(i - 1)]
      BY <1>1 DEF Contents
    <3> QED BY <3>1, <3>2, <3>3
  <2> QED BY <1>1, <1>4, <2>1, <2>10
<1> QED BY <1>3, <1>4

\* Advancing buffer_start takes the oldest key off the contents, and leaves
\* it in the slot that was passed.
LEMMA AdvanceTakes ==
    ASSUME IInv, ~is_buffer_empty, buffer_start' = succ(buffer_start),
           UNCHANGED <<keyboard_buffer, buffer_end>>
    PROVE  /\ Contents' = Tail(Contents)
           /\ Head(Contents) = keyboard_buffer[buffer_start]
           /\ Passed' = buffer_start
<1> USE KeyboardConstants
<1>1. /\ Count \in 0 .. (KEYBOARD_BUFFER_SIZE - 1)
      /\ Contents \in Seq(Chars)
      /\ Len(Contents) = Count
      /\ Contents # <<>>
  BY ContentsSeq
<1>2. succ(buffer_start)
      = IF buffer_start = KEYBOARD_BUFFER_SIZE - 1 THEN 0 ELSE buffer_start + 1
  BY SuccIs DEF IInv, TypeOK
<1>3. Count' = Count - 1 /\ Count > 0
  BY <1>2 DEF Count, is_buffer_empty, IInv, TypeOK, Slots
<1>4. \A i \in 0 .. (KEYBOARD_BUFFER_SIZE - 2) : Slot(i)' = Slot(i + 1)
  BY <1>2 DEF Slot, IInv, TypeOK, Slots
<1>5. Slot(0) = buffer_start
  BY DEF Slot, IInv, TypeOK, Slots
<1>6. Contents' = [i \in 1 .. (Count - 1) |-> keyboard_buffer[Slot(i)]]
  <2>1. Contents' = [i \in 1 .. (Count - 1) |-> keyboard_buffer[Slot(i - 1)']]
    BY <1>3 DEF Contents
  <2>2. \A i \in 1 .. (Count - 1) : Slot(i - 1)' = Slot(i)
    <3> SUFFICES ASSUME NEW i \in 1 .. (Count - 1)
                 PROVE  Slot(i - 1)' = Slot(i)
      OBVIOUS
    <3>1. i - 1 \in 0 .. (KEYBOARD_BUFFER_SIZE - 2) /\ (i - 1) + 1 = i
      BY <1>1
    <3> QED BY <1>4, <3>1
  <2> QED BY <2>1, <2>2
<1>7. Tail(Contents) = [i \in 1 .. (Count - 1) |-> Contents[i + 1]]
  <2>1. /\ Tail(Contents) \in Seq(Chars)
        /\ Len(Tail(Contents)) = Count - 1
        /\ \A i \in 1 .. (Count - 1) : Tail(Contents)[i] = Contents[i + 1]
    BY <1>1, HeadTailProperties
  <2>2. Tail(Contents) \in [1 .. (Count - 1) -> Chars]
    BY <2>1, LenProperties
  <2> QED BY <2>1, <2>2
<1>8. \A i \in 1 .. (Count - 1) : Contents[i + 1] = keyboard_buffer[Slot(i)]
  <2> SUFFICES ASSUME NEW i \in 1 .. (Count - 1)
               PROVE  Contents[i + 1] = keyboard_buffer[Slot(i)]
    OBVIOUS
  <2>1. i + 1 \in 1 .. Count /\ (i + 1) - 1 = i
    BY <1>1
  <2> QED BY <2>1 DEF Contents
<1>9. Head(Contents) = keyboard_buffer[buffer_start]
  <2>1. Head(Contents) = Contents[1] /\ 1 \in 1 .. Count /\ 1 - 1 = 0
    BY <1>1, <1>3
  <2> QED BY <1>5, <2>1 DEF Contents
<1>10. Passed' = buffer_start
  BY <1>2 DEF Passed, IInv, TypeOK, Slots
<1> QED BY <1>6, <1>7, <1>8, <1>9, <1>10

\* Every step of the driver presses, loses or takes a key of the queue, or
\* leaves it alone.
LEMMA StepRefines ==
    IInv /\ [Next]_vars => [Queue!Next]_<<Contents, presses, Taken>>
<1> SUFFICES ASSUME IInv, [Next]_vars
             PROVE  [Queue!Next]_<<Contents, presses, Taken>>
  OBVIOUS
<1> USE KeyboardConstants
<1>1. ASSUME NEW released \in BOOLEAN, NEW ch \in Chars,
             keyboard_handler(released, ch)
      PROVE  [Queue!Next]_<<Contents, presses, Taken>>
  <2>1. CASE released
    BY <1>1, <2>1 DEF keyboard_handler, Contents, Count, Slot, Taken, Passed
  <2>2. CASE ~released
    <3>0. /\ keyboard_buffer_put(ch)
          /\ presses' = 1 - presses
          /\ UNCHANGED <<buffer_start, pc, c, returned>>
      BY <1>1, <2>2 DEF keyboard_handler
    <3>1. Taken' = Taken
      <4>1. CASE is_buffer_full
        BY <3>0, <4>1 DEF keyboard_buffer_put, Taken, Passed
      <4>2. CASE ~is_buffer_full
        <5>1. succ(buffer_end)
              = IF buffer_end = KEYBOARD_BUFFER_SIZE - 1 THEN 0 ELSE buffer_end + 1
          BY SuccIs DEF IInv, TypeOK
        <5>2. buffer_end # Passed /\ Passed \in Slots
          BY <4>2, <5>1 DEF is_buffer_full, Passed, IInv, TypeOK, Slots
        <5>3. keyboard_buffer'[Passed] = keyboard_buffer[Passed]
          BY <3>0, <4>2, <5>2 DEF keyboard_buffer_put, IInv, TypeOK
        <5>4. Passed' = Passed
          BY <3>0 DEF Passed
        <5> QED BY <3>0, <5>3, <5>4 DEF Taken
      <4> QED BY <4>1, <4>2
    <3>2. IF is_buffer_full
          THEN Len(Contents) = KEYBOARD_BUFFER_SIZE - 1 /\ Contents' = Contents
          ELSE /\ Len(Contents) < KEYBOARD_BUFFER_SIZE - 1
               /\ Contents' = Append(Contents, ch)
      BY <3>0, PutAppends
    <3>3. Queue!Lose \/ Queue!Press(ch)
      BY <3>0, <3>1, <3>2 DEF Queue!Lose, Queue!Press
    <3> QED BY <3>3 DEF Queue!Next
  <2> QED BY <2>1, <2>2
<1>2. CASE getchar_ready
  BY <1>2 DEF getchar_ready, Contents, Count, Slot, Taken
<1>3. CASE getchar_read
  BY <1>3 DEF getchar_read, Contents, Count, Slot, Taken
<1>4. CASE getchar_advance
  <2>1. ~is_buffer_empty /\ c = keyboard_buffer[buffer_start]
    BY <1>4 DEF getchar_advance, IInv, ReadIsStable
  <2>2. Contents' = Tail(Contents) /\ Head(Contents) = keyboard_buffer[buffer_start]
    BY <1>4, <2>1, AdvanceTakes DEF getchar_advance
  <2>3. Taken' = Head(Contents) /\ UNCHANGED presses
    BY <1>4, <2>1, <2>2 DEF getchar_advance, Taken
  <2>4. Contents # <<>>
    BY <2>1, ContentsSeq
  <2> QED BY <2>2, <2>3, <2>4 DEF Queue!Take, Queue!Next
<1>5. CASE getchar_advance_first
  <2>1. ~is_buffer_empty
    BY <1>5 DEF getchar_advance_first, IInv, ReadIsStable
  <2>2. /\ Contents' = Tail(Contents)
        /\ Head(Contents) = keyboard_buffer[buffer_start]
        /\ Passed' = buffer_start
    BY <1>5, <2>1, AdvanceTakes DEF getchar_advance_first
  <2>3. Taken' = Head(Contents) /\ UNCHANGED presses
    BY <1>5, <2>2 DEF getchar_advance_first, Taken
  <2>4. Contents # <<>>
    BY <2>1, ContentsSeq
  <2> QED BY <2>2, <2>3, <2>4 DEF Queue!Take, Queue!Next
<1>6. CASE getchar_read_late
  BY <1>6 DEF getchar_read_late, Contents, Count, Slot, Taken
<1>7. CASE UNCHANGED vars
  BY <1>7 DEF vars, Contents, Count, Slot, Taken, Passed
<1> QED BY <1>1, <1>2, <1>3, <1>4, <1>5, <1>6, <1>7 DEF Next, keyboard_getchar

\* The ring of kb.c, with the interrupt between any two steps of the reader
\* and the reader's steps in either order, implements the queue the shell
\* relies on: first in first out, and no key lost before SIZE - 1 wait.
THEOREM RingIsQueue == Spec => ImplementsKeyQueue
<1>1. Init => Queue!Init
  <2> SUFFICES ASSUME Init PROVE Queue!Init
    OBVIOUS
  <2>1. IInv /\ is_buffer_empty
    BY InitIInv DEF Init, is_buffer_empty
  <2>2. Contents = <<>>
    BY <2>1, ContentsSeq
  <2> QED BY <2>2, KeyboardConstants DEF Init, Queue!Init, Taken
<1> QED BY <1>1, AlwaysIInv, StepRefines, PTL DEF Spec, ImplementsKeyQueue, Queue!Spec
=============================================================================
