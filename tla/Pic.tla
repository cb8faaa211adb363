-------------------------------- MODULE Pic --------------------------------
(***************************************************************************)
(* The two 8259 interrupt controllers, as irq.c uses them: chip 1 feeds    *)
(* the CPU, chip 2 feeds one line of chip 1.  A chip is                    *)
(*   icw      the initialisation word it waits for next, 0 when it works   *)
(*   offset   the vector of its line 0                                     *)
(*   link     the lines that have a chip behind them, or its own identity  *)
(*   imr, irr, isr   the lines that are masked, requested and in service   *)
(* Lower lines come first.  A line in service holds back itself and all    *)
(* lines after it until its EOI.                                           *)
(***************************************************************************)
EXTENDS Integers, FiniteSetsExt

CONSTANT LINES     \* lines of a chip (8)

Lines == 0 .. (LINES - 1)

BitsOf(byte) == {l \in Lines : (byte \div 2^l) % 2 = 1}

\* Commands: start of the initialisation, and the end of an interrupt.
ICW1 == 17
EOI == 32

\* Chip 2 hangs on line 2 of chip 1, the only bit of the byte 4.
ASSUME PicConstants == LINES \in Nat /\ LINES >= 3 /\ BitsOf(4) = {2}

\* A byte written to the command port.
pic_command(p, byte) ==
    IF byte = ICW1
    THEN [p EXCEPT !.icw = 2, !.imr = {}, !.irr = {}, !.isr = {}]
    ELSE [p EXCEPT !.isr = IF @ = {} THEN {} ELSE @ \ {Min(@)}]

\* A byte written to the data port: what it means depends on the chip's state.
pic_data(p, byte) ==
    CASE p.icw = 2 -> [p EXCEPT !.offset = byte, !.icw = 3]
      [] p.icw = 3 -> [p EXCEPT !.link = byte, !.icw = 4]
      [] p.icw = 4 -> [p EXCEPT !.icw = 0]
      [] p.icw = 0 -> [p EXCEPT !.imr = BitsOf(byte)]

\* The requests of a chip that can be served, given the lines requested.
Servable(p, requested) ==
    {l \in requested \ p.imr : p.icw = 0 /\ \A m \in p.isr : l < m}

\* Chip 2 asks on the line of chip 1 that has its identity.
Pending2(pic) == Servable(pic[2], pic[2].irr)
Pending1(pic) ==
    Servable(pic[1], pic[1].irr \cup
        {l \in BitsOf(pic[1].link) : l = pic[2].link /\ Pending2(pic) # {}})

\* The CPU acknowledges: the line served first, its vector, and the chips.
acknowledge(pic) ==
    LET l == Min(Pending1(pic))
        s == Min(Pending2(pic))
        take(c, line) ==
            [pic[c] EXCEPT !.irr = @ \ {line}, !.isr = @ \cup {line}]
    IN  IF l \in BitsOf(pic[1].link)
        THEN [irq    |-> LINES + s,
              vector |-> pic[2].offset + s,
              pic    |-> [pic EXCEPT ![1] = take(1, l), ![2] = take(2, s)]]
        ELSE [irq    |-> l,
              vector |-> pic[1].offset + l,
              pic    |-> [pic EXCEPT ![1] = take(1, l)]]

\* The request that made chip c ask is gone when the CPU acknowledges: the
\* chip answers with its last line, which does not come into service.
acknowledge_spurious(pic, c) ==
    [irq    |-> c * LINES - 1,
     vector |-> pic[c].offset + LINES - 1,
     pic    |-> IF c = 1 THEN pic
                ELSE [pic EXCEPT ![1].isr = @ \cup BitsOf(pic[1].link)]]
=============================================================================
