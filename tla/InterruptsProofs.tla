-------------------------- MODULE InterruptsProofs --------------------------
(***************************************************************************)
(* Boot and interrupts, for every number of lines, exceptions and vectors  *)
(* and every set of devices.  The invariant has one part for each group of *)
(* variables; the later parts rest on the earlier ones:                    *)
(*   Gates    the descriptor tables, by how far kernel_main is             *)
(*   Chips    the two controllers, by how far irq_remap is                 *)
(*   Serving  the interrupt that is being served                           *)
(*   Port     the serial chip, by how far serial_initialize is             *)
(***************************************************************************)
EXTENDS Interrupts, NaturalsInduction, WellFoundedInduction, TLAPS

-----------------------------------------------------------------------------
(* The descriptor tables.                                                  *)

\* The order of kernel_main.
BeforeIdt == {"check", "gdt", "idt"}
PCs == BeforeIdt \cup Installing \cup {"serial"} \cup AfterSerial

Vectors == 0 .. (VECTORS - 1)
IsrGate(v) == idt_set_descriptor(isr_stub_table[v], 8, 142)
IrqGate(n) == idt_set_descriptor(irq_stub_table[n], 8, 142)

\* irq_install has set the gate of line n.
Installed(n) == pc \in {"serial"} \cup AfterSerial \/ (pc = "gates" /\ n < k)

FlatCode == gdt_set_descriptor(<<0, 0>>, <<65535, 65535>>, 154, 207)

Gates ==
    /\ pc \in PCs /\ k \in Nat
    /\ DOMAIN gdt = 0 .. 2 /\ (pc \notin {"check", "gdt"} => gdt[1] = FlatCode)
    /\ pc = "isr" => k < EXCEPTIONS
    /\ pc = "gates" => k < 2 * LINES
    /\ pc \notin {"isr", "remap", "gates", "serial"} => k = 0
    /\ DOMAIN idt = Vectors
    /\ \A v \in 0 .. (EXCEPTIONS - 1) : idt[v] \in {NoGate, IsrGate(v)}
    /\ \A n \in Lines16 : idt[EXCEPTIONS + n] = IF Installed(n) THEN IrqGate(n) ELSE NoGate
    /\ \A v \in Vectors : v >= EXCEPTIONS + 2 * LINES => idt[v] = NoGate

\* The constants, one by one.
LEMMA Sizes ==
    /\ EXCEPTIONS \in Nat \ {0} /\ VECTORS \in Nat /\ BIOS1 \in Nat /\ BIOS2 \in Nat
    /\ LINES \in Nat /\ LINES >= 3 /\ EXCEPTIONS + 2 * LINES <= VECTORS
  BY PicConstants, InterruptConstants

\* The tables when the kernel starts.
LEMMA InitGates == Init => Gates
<1> SUFFICES ASSUME Init PROVE Gates
  OBVIOUS
<1>1. pc = "check" /\ k = 0 /\ DOMAIN gdt = 0 .. 2 /\ idt = [v \in Vectors |-> NoGate]
  BY DEF Init, Vectors
<1>2. \A n \in Lines16 : ~Installed(n) /\ EXCEPTIONS + n \in Vectors
  BY <1>1, Sizes DEF Installed, AfterSerial, Lines16, Vectors
<1>3. 0 .. (EXCEPTIONS - 1) \subseteq Vectors
  BY Sizes DEF Vectors
<1> QED BY <1>1, <1>2, <1>3 DEF Gates, PCs, BeforeIdt

\* Every step of kernel_main keeps the tables as far as it has got, and
\* nothing else touches them.
LEMMA NextGates == Gates /\ [Next]_vars => Gates'
<1> SUFFICES ASSUME Gates, [Next]_vars PROVE Gates'
  OBVIOUS
<1> USE Sizes
<1>1. CASE gdt_install
  <2>1. gdt'[1] = FlatCode /\ DOMAIN gdt' = 0 .. 2
    BY <1>1 DEF gdt_install, FlatCode
  <2> QED
    BY <1>1, <2>1 DEF gdt_install, Running, Gates, PCs, BeforeIdt, Installing,
       AfterSerial, Installed
<1>2. CASE idt_install
  <2>1. pc = "idt" /\ pc' = "isr" /\ k' = 0 /\ UNCHANGED gdt /\ idt' = [v \in Vectors |-> NoGate]
    BY <1>2 DEF idt_install, Running, Gates
  <2>2. \A n \in Lines16 : ~Installed(n)' /\ EXCEPTIONS + n \in Vectors
    BY <2>1 DEF Installed, AfterSerial, Lines16, Vectors
  <2>3. 0 .. (EXCEPTIONS - 1) \subseteq Vectors
    BY DEF Vectors
  <2> QED BY <2>1, <2>2, <2>3 DEF Gates, PCs, Installing
<1>3. CASE isr_install
  <2>1. /\ pc = "isr" /\ UNCHANGED gdt /\ k \in 0 .. (EXCEPTIONS - 1)
        /\ idt' = [idt EXCEPT ![k] = IsrGate(k)]
        /\ \/ k' = k + 1 /\ k + 1 < EXCEPTIONS /\ pc' = pc
           \/ k' = 0 /\ pc' = "remap"
    BY <1>3 DEF isr_install, Running, Gates, IsrGate
  <2>2. \A n \in Lines16 : ~Installed(n)' /\ ~Installed(n) /\ EXCEPTIONS + n \in Vectors
    BY <2>1 DEF Installed, AfterSerial, Lines16, Vectors
  <2> QED BY <2>1, <2>2 DEF Gates, PCs, Installing, Vectors, Lines16
<1>4. CASE irq_install_remap
  <2>1. /\ pc = "remap" /\ UNCHANGED <<gdt, idt>>
        /\ (k' = k + 1 /\ pc' = pc) \/ (k' = 0 /\ pc' = "gates")
    BY <1>4 DEF irq_install_remap, Running, tables
  <2>2. \A n \in Lines16 : ~Installed(n)' /\ ~Installed(n)
    BY <2>1 DEF Installed, AfterSerial, Lines16
  <2> QED BY <2>1, <2>2 DEF Gates, PCs, Installing
<1>5. CASE irq_install_gates
  BY <1>5 DEF irq_install_gates, Running, Gates, PCs, BeforeIdt, Installing, AfterSerial,
     Installed, Lines16, Vectors, IrqGate
<1>6. CASE initialize_serial
  BY <1>6 DEF initialize_serial, Running, Gates, PCs, BeforeIdt, Installing, AfterSerial,
     Installed, tables
<1>7. CASE \/ check \/ initialize_terminal \/ timer_install \/ keyboard_install
           \/ register_interrupt_handler \/ proc_initialize \/ start_shell
  BY <1>7 DEF check, panic, initialize_terminal, timer_install, keyboard_install,
     register_interrupt_handler, proc_initialize, start_shell, Running, Gates, PCs,
     BeforeIdt, Installing, AfterSerial, Installed, tables
<1>8. CASE UNCHANGED <<pc, k, tables>>
  BY <1>8 DEF tables, Gates, Installed
<1>9. CASE putchar_in_memory \/ putchar_in_registers \/ irq_handler \/ irq_return
           \/ exception_handler \/ interrupt
  BY <1>9, <1>8 DEF putchar_in_memory, putchar_in_registers, irq_handler, irq_return,
     exception_handler, interrupt, enter_gate
<1>10. CASE \/ \E n \in Devices : raise(n)
            \/ \E c \in {1, 2} : spurious_interrupt(c)
            \/ \E v \in Faults, code \in Codes \cup {0} : exception(v, code)
  BY <1>10, <1>8 DEF raise, spurious_interrupt, exception, enter_gate
<1>11. CASE UNCHANGED vars
  BY <1>11, <1>8 DEF vars
<1> QED BY <1>1, <1>2, <1>3, <1>4, <1>5, <1>6, <1>7, <1>9, <1>10, <1>11
        DEF Next, kernel_main, Service

-----------------------------------------------------------------------------
(* The interrupt controllers.                                              *)

Chip ==
    [icw : {0, 2, 3, 4}, offset : Nat, link : {2, 4},
     imr : SUBSET Lines, irr : SUBSET Lines, isr : SUBSET Lines]

\* The word each chip waits for after i bytes of irq_remap.
Icw1(i) == CASE i \in {1, 2} -> 2 [] i \in {3, 4} -> 3 [] i \in {5, 6} -> 4 [] OTHER -> 0
Icw2(i) == CASE i \in {2, 3} -> 2 [] i \in {4, 5} -> 3 [] i \in {6, 7} -> 4 [] OTHER -> 0

\* The chips after i bytes of irq_remap.
RemapAt(i) ==
    /\ pic[1].icw = Icw1(i) /\ pic[1].offset = IF i <= 2 THEN BIOS1 ELSE EXCEPTIONS
    /\ pic[2].icw = Icw2(i) /\ pic[2].offset = IF i <= 3 THEN BIOS2 ELSE EXCEPTIONS + LINES

\* No device is on the line of chip 1 that chip 2 uses.
Chips ==
    /\ pic \in [{1, 2} -> Chip]
    /\ pic[1].link = 4 /\ pic[2].link = 2
    /\ 2 \notin pic[1].irr
    /\ pc \in BeforeIdt \cup {"isr"} => RemapAt(0)
    /\ pc = "remap" => k \in 0 .. 9 /\ RemapAt(k)
    /\ pc \in {"gates", "serial"} \cup AfterSerial => RemapAt(10)

\* A set of lines that is not empty has a first one.
LEMMA FirstLine == ASSUME NEW S \in SUBSET Nat, S # {} PROVE Min(S) \in S
<1>1. IsWellFoundedOn(OpToRel(<, Nat), Nat)
  BY NatLessThanWellFounded
<1>2. PICK x \in S : \A y \in S : ~(<<y, x>> \in OpToRel(<, Nat))
  BY <1>1, WFMin
<1>3. \A y \in S : x <= y
  <2> SUFFICES ASSUME NEW y \in S, ~(x <= y) PROVE FALSE
    OBVIOUS
  <2>1. <<y, x>> \in Nat \X Nat /\ y < x
    OBVIOUS
  <2>2. <<y, x>> \in OpToRel(<, Nat)
    BY <2>1 DEF OpToRel
  <2> QED BY <2>2, <1>2
<1> QED BY <1>3 DEF Min

\* What the CPU is told when it acknowledges: a line of chip 1, or line 2 of
\* chip 1 together with a line of chip 2.
LEMMA Acknowledged ==
    ASSUME Chips, Pending1(pic) # {}
    PROVE  \/ \E l \in Lines \ {2} :
                 acknowledge(pic) =
                    [irq |-> l, vector |-> pic[1].offset + l,
                     pic |-> [pic EXCEPT ![1] =
                        [pic[1] EXCEPT !.irr = @ \ {l}, !.isr = @ \cup {l}]]]
           \/ \E s \in Lines :
                 /\ pic[2].icw = 0
                 /\ acknowledge(pic) =
                    [irq |-> LINES + s, vector |-> pic[2].offset + s,
                     pic |-> [pic EXCEPT
                        ![1] = [pic[1] EXCEPT !.irr = @ \ {2}, !.isr = @ \cup {2}],
                        ![2] = [pic[2] EXCEPT !.irr = @ \ {s}, !.isr = @ \cup {s}]]]
<1> DEFINE l == Min(Pending1(pic))
           s == Min(Pending2(pic))
<1>1. pic[1].link = 4 /\ pic[1].irr \subseteq Lines /\ pic[2].irr \subseteq Lines
  BY DEF Chips, Chip
<1>2. 2 \in Lines /\ Lines \subseteq Nat
  BY PicConstants DEF Lines
<1>3. Pending2(pic) \subseteq Lines /\ Pending1(pic) \subseteq Lines
  BY <1>1, <1>2, PicConstants DEF Pending1, Pending2, Servable
<1>4. l \in Pending1(pic) /\ l \in Lines
  BY <1>2, <1>3, FirstLine
<1>5. CASE l = 2
  <2>1. Pending2(pic) # {}
    BY <1>4, <1>5 DEF Pending1, Servable, Chips
  <2>2. s \in Pending2(pic) /\ s \in Lines
    BY <1>2, <1>3, <2>1, FirstLine
  <2>3. pic[2].icw = 0
    BY <2>2 DEF Pending2, Servable
  <2>4. l \in BitsOf(pic[1].link)
    BY <1>1, <1>5, PicConstants
  <2>5. acknowledge(pic) =
           [irq |-> LINES + s, vector |-> pic[2].offset + s,
            pic |-> [pic EXCEPT
               ![1] = [pic[1] EXCEPT !.irr = @ \ {2}, !.isr = @ \cup {2}],
               ![2] = [pic[2] EXCEPT !.irr = @ \ {s}, !.isr = @ \cup {s}]]]
    BY <2>4, <1>5, Zenon DEF acknowledge
  <2> QED BY <2>2, <2>3, <2>5
<1>6. CASE l # 2
  <2>1. l \notin BitsOf(pic[1].link)
    BY <1>1, <1>6, PicConstants
  <2>2. acknowledge(pic) =
           [irq |-> l, vector |-> pic[1].offset + l,
            pic |-> [pic EXCEPT ![1] =
               [pic[1] EXCEPT !.irr = @ \ {l}, !.isr = @ \cup {l}]]]
    BY <2>1, Zenon DEF acknowledge
  <2> QED BY <1>4, <1>6, <2>2
<1> QED BY <1>5, <1>6

\* The chips as the firmware leaves them.
LEMMA InitChips == Init => Chips
<1> SUFFICES ASSUME Init PROVE Chips
  OBVIOUS
<1>1. PICK imr \in {{}, Lines} :
         pic = [c \in {1, 2} |->
                  [icw |-> 0, offset |-> IF c = 1 THEN BIOS1 ELSE BIOS2,
                   link |-> IF c = 1 THEN 4 ELSE 2,
                   imr |-> imr, irr |-> {}, isr |-> {}]]
  BY DEF Init
<1>2. pic \in [{1, 2} -> Chip]
  BY <1>1, Sizes DEF Chip
<1>3. RemapAt(0)
  BY <1>1 DEF RemapAt, Icw1, Icw2
<1> QED BY <1>1, <1>2, <1>3 DEF Init, Chips, AfterSerial

\* Lines may come and go in irr and isr.
LEMMA ChipsKept ==
    ASSUME Gates, Chips, UNCHANGED <<pc, k>>, pic' \in [{1, 2} -> Chip],
           2 \notin pic'[1].irr,
           \A c \in {1, 2} : /\ pic'[c].link = pic[c].link /\ pic'[c].icw = pic[c].icw
                             /\ pic'[c].offset = pic[c].offset
    PROVE  Chips'
  BY DEF Chips, RemapAt

\* The bytes of irq_remap, each with what it is for a chip in that state.
LEMMA ChipWrites ==
    ASSUME NEW p \in Chip
    PROVE  /\ LET q == pic_command(p, ICW1)
              IN  /\ q \in Chip /\ q.icw = 2 /\ q.offset = p.offset /\ q.link = p.link
                  /\ q.irr = {} /\ q.isr = {}
           /\ \A byte \in Nat : p.icw = 2 =>
              LET q == pic_data(p, byte)
              IN  /\ q \in Chip /\ q.icw = 3 /\ q.offset = byte /\ q.link = p.link
                  /\ q.irr = p.irr /\ q.isr = p.isr
           /\ \A byte \in {2, 4} : p.icw = 3 =>
              LET q == pic_data(p, byte)
              IN  /\ q \in Chip /\ q.icw = 4 /\ q.offset = p.offset /\ q.link = byte
                  /\ q.irr = p.irr /\ q.isr = p.isr
           /\ \A byte \in Nat : p.icw = 4 =>
              LET q == pic_data(p, byte)
              IN  /\ q \in Chip /\ q.icw = 0 /\ q.offset = p.offset /\ q.link = p.link
                  /\ q.irr = p.irr /\ q.isr = p.isr
           /\ \A byte \in Nat : p.icw = 0 =>
              LET q == pic_data(p, byte)
              IN  /\ q \in Chip /\ q.icw = 0 /\ q.offset = p.offset /\ q.link = p.link
                  /\ q.irr = p.irr /\ q.isr = p.isr
<1>1. \A byte : BitsOf(byte) \in SUBSET Lines
  BY DEF BitsOf
<1>3. pic_command(p, ICW1) = [p EXCEPT !.icw = 2, !.imr = {}, !.irr = {}, !.isr = {}]
  BY DEF pic_command
<1>4. \A byte : p.icw = 2 => pic_data(p, byte) = [p EXCEPT !.offset = byte, !.icw = 3]
  BY DEF pic_data
<1>5. \A byte : p.icw = 3 => pic_data(p, byte) = [p EXCEPT !.link = byte, !.icw = 4]
  BY DEF pic_data
<1>6. \A byte : p.icw = 4 => pic_data(p, byte) = [p EXCEPT !.icw = 0]
  BY DEF pic_data
<1>7. \A byte : p.icw = 0 => pic_data(p, byte) = [p EXCEPT !.imr = BitsOf(byte)]
  BY DEF pic_data
<1>8. LET q == pic_command(p, ICW1)
      IN  /\ q \in Chip /\ q.icw = 2 /\ q.offset = p.offset /\ q.link = p.link
          /\ q.irr = {} /\ q.isr = {}
  BY <1>3 DEF Chip
<1>9. \A byte \in Nat : p.icw = 2 =>
        LET q == pic_data(p, byte)
        IN  /\ q \in Chip /\ q.icw = 3 /\ q.offset = byte /\ q.link = p.link
            /\ q.irr = p.irr /\ q.isr = p.isr
  <2> SUFFICES ASSUME NEW byte \in Nat, p.icw = 2
               PROVE  LET q == pic_data(p, byte)
                      IN  /\ q \in Chip /\ q.icw = 3 /\ q.offset = byte /\ q.link = p.link
                          /\ q.irr = p.irr /\ q.isr = p.isr
    OBVIOUS
  <2>1. pic_data(p, byte) = [p EXCEPT !.offset = byte, !.icw = 3]
    BY <1>4
  <2> QED BY <2>1 DEF Chip
<1>10. \A byte \in {2, 4} : p.icw = 3 =>
        LET q == pic_data(p, byte)
        IN  /\ q \in Chip /\ q.icw = 4 /\ q.offset = p.offset /\ q.link = byte
            /\ q.irr = p.irr /\ q.isr = p.isr
  <2> SUFFICES ASSUME NEW byte \in {2, 4}, p.icw = 3
               PROVE  LET q == pic_data(p, byte)
                      IN  /\ q \in Chip /\ q.icw = 4 /\ q.offset = p.offset /\ q.link = byte
                          /\ q.irr = p.irr /\ q.isr = p.isr
    OBVIOUS
  <2>1. pic_data(p, byte) = [p EXCEPT !.link = byte, !.icw = 4]
    BY <1>5
  <2> QED BY <2>1 DEF Chip
<1>11. \A byte \in Nat : p.icw = 4 =>
        LET q == pic_data(p, byte)
        IN  /\ q \in Chip /\ q.icw = 0 /\ q.offset = p.offset /\ q.link = p.link
            /\ q.irr = p.irr /\ q.isr = p.isr
  BY <1>6 DEF Chip
<1>12. \A byte \in Nat : p.icw = 0 =>
        LET q == pic_data(p, byte)
        IN  /\ q \in Chip /\ q.icw = 0 /\ q.offset = p.offset /\ q.link = p.link
            /\ q.irr = p.irr /\ q.isr = p.isr
  BY <1>1, <1>7 DEF Chip
<1> QED BY <1>8, <1>9, <1>10, <1>11, <1>12

\* irq_remap: the word each byte is depends on the chip's state.
LEMMA RemapChips == ASSUME Chips, irq_install_remap PROVE Chips'
<1> USE Sizes
<1>1. k \in 0 .. 9 /\ RemapAt(k) /\ pc = "remap"
  BY DEF Chips, irq_install_remap, Running
<1>2. Len(irq_remap) = 10
  BY DEF irq_remap
<1>3. /\ k < 9 => pc' = "remap" /\ k' = k + 1
      /\ k = 9 => pc' = "gates" /\ k' = 0
  BY <1>1, <1>2 DEF irq_install_remap
<1>4. ASSUME NEW i \in 0 .. 9, k = i
      PROVE  /\ pic' \in [{1, 2} -> Chip]
             /\ pic'[1].link = 4 /\ pic'[2].link = 2
             /\ 2 \notin pic'[1].irr
             /\ RemapAt(i + 1)'
  <2> DEFINE out == irq_remap[i + 1]
             c == out[1]
  <2>1. pic' = [pic EXCEPT ![c] = IF out[2] = "command" THEN pic_command(pic[c], out[3])
                                  ELSE pic_data(pic[c], out[3])]
    BY <1>4 DEF irq_install_remap
  <2>2. /\ pic[1] \in Chip /\ pic[2] \in Chip /\ pic \in [{1, 2} -> Chip]
        /\ pic[1].link = 4 /\ pic[2].link = 2 /\ 2 \notin pic[1].irr
    BY DEF Chips
  <2>3. CASE i = 0
    <3>1. irq_remap[i + 1] = <<1, "command", ICW1>>
      BY <2>3 DEF irq_remap
    <3>2. pic' = [pic EXCEPT ![1] = pic_command(pic[1], ICW1)]
      BY <2>1, <3>1
    <3>3. pic[1].icw = 0
      BY <2>3, <1>1, <1>4 DEF RemapAt, Icw1, Icw2
    <3> DEFINE q == pic_command(pic[1], ICW1)
    <3>4. /\ q \in Chip /\ q.icw = 2 /\ q.offset = pic[1].offset
          /\ q.link = pic[1].link /\ q.irr = {}
      BY <2>2, <3>3, ChipWrites
    <3>5. pic' = [pic EXCEPT ![1] = q]
      BY <3>2
    <3> HIDE DEF q
    <3> QED BY <1>1, <1>4, <2>3, <2>2, <3>5, <3>4 DEF RemapAt, Icw1, Icw2
  <2>4. CASE i = 1
    <3>1. irq_remap[i + 1] = <<2, "command", ICW1>>
      BY <2>4 DEF irq_remap
    <3>2. pic' = [pic EXCEPT ![2] = pic_command(pic[2], ICW1)]
      BY <2>1, <3>1
    <3>3. pic[2].icw = 0
      BY <2>4, <1>1, <1>4 DEF RemapAt, Icw1, Icw2
    <3> DEFINE q == pic_command(pic[2], ICW1)
    <3>4. /\ q \in Chip /\ q.icw = 2 /\ q.offset = pic[2].offset
          /\ q.link = pic[2].link /\ q.irr = {}
      BY <2>2, <3>3, ChipWrites
    <3>5. pic' = [pic EXCEPT ![2] = q]
      BY <3>2
    <3> HIDE DEF q
    <3> QED BY <1>1, <1>4, <2>4, <2>2, <3>5, <3>4 DEF RemapAt, Icw1, Icw2
  <2>5. CASE i = 2
    <3>1. irq_remap[i + 1] = <<1, "data", EXCEPTIONS>>
      BY <2>5 DEF irq_remap
    <3>2. pic' = [pic EXCEPT ![1] = pic_data(pic[1], EXCEPTIONS)]
      BY <2>1, <3>1
    <3>3. pic[1].icw = 2
      BY <2>5, <1>1, <1>4 DEF RemapAt, Icw1, Icw2
    <3> DEFINE q == pic_data(pic[1], EXCEPTIONS)
    <3>4. /\ q \in Chip /\ q.icw = 3 /\ q.offset = EXCEPTIONS
          /\ q.link = pic[1].link /\ q.irr = pic[1].irr
      BY <2>2, <3>3, ChipWrites
    <3>5. pic' = [pic EXCEPT ![1] = q]
      BY <3>2
    <3> HIDE DEF q
    <3> QED BY <1>1, <1>4, <2>5, <2>2, <3>5, <3>4 DEF RemapAt, Icw1, Icw2
  <2>6. CASE i = 3
    <3>1. irq_remap[i + 1] = <<2, "data", EXCEPTIONS + LINES>>
      BY <2>6 DEF irq_remap
    <3>2. pic' = [pic EXCEPT ![2] = pic_data(pic[2], EXCEPTIONS + LINES)]
      BY <2>1, <3>1
    <3>3. pic[2].icw = 2
      BY <2>6, <1>1, <1>4 DEF RemapAt, Icw1, Icw2
    <3> DEFINE q == pic_data(pic[2], EXCEPTIONS + LINES)
    <3>4. /\ q \in Chip /\ q.icw = 3 /\ q.offset = EXCEPTIONS + LINES
          /\ q.link = pic[2].link /\ q.irr = pic[2].irr
      BY <2>2, <3>3, ChipWrites
    <3>5. pic' = [pic EXCEPT ![2] = q]
      BY <3>2
    <3> HIDE DEF q
    <3> QED BY <1>1, <1>4, <2>6, <2>2, <3>5, <3>4 DEF RemapAt, Icw1, Icw2
  <2>7. CASE i = 4
    <3>1. irq_remap[i + 1] = <<1, "data", 4>>
      BY <2>7 DEF irq_remap
    <3>2. pic' = [pic EXCEPT ![1] = pic_data(pic[1], 4)]
      BY <2>1, <3>1
    <3>3. pic[1].icw = 3
      BY <2>7, <1>1, <1>4 DEF RemapAt, Icw1, Icw2
    <3> DEFINE q == pic_data(pic[1], 4)
    <3>4. /\ q \in Chip /\ q.icw = 4 /\ q.offset = pic[1].offset
          /\ q.link = 4 /\ q.irr = pic[1].irr
      BY <2>2, <3>3, ChipWrites
    <3>5. pic' = [pic EXCEPT ![1] = q]
      BY <3>2
    <3> HIDE DEF q
    <3> QED BY <1>1, <1>4, <2>7, <2>2, <3>5, <3>4 DEF RemapAt, Icw1, Icw2
  <2>8. CASE i = 5
    <3>1. irq_remap[i + 1] = <<2, "data", 2>>
      BY <2>8 DEF irq_remap
    <3>2. pic' = [pic EXCEPT ![2] = pic_data(pic[2], 2)]
      BY <2>1, <3>1
    <3>3. pic[2].icw = 3
      BY <2>8, <1>1, <1>4 DEF RemapAt, Icw1, Icw2
    <3> DEFINE q == pic_data(pic[2], 2)
    <3>4. /\ q \in Chip /\ q.icw = 4 /\ q.offset = pic[2].offset
          /\ q.link = 2 /\ q.irr = pic[2].irr
      BY <2>2, <3>3, ChipWrites
    <3>5. pic' = [pic EXCEPT ![2] = q]
      BY <3>2
    <3> HIDE DEF q
    <3> QED BY <1>1, <1>4, <2>8, <2>2, <3>5, <3>4 DEF RemapAt, Icw1, Icw2
  <2>9. CASE i = 6
    <3>1. irq_remap[i + 1] = <<1, "data", 1>>
      BY <2>9 DEF irq_remap
    <3>2. pic' = [pic EXCEPT ![1] = pic_data(pic[1], 1)]
      BY <2>1, <3>1
    <3>3. pic[1].icw = 4
      BY <2>9, <1>1, <1>4 DEF RemapAt, Icw1, Icw2
    <3> DEFINE q == pic_data(pic[1], 1)
    <3>4. /\ q \in Chip /\ q.icw = 0 /\ q.offset = pic[1].offset
          /\ q.link = pic[1].link /\ q.irr = pic[1].irr
      BY <2>2, <3>3, ChipWrites
    <3>5. pic' = [pic EXCEPT ![1] = q]
      BY <3>2
    <3> HIDE DEF q
    <3> QED BY <1>1, <1>4, <2>9, <2>2, <3>5, <3>4 DEF RemapAt, Icw1, Icw2
  <2>10. CASE i = 7
    <3>1. irq_remap[i + 1] = <<2, "data", 1>>
      BY <2>10 DEF irq_remap
    <3>2. pic' = [pic EXCEPT ![2] = pic_data(pic[2], 1)]
      BY <2>1, <3>1
    <3>3. pic[2].icw = 4
      BY <2>10, <1>1, <1>4 DEF RemapAt, Icw1, Icw2
    <3> DEFINE q == pic_data(pic[2], 1)
    <3>4. /\ q \in Chip /\ q.icw = 0 /\ q.offset = pic[2].offset
          /\ q.link = pic[2].link /\ q.irr = pic[2].irr
      BY <2>2, <3>3, ChipWrites
    <3>5. pic' = [pic EXCEPT ![2] = q]
      BY <3>2
    <3> HIDE DEF q
    <3> QED BY <1>1, <1>4, <2>10, <2>2, <3>5, <3>4 DEF RemapAt, Icw1, Icw2
  <2>11. CASE i = 8
    <3>1. irq_remap[i + 1] = <<1, "data", 0>>
      BY <2>11 DEF irq_remap
    <3>2. pic' = [pic EXCEPT ![1] = pic_data(pic[1], 0)]
      BY <2>1, <3>1
    <3>3. pic[1].icw = 0
      BY <2>11, <1>1, <1>4 DEF RemapAt, Icw1, Icw2
    <3> DEFINE q == pic_data(pic[1], 0)
    <3>4. /\ q \in Chip /\ q.icw = 0 /\ q.offset = pic[1].offset
          /\ q.link = pic[1].link /\ q.irr = pic[1].irr
      BY <2>2, <3>3, ChipWrites
    <3>5. pic' = [pic EXCEPT ![1] = q]
      BY <3>2
    <3> HIDE DEF q
    <3> QED BY <1>1, <1>4, <2>11, <2>2, <3>5, <3>4 DEF RemapAt, Icw1, Icw2
  <2>12. CASE i = 9
    <3>1. irq_remap[i + 1] = <<2, "data", 0>>
      BY <2>12 DEF irq_remap
    <3>2. pic' = [pic EXCEPT ![2] = pic_data(pic[2], 0)]
      BY <2>1, <3>1
    <3>3. pic[2].icw = 0
      BY <2>12, <1>1, <1>4 DEF RemapAt, Icw1, Icw2
    <3> DEFINE q == pic_data(pic[2], 0)
    <3>4. /\ q \in Chip /\ q.icw = 0 /\ q.offset = pic[2].offset
          /\ q.link = pic[2].link /\ q.irr = pic[2].irr
      BY <2>2, <3>3, ChipWrites
    <3>5. pic' = [pic EXCEPT ![2] = q]
      BY <3>2
    <3> HIDE DEF q
    <3> QED BY <1>1, <1>4, <2>12, <2>2, <3>5, <3>4 DEF RemapAt, Icw1, Icw2
  <2> QED BY <2>3, <2>4, <2>5, <2>6, <2>7, <2>8, <2>9, <2>10, <2>11, <2>12
<1> QED BY <1>1, <1>3, <1>4 DEF Chips, BeforeIdt, AfterSerial

\* Every step keeps the chips as far as irq_remap has got.
LEMMA NextChips == Gates /\ Chips /\ [Next]_vars => Chips'
<1> SUFFICES ASSUME Gates, Chips, [Next]_vars PROVE Chips'
  OBVIOUS
<1> USE Sizes
<1>1. CASE irq_install_remap
  BY <1>1, RemapChips
<1>2. CASE isr_install \/ irq_install_gates \/ initialize_serial
  BY <1>2 DEF isr_install, irq_install_gates, initialize_serial, Running, Chips,
     BeforeIdt, AfterSerial, RemapAt
<1>3. CASE \/ check \/ gdt_install \/ idt_install \/ initialize_terminal
           \/ timer_install \/ keyboard_install \/ register_interrupt_handler
           \/ proc_initialize \/ start_shell
  BY <1>3 DEF check, panic, gdt_install, idt_install, initialize_terminal, timer_install,
     keyboard_install, register_interrupt_handler, proc_initialize, start_shell, Running,
     Chips, BeforeIdt, AfterSerial, RemapAt
<1>4. CASE UNCHANGED <<pc, k, pic>>
  BY <1>4 DEF Chips, RemapAt
<1>5. CASE putchar_in_memory \/ putchar_in_registers \/ irq_return \/ exception_handler
  BY <1>5, <1>4 DEF putchar_in_memory, putchar_in_registers, irq_return, exception_handler
<1>6. CASE irq_handler
  <2>1. UNCHANGED <<pc, k>> /\ pic' = send_eoi(frame.int_no)
    BY <1>6 DEF irq_handler
  <2>2. ASSUME NEW p \in Chip
        PROVE  /\ pic_command(p, EOI) \in Chip
               /\ pic_command(p, EOI).irr = p.irr /\ pic_command(p, EOI).icw = p.icw
               /\ pic_command(p, EOI).link = p.link
               /\ pic_command(p, EOI).offset = p.offset
    BY DEF pic_command, EOI, ICW1, Chip
  <2> QED BY <2>1, <2>2, ChipsKept DEF send_eoi, Chips
<1>7. CASE interrupt
  <2>1. UNCHANGED <<pc, k>> /\ pic' = acknowledge(pic).pic /\ Pending1(pic) # {}
    BY <1>7 DEF interrupt, enter_gate
  <2>2. 2 \in Lines
    BY PicConstants DEF Lines
  <2>3. ASSUME NEW p \in Chip, NEW l \in Lines
        PROVE  LET q == [p EXCEPT !.irr = @ \ {l}, !.isr = @ \cup {l}]
               IN  /\ q \in Chip /\ q.irr \subseteq p.irr /\ q.link = p.link
                   /\ q.icw = p.icw /\ q.offset = p.offset
    BY DEF Chip
  <2>4. pic[1] \in Chip /\ pic[2] \in Chip /\ pic \in [{1, 2} -> Chip] /\ 2 \notin pic[1].irr
    BY DEF Chips
  <2>5. ASSUME NEW l \in Lines,
               pic' = [pic EXCEPT ![1] = [pic[1] EXCEPT !.irr = @ \ {l}, !.isr = @ \cup {l}]]
        PROVE  Chips'
    <3> DEFINE q == [pic[1] EXCEPT !.irr = @ \ {l}, !.isr = @ \cup {l}]
    <3>1. /\ q \in Chip /\ q.irr \subseteq pic[1].irr /\ q.link = pic[1].link
          /\ q.icw = pic[1].icw /\ q.offset = pic[1].offset
      BY <2>3, <2>4
    <3>2. pic' = [pic EXCEPT ![1] = q]
      BY <2>5
    <3> HIDE DEF q
    <3> QED BY <2>1, <2>4, <3>1, <3>2, ChipsKept
  <2>6. ASSUME NEW s \in Lines,
               pic' = [pic EXCEPT
                  ![1] = [pic[1] EXCEPT !.irr = @ \ {2}, !.isr = @ \cup {2}],
                  ![2] = [pic[2] EXCEPT !.irr = @ \ {s}, !.isr = @ \cup {s}]]
        PROVE  Chips'
    <3> DEFINE q == [pic[1] EXCEPT !.irr = @ \ {2}, !.isr = @ \cup {2}]
               r == [pic[2] EXCEPT !.irr = @ \ {s}, !.isr = @ \cup {s}]
    <3>1. /\ q \in Chip /\ q.irr \subseteq pic[1].irr /\ q.link = pic[1].link
          /\ q.icw = pic[1].icw /\ q.offset = pic[1].offset
      BY <2>2, <2>3, <2>4
    <3>2. /\ r \in Chip /\ r.link = pic[2].link
          /\ r.icw = pic[2].icw /\ r.offset = pic[2].offset
      BY <2>3, <2>4
    <3>3. pic' = [pic EXCEPT ![1] = q, ![2] = r]
      BY <2>6
    <3> HIDE DEF q, r
    <3> QED BY <2>1, <2>4, <3>1, <3>2, <3>3, ChipsKept
  <2>7. CASE \E l \in Lines \ {2} :
               acknowledge(pic) =
                  [irq |-> l, vector |-> pic[1].offset + l,
                   pic |-> [pic EXCEPT ![1] =
                      [pic[1] EXCEPT !.irr = @ \ {l}, !.isr = @ \cup {l}]]]
    <3>1. PICK l \in Lines \ {2} :
               acknowledge(pic) =
                  [irq |-> l, vector |-> pic[1].offset + l,
                   pic |-> [pic EXCEPT ![1] =
                      [pic[1] EXCEPT !.irr = @ \ {l}, !.isr = @ \cup {l}]]]
      BY <2>7
    <3>2. acknowledge(pic).pic =
             [pic EXCEPT ![1] = [pic[1] EXCEPT !.irr = @ \ {l}, !.isr = @ \cup {l}]]
      BY <3>1
    <3> QED BY <2>1, <2>5, <3>2, Zenon
  <2>8. CASE \E s \in Lines :
               /\ pic[2].icw = 0
               /\ acknowledge(pic) =
                  [irq |-> LINES + s, vector |-> pic[2].offset + s,
                   pic |-> [pic EXCEPT
                      ![1] = [pic[1] EXCEPT !.irr = @ \ {2}, !.isr = @ \cup {2}],
                      ![2] = [pic[2] EXCEPT !.irr = @ \ {s}, !.isr = @ \cup {s}]]]
    <3>1. PICK s \in Lines :
               acknowledge(pic) =
                  [irq |-> LINES + s, vector |-> pic[2].offset + s,
                   pic |-> [pic EXCEPT
                      ![1] = [pic[1] EXCEPT !.irr = @ \ {2}, !.isr = @ \cup {2}],
                      ![2] = [pic[2] EXCEPT !.irr = @ \ {s}, !.isr = @ \cup {s}]]]
      BY <2>8
    <3>2. acknowledge(pic).pic =
             [pic EXCEPT
                ![1] = [pic[1] EXCEPT !.irr = @ \ {2}, !.isr = @ \cup {2}],
                ![2] = [pic[2] EXCEPT !.irr = @ \ {s}, !.isr = @ \cup {s}]]
      BY <3>1
    <3> QED BY <2>1, <2>6, <3>2, Zenon
  <2> QED BY <2>1, <2>7, <2>8, Acknowledged
<1>8. ASSUME NEW c \in {1, 2}, spurious_interrupt(c) PROVE Chips'
  <2>1. UNCHANGED <<pc, k>> /\ pic' = acknowledge_spurious(pic, c).pic
    BY <1>8 DEF spurious_interrupt, enter_gate
  <2>2. \/ pic' = pic
        \/ pic' = [pic EXCEPT ![1] = [pic[1] EXCEPT !.isr = @ \cup {2}]]
    BY <2>1, PicConstants DEF acknowledge_spurious, Chips
  <2>3. 2 \in Lines
    BY PicConstants DEF Lines
  <2> DEFINE q == [pic[1] EXCEPT !.isr = @ \cup {2}]
  <2>4. /\ q \in Chip /\ q.irr = pic[1].irr /\ q.link = pic[1].link
        /\ q.icw = pic[1].icw /\ q.offset = pic[1].offset
    BY <2>3 DEF Chips, Chip
  <2>5. \/ pic' = pic
        \/ pic' = [pic EXCEPT ![1] = q]
    BY <2>2
  <2> HIDE DEF q
  <2>6. CASE pic' = pic
    BY <2>1, <2>6, <1>4
  <2>7. CASE pic' = [pic EXCEPT ![1] = q]
    BY <2>1, <2>4, <2>7, ChipsKept DEF Chips
  <2> QED BY <2>5, <2>6, <2>7
<1>9. ASSUME NEW n \in Devices, raise(n) PROVE Chips'
  <2>1. n \in 0 .. (2 * LINES - 1) /\ n # 2
    BY InterruptConstants
  <2>2. \/ n \div LINES = 0 /\ n % LINES = n /\ n < LINES
        \/ n \div LINES = 1 /\ n % LINES = n - LINES /\ n >= LINES
    BY <2>1
  <2> QED BY <1>9, <2>1, <2>2, ChipsKept DEF raise, Chips, Chip, Lines
<1>10. CASE \E v \in Faults, code \in Codes \cup {0} : exception(v, code)
  BY <1>10, <1>4 DEF exception, enter_gate
<1>11. CASE UNCHANGED vars
  BY <1>11, <1>4 DEF vars
<1> QED BY <1>1, <1>2, <1>3, <1>5, <1>6, <1>7, <1>8, <1>9, <1>10, <1>11
        DEF Next, kernel_main, Service

-----------------------------------------------------------------------------
(* The interrupt that is being served.                                     *)

Serving ==
    /\ frame \in Frames \cup {NULL}
    /\ irq_routines \in [Lines16 -> Handlers]
    /\ interrupt_handlers \in [Vectors -> Handlers]
    /\ pc \in BeforeIdt => frame = NULL /\ ~intr
    /\ frame # NULL =>
          /\ frame.kind = "irq" => frame.line \in Lines16 /\ frame.int_no = EXCEPTIONS + frame.line
          /\ frame.kind = "isr" => frame.int_no \in 0 .. (EXCEPTIONS - 1)
          /\ frame.kind = "none" => status # "ok"
          /\ frame.phase = "done" => frame.kind = "irq"
          /\ frame.line # NULL /\ pc \notin Installing => frame.kind = "irq"

\* The CPU can use the gates that are set, and no others.
LEMMA UsableGates ==
    ASSUME Gates, pc \notin BeforeIdt
    PROVE  /\ ~Usable(NoGate)
           /\ \A v \in 0 .. (EXCEPTIONS - 1) :
                 Usable(IsrGate(v)) /\ Address(IsrGate(v)) = <<0, 4 * v>>
           /\ \A n \in Lines16 :
                 Usable(IrqGate(n)) /\ Address(IrqGate(n)) = <<1, 4 * n>>
<1>1. DOMAIN gdt = 0 .. 2 /\ gdt[1] = FlatCode
  BY DEF Gates, BeforeIdt
<1>2. /\ FlatCode.access = 154 /\ FlatCode.limit_low = 65535 /\ FlatCode.granularity = 207
      /\ FlatCode.base_low = 0 /\ FlatCode.base_middle = 0 /\ FlatCode.base_high = 0
  BY DEF FlatCode, gdt_set_descriptor
<1>3. 8 \div 8 = 1 /\ 1 \in 0 .. 2
  OBVIOUS
<1>4. ~Usable(NoGate)
  BY DEF Usable, NoGate
<1>5. ASSUME NEW base PROVE Usable(idt_set_descriptor(base, 8, 142))
  BY <1>1, <1>2, <1>3 DEF Usable, idt_set_descriptor
<1>6. ASSUME NEW a, NEW b PROVE Address(idt_set_descriptor(<<a, b>>, 8, 142)) = <<a, b>>
  BY DEF Address, idt_set_descriptor
<1> QED BY <1>4, <1>5, <1>6 DEF IsrGate, IrqGate, isr_stub_table, irq_stub_table

\* What comes of going through a gate.
LEMMA EnterGate ==
    ASSUME Gates, pc \notin BeforeIdt,
           NEW vector \in Vectors, NEW line \in Lines16 \cup {NULL},
           NEW spurious \in BOOLEAN, NEW code \in Codes \cup {0},
           enter_gate(vector, line, spurious, code)
    PROVE  /\ frame' \in Frames
           /\ frame'.line = line /\ frame'.spurious = spurious /\ frame'.phase = "stub"
           /\ \/ frame'.kind = "none" /\ status' # "ok" /\ idt[vector] = NoGate
              \/ frame'.kind = "isr" /\ status' = status /\ vector < EXCEPTIONS
                 /\ frame'.int_no \in 0 .. (EXCEPTIONS - 1)
              \/ frame'.kind = "irq" /\ status' = status /\ frame'.int_no = vector
                 /\ \E n \in Lines16 : vector = EXCEPTIONS + n /\ Installed(n)
<1> USE Sizes
<1> DEFINE seen(kind, no) == [line |-> line, spurious |-> spurious, code |-> code,
                              kind |-> kind, int_no |-> no, err_code |-> 0,
                              phase |-> "stub", routine |-> NULL]
           gate == idt[vector]
<1>1. \/ Usable(gate) /\ status' = status
         /\ \/ \E v \in 0 .. (EXCEPTIONS - 1) :
                 <<0, 4 * v>> = Address(gate) /\ frame' = seen("isr", v)
            \/ \E n \in Lines16 :
                 <<1, 4 * n>> = Address(gate) /\ frame' = seen("irq", n + EXCEPTIONS)
      \/ ~Usable(gate) /\ frame' = seen("none", NULL) /\ status' = "reset"
  BY DEF enter_gate, isr_stub_table, irq_stub_table
<1>2. \A kind \in {"isr", "irq", "none"} : \A no \in Vectors \cup {NULL} :
         seen(kind, no) \in Frames
  BY DEF Frames, Handlers, Vectors
<1>3. CASE gate = NoGate
  BY <1>1, <1>2, <1>3, UsableGates
<1>4. CASE vector < EXCEPTIONS /\ gate = IsrGate(vector)
  <2>1. vector \in 0 .. (EXCEPTIONS - 1)
    BY <1>4 DEF Vectors
  <2>2. PICK v \in 0 .. (EXCEPTIONS - 1) : status' = status /\ frame' = seen("isr", v)
    BY <1>1, <1>4, <2>1, UsableGates
  <2>3. v \in Vectors
    BY DEF Vectors
  <2>4. frame' \in Frames
    BY <1>2, <2>2, <2>3
  <2> QED BY <1>4, <2>2, <2>4
<1>5. ASSUME NEW n \in Lines16, vector = EXCEPTIONS + n, gate = IrqGate(n)
      PROVE  /\ frame' \in Frames
             /\ frame'.line = line /\ frame'.spurious = spurious /\ frame'.phase = "stub"
             /\ frame'.kind = "irq" /\ status' = status /\ frame'.int_no = vector
  <2>1. PICK m \in Lines16 : <<1, 4 * m>> = <<1, 4 * n>> /\ status' = status
                             /\ frame' = seen("irq", m + EXCEPTIONS)
    BY <1>1, <1>5, UsableGates
  <2>2. m = n
    BY <2>1 DEF Lines16
  <2>3. m + EXCEPTIONS = vector
    BY <2>2, <1>5 DEF Lines16
  <2>4. frame' = seen("irq", vector)
    BY <2>1, <2>3
  <2>5. frame' \in Frames
    BY <1>2, <2>4
  <2> QED BY <2>1, <2>4, <2>5
<1>6. \/ gate = NoGate
      \/ vector < EXCEPTIONS /\ gate = IsrGate(vector)
      \/ \E n \in Lines16 : vector = EXCEPTIONS + n /\ gate = IrqGate(n) /\ Installed(n)
  <2>1. CASE vector < EXCEPTIONS
    BY <2>1 DEF Gates, Vectors
  <2>2. CASE vector >= EXCEPTIONS /\ vector < EXCEPTIONS + 2 * LINES
    <3>1. vector - EXCEPTIONS \in Lines16 /\ vector = EXCEPTIONS + (vector - EXCEPTIONS)
      BY <2>2 DEF Vectors, Lines16
    <3> QED BY <3>1 DEF Gates
  <2>3. CASE vector >= EXCEPTIONS + 2 * LINES
    BY <2>3 DEF Gates
  <2> QED BY <2>1, <2>2, <2>3 DEF Vectors
<1> QED BY <1>3, <1>4, <1>5, <1>6

\* The gate of a line of a device: before irq_install is done it may belong
\* to an exception or to nobody, afterwards it is the line's own.
LEMMA DeviceGate ==
    ASSUME Gates, Chips, pc \notin BeforeIdt,
           NEW line \in Lines16, NEW vector, NEW spurious \in BOOLEAN,
           vector = IF line < LINES THEN pic[1].offset + line
                    ELSE pic[2].offset + (line - LINES),
           enter_gate(vector, line, spurious, 0)
    PROVE  /\ frame' \in Frames /\ frame' # NULL
           /\ frame'.line = line /\ frame'.spurious = spurious /\ frame'.phase = "stub"
           /\ frame'.kind = "irq" => frame'.int_no = EXCEPTIONS + line
           /\ frame'.kind = "isr" => frame'.int_no \in 0 .. (EXCEPTIONS - 1)
           /\ frame'.kind = "none" => status' # "ok"
           /\ pc \notin Installing => frame'.kind = "irq"
<1> USE Sizes
<1>1. /\ BIOS1 + LINES <= VECTORS /\ BIOS2 + LINES <= VECTORS
  BY InterruptConstants
<1>2. /\ pc \in {"isr", "remap"} => /\ pic[1].offset \in {BIOS1, EXCEPTIONS}
                                   /\ pic[2].offset \in {BIOS2, EXCEPTIONS + LINES}
      /\ pc \notin {"isr", "remap"} => /\ pic[1].offset = EXCEPTIONS
                                      /\ pic[2].offset = EXCEPTIONS + LINES
  BY DEF Chips, RemapAt, Gates, PCs, Installing, BeforeIdt, AfterSerial
<1>3. vector \in Vectors
  BY <1>1, <1>2 DEF Vectors, Lines16
<1>4. /\ frame' \in Frames
      /\ frame'.line = line /\ frame'.spurious = spurious /\ frame'.phase = "stub"
      /\ \/ frame'.kind = "none" /\ status' # "ok" /\ idt[vector] = NoGate
         \/ frame'.kind = "isr" /\ status' = status /\ vector < EXCEPTIONS
            /\ frame'.int_no \in 0 .. (EXCEPTIONS - 1)
         \/ frame'.kind = "irq" /\ status' = status /\ frame'.int_no = vector
            /\ \E n \in Lines16 : vector = EXCEPTIONS + n /\ Installed(n)
  BY <1>3, EnterGate
<1>5. pc \in {"isr", "remap"} => \A n \in Lines16 : ~Installed(n)
  BY DEF Installed, AfterSerial
<1>6. pc \notin {"isr", "remap"} => vector = EXCEPTIONS + line
  BY <1>2 DEF Lines16
<1>7. pc \notin Installing => idt[EXCEPTIONS + line] = IrqGate(line)
  BY DEF Gates, PCs, BeforeIdt, Installed, Installing
<1>8. IrqGate(line) # NoGate
  BY UsableGates
<1>9. frame' # NULL
  BY <1>4, NullIsNothing
<1>10. frame'.kind = "irq" => frame'.int_no = EXCEPTIONS + line
  BY <1>4, <1>5, <1>6
<1>11. pc \notin Installing => frame'.kind = "irq"
  BY <1>4, <1>6, <1>7, <1>8 DEF Installing, Lines16
<1> QED BY <1>4, <1>9, <1>10, <1>11

\* What the CPU does when it takes an interrupt: a line comes into service
\* and its gate is entered.
LEMMA Taken ==
    ASSUME Gates, Chips, Serving, interrupt
    PROVE  \E line \in Lines16 : \E vector :
              /\ vector = IF line < LINES THEN pic[1].offset + line
                          ELSE pic[2].offset + (line - LINES)
              /\ enter_gate(vector, line, FALSE, 0)
              /\ pic'[1].isr = pic[1].isr \cup (IF line < LINES THEN {line} ELSE {2})
              /\ pic'[2].isr = IF line < LINES THEN pic[2].isr
                               ELSE pic[2].isr \cup {line - LINES}
<1> USE Sizes
<1>1. /\ Pending1(pic) # {} /\ pic' = acknowledge(pic).pic
      /\ enter_gate(acknowledge(pic).vector, acknowledge(pic).irq, FALSE, 0)
  BY DEF interrupt
<1>2. pic \in [{1, 2} -> Chip]
  BY DEF Chips
<1>3. CASE \E l \in Lines \ {2} :
             acknowledge(pic) =
                [irq |-> l, vector |-> pic[1].offset + l,
                 pic |-> [pic EXCEPT ![1] =
                    [pic[1] EXCEPT !.irr = @ \ {l}, !.isr = @ \cup {l}]]]
  <2>1. PICK l \in Lines \ {2} :
             acknowledge(pic) =
                [irq |-> l, vector |-> pic[1].offset + l,
                 pic |-> [pic EXCEPT ![1] =
                    [pic[1] EXCEPT !.irr = @ \ {l}, !.isr = @ \cup {l}]]]
    BY <1>3
  <2>2. /\ acknowledge(pic).irq = l /\ acknowledge(pic).vector = pic[1].offset + l
        /\ acknowledge(pic).pic = [pic EXCEPT ![1] =
              [pic[1] EXCEPT !.irr = @ \ {l}, !.isr = @ \cup {l}]]
    BY <2>1
  <2>3. l \in Lines16 /\ l < LINES
    BY DEF Lines16, Lines
  <2>4. pic'[1].isr = pic[1].isr \cup {l} /\ pic'[2].isr = pic[2].isr
    BY <1>1, <1>2, <2>2 DEF Chip
  <2> QED BY <1>1, <2>2, <2>3, <2>4
<1>4. CASE \E s \in Lines :
             /\ pic[2].icw = 0
             /\ acknowledge(pic) =
                [irq |-> LINES + s, vector |-> pic[2].offset + s,
                 pic |-> [pic EXCEPT
                    ![1] = [pic[1] EXCEPT !.irr = @ \ {2}, !.isr = @ \cup {2}],
                    ![2] = [pic[2] EXCEPT !.irr = @ \ {s}, !.isr = @ \cup {s}]]]
  <2>1. PICK s \in Lines :
             acknowledge(pic) =
                [irq |-> LINES + s, vector |-> pic[2].offset + s,
                 pic |-> [pic EXCEPT
                    ![1] = [pic[1] EXCEPT !.irr = @ \ {2}, !.isr = @ \cup {2}],
                    ![2] = [pic[2] EXCEPT !.irr = @ \ {s}, !.isr = @ \cup {s}]]]
    BY <1>4
  <2>2. /\ acknowledge(pic).irq = LINES + s /\ acknowledge(pic).vector = pic[2].offset + s
        /\ acknowledge(pic).pic = [pic EXCEPT
              ![1] = [pic[1] EXCEPT !.irr = @ \ {2}, !.isr = @ \cup {2}],
              ![2] = [pic[2] EXCEPT !.irr = @ \ {s}, !.isr = @ \cup {s}]]
    BY <2>1
  <2>3. LINES + s \in Lines16 /\ ~(LINES + s < LINES) /\ (LINES + s) - LINES = s
    BY DEF Lines16, Lines
  <2>4. /\ pic'[1] = [pic[1] EXCEPT !.irr = @ \ {2}, !.isr = @ \cup {2}]
        /\ pic'[2] = [pic[2] EXCEPT !.irr = @ \ {s}, !.isr = @ \cup {s}]
    BY <1>1, <1>2, <2>2
  <2>5. pic[1] \in Chip /\ pic[2] \in Chip
    BY <1>2
  <2>6. pic'[1].isr = pic[1].isr \cup {2} /\ pic'[2].isr = pic[2].isr \cup {s}
    BY <2>4, <2>5 DEF Chip
  <2>7. enter_gate(pic[2].offset + s, LINES + s, FALSE, 0)
    BY <1>1, <2>2
  <2>8. /\ pic[2].offset + s = IF LINES + s < LINES THEN pic[1].offset + (LINES + s)
                                ELSE pic[2].offset + ((LINES + s) - LINES)
        /\ pic'[1].isr = pic[1].isr \cup (IF LINES + s < LINES THEN {LINES + s} ELSE {2})
        /\ pic'[2].isr = IF LINES + s < LINES THEN pic[2].isr
                         ELSE pic[2].isr \cup {(LINES + s) - LINES}
    BY <2>3, <2>6
  <2> QED BY <2>3, <2>7, <2>8, Zenon
<1> QED BY <1>1, <1>3, <1>4, Acknowledged

\* The same for the spurious interrupts of the two chips.
LEMMA TakenSpurious ==
    ASSUME Gates, Chips, Serving, NEW c \in {1, 2}, spurious_interrupt(c)
    PROVE  \E line \in Lines16 : \E vector :
              /\ vector = IF line < LINES THEN pic[1].offset + line
                          ELSE pic[2].offset + (line - LINES)
              /\ enter_gate(vector, line, TRUE, 0)
              /\ pic'[1].isr = pic[1].isr \cup (IF line < LINES THEN {} ELSE {2})
              /\ pic'[2].isr = pic[2].isr
<1> USE Sizes
<1>1. /\ pic' = acknowledge_spurious(pic, c).pic
      /\ enter_gate(acknowledge_spurious(pic, c).vector,
                    acknowledge_spurious(pic, c).irq, TRUE, 0)
  BY DEF spurious_interrupt
<1>2. pic \in [{1, 2} -> Chip] /\ pic[1] \in Chip /\ pic[2] \in Chip
  BY DEF Chips
<1>3. BitsOf(pic[1].link) = {2} /\ pic[1].offset \in Nat /\ pic[2].offset \in Nat
  BY <1>2, PicConstants DEF Chips, Chip
<1>4. CASE c = 1
  <2>1. /\ acknowledge_spurious(pic, c).irq = LINES - 1
        /\ acknowledge_spurious(pic, c).vector = pic[1].offset + (LINES - 1)
        /\ acknowledge_spurious(pic, c).pic = pic
    BY <1>3, <1>4 DEF acknowledge_spurious
  <2>2. LINES - 1 \in Lines16 /\ LINES - 1 < LINES
    BY DEF Lines16
  <2>3. enter_gate(pic[1].offset + (LINES - 1), LINES - 1, TRUE, 0)
    BY <1>1, <2>1
  <2>4. /\ pic[1].offset + (LINES - 1) =
              IF LINES - 1 < LINES THEN pic[1].offset + (LINES - 1)
              ELSE pic[2].offset + ((LINES - 1) - LINES)
        /\ pic'[1].isr = pic[1].isr \cup (IF LINES - 1 < LINES THEN {} ELSE {2})
        /\ pic'[2].isr = pic[2].isr
    BY <1>1, <2>1, <2>2
  <2> QED BY <2>2, <2>3, <2>4, Zenon
<1>5. CASE c = 2
  <2> DEFINE line == 2 * LINES - 1
  <2>1. /\ acknowledge_spurious(pic, c).irq = line
        /\ acknowledge_spurious(pic, c).vector = pic[2].offset + (line - LINES)
        /\ acknowledge_spurious(pic, c).pic =
              [pic EXCEPT ![1] = [pic[1] EXCEPT !.isr = @ \cup {2}]]
    BY <1>3, <1>5 DEF acknowledge_spurious
  <2>2. line \in Lines16 /\ ~(line < LINES)
    BY DEF Lines16
  <2>3. pic'[1] = [pic[1] EXCEPT !.isr = @ \cup {2}] /\ pic'[2] = pic[2]
    BY <1>1, <1>2, <2>1
  <2>4. pic'[1].isr = pic[1].isr \cup {2}
    BY <1>2, <2>3 DEF Chip
  <2>5. enter_gate(pic[2].offset + (line - LINES), line, TRUE, 0)
    BY <1>1, <2>1
  <2>6. /\ pic[2].offset + (line - LINES) =
              IF line < LINES THEN pic[1].offset + line
              ELSE pic[2].offset + (line - LINES)
        /\ pic'[1].isr = pic[1].isr \cup (IF line < LINES THEN {} ELSE {2})
        /\ pic'[2].isr = pic[2].isr
    BY <2>2, <2>3, <2>4
  <2> QED BY <2>2, <2>5, <2>6, Zenon
<1> QED BY <1>4, <1>5

\* A frame of a device is served as Serving and InServiceExact say.
LEMMA ServeDevice ==
    ASSUME Gates, Chips, Serving, InServiceExact, frame = NULL, status = "ok", intr,
           NEW line \in Lines16, NEW vector, NEW spurious \in BOOLEAN,
           vector = IF line < LINES THEN pic[1].offset + line
                    ELSE pic[2].offset + (line - LINES),
           enter_gate(vector, line, spurious, 0),
           pic'[1].isr = pic[1].isr \cup
              (IF line < LINES THEN (IF spurious THEN {} ELSE {line}) ELSE {2}),
           pic'[2].isr = pic[2].isr \cup
              (IF line < LINES \/ spurious THEN {} ELSE {line - LINES})
    PROVE  Serving' /\ InServiceExact'
<1> USE Sizes
<1>1. pc \notin BeforeIdt
  BY DEF Serving
<1>2. /\ frame' \in Frames /\ frame' # NULL
      /\ frame'.line = line /\ frame'.spurious = spurious /\ frame'.phase = "stub"
      /\ frame'.kind = "irq" => frame'.int_no = EXCEPTIONS + line
      /\ frame'.kind = "isr" => frame'.int_no \in 0 .. (EXCEPTIONS - 1)
      /\ frame'.kind = "none" => status' # "ok"
      /\ pc \notin Installing => frame'.kind = "irq"
  BY <1>1, DeviceGate
<1>3. UNCHANGED <<pc, irq_routines, interrupt_handlers>>
  BY DEF enter_gate, handlers
<1>4. Serving'
  BY <1>1, <1>2, <1>3 DEF Serving
<1>5. pic[1].isr = {} /\ pic[2].isr = {}
  BY DEF InServiceExact, FromDevice
<1>6. line # NULL
  BY NullIsNothing
<1>7. InServiceExact'
  <2>1. FromDevice' /\ frame'.phase = "stub" /\ frame'.line = line
    BY <1>2, <1>6 DEF FromDevice
  <2>2. /\ pic'[1].isr = IF line < LINES THEN (IF spurious THEN {} ELSE {line}) ELSE {2}
        /\ pic'[2].isr = IF line < LINES \/ spurious THEN {} ELSE {line - LINES}
    BY <1>5
  <2>3. line >= LINES <=> ~(line < LINES)
    BY DEF Lines16
  <2>4. CASE spurious
    <3>1. frame'.spurious
      BY <1>2, <2>4
    <3> QED BY <2>1, <2>2, <2>3, <2>4, <3>1, PicConstants DEF InServiceExact
  <2>5. CASE ~spurious
    <3>1. ~frame'.spurious
      BY <1>2, <2>5
    <3> QED BY <2>1, <2>2, <2>3, <2>5, <3>1, PicConstants DEF InServiceExact
  <2> QED BY <2>4, <2>5
<1> QED BY <1>4, <1>7

\* Nothing is in service when the kernel starts.
LEMMA InitServing == Init => Serving /\ InServiceExact
<1> SUFFICES ASSUME Init PROVE Serving /\ InServiceExact
  OBVIOUS
<1>1. Serving
  <2>1. /\ irq_routines \in [Lines16 -> Handlers]
        /\ interrupt_handlers \in [Vectors -> Handlers]
    BY DEF Init, Handlers, Vectors
  <2>2. frame = NULL /\ ~intr
    BY DEF Init
  <2> QED BY <2>1, <2>2 DEF Serving
<1>2. pic[1].isr = {} /\ pic[2].isr = {}
  BY DEF Init
<1> QED BY <1>1, <1>2 DEF Init, InServiceExact, FromDevice

\* The steps that leave the controllers and the frame alone.
LEMMA ServingKept ==
    ASSUME Serving, InServiceExact, UNCHANGED <<frame, pic>>,
           irq_routines' \in [Lines16 -> Handlers],
           interrupt_handlers' \in [Vectors -> Handlers],
           pc' \in BeforeIdt => pc \in BeforeIdt /\ ~intr',
           frame # NULL => UNCHANGED pc,
           status' = status \/ status' # "ok"
    PROVE  Serving' /\ InServiceExact'
<1>1. Serving'
  BY DEF Serving
<1>2. InServiceExact'
  BY DEF InServiceExact, FromDevice
<1> QED BY <1>1, <1>2

\* irq_handler: the EOI goes to the chips that have the line in service.
LEMMA ServeIrq ==
    ASSUME Gates, Chips, Serving, InServiceExact, irq_handler
    PROVE  Serving' /\ InServiceExact'
<1> USE Sizes
<1>1. /\ status = "ok" /\ frame # NULL /\ frame.kind = "irq" /\ frame.phase = "stub"
      /\ pic' = send_eoi(frame.int_no)
      /\ frame' = [frame EXCEPT !.phase = "done",
                                !.routine = irq_routines[frame.int_no - EXCEPTIONS]]
      /\ UNCHANGED <<pc, intr, irq_routines, interrupt_handlers, status>>
  BY DEF irq_handler, handlers
<1>2. frame \in Frames /\ frame.line \in Lines16 /\ frame.int_no = EXCEPTIONS + frame.line
  BY <1>1 DEF Serving
<1>3. irq_routines[frame.int_no - EXCEPTIONS] \in Handlers
  <2>1. frame.int_no - EXCEPTIONS = frame.line
    BY <1>2 DEF Lines16
  <2> QED BY <1>2, <2>1 DEF Serving
<1>4. /\ frame' \in Frames /\ frame' # NULL /\ frame'.phase = "done"
      /\ frame'.kind = "irq" /\ frame'.line = frame.line /\ frame'.int_no = frame.int_no
  BY <1>1, <1>2, <1>3, NullIsNothing DEF Frames
<1>5. Serving'
  BY <1>1, <1>2, <1>4 DEF Serving
<1>6. frame.line # NULL
  BY <1>2, NullIsNothing
<1>7. /\ pic[2].isr = IF frame.line >= LINES /\ ~frame.spurious
                      THEN {frame.line - LINES} ELSE {}
      /\ pic[1].isr = IF frame.line >= LINES THEN {2}
                      ELSE IF ~frame.spurious THEN {frame.line} ELSE {}
  BY <1>1, <1>6, PicConstants DEF InServiceExact, FromDevice
<1>8. ASSUME NEW p \in Chip, NEW x, p.isr = {x} \/ p.isr = {}
      PROVE  pic_command(p, EOI).isr = {}
  <2>1. pic_command(p, EOI) = [p EXCEPT !.isr = IF @ = {} THEN {} ELSE @ \ {Min(@)}]
    BY DEF pic_command, EOI, ICW1
  <2>2. pic_command(p, EOI).isr = IF p.isr = {} THEN {} ELSE p.isr \ {Min(p.isr)}
    BY <2>1 DEF Chip
  <2>3. CASE p.isr = {x}
    <3>1. x \in Lines /\ Lines \subseteq Nat
      BY <2>3 DEF Chip, Lines
    <3>2. Min({x}) = x
      BY <3>1, FirstLine
    <3> QED BY <2>2, <2>3, <3>2
  <2> QED BY <1>8, <2>2, <2>3
<1>9. /\ pic'[1] = pic_command(pic[1], EOI)
      /\ pic'[2] = IF frame.line >= LINES THEN pic_command(pic[2], EOI) ELSE pic[2]
  BY <1>1, <1>2 DEF send_eoi, Chips, Lines16
<1>10. pic'[1].isr = {} /\ pic'[2].isr = {}
  <2>1. pic[1] \in Chip /\ pic[2] \in Chip
    BY DEF Chips
  <2>2. pic[1].isr = {2} \/ pic[1].isr = {frame.line} \/ pic[1].isr = {}
    BY <1>7
  <2>3. pic_command(pic[1], EOI).isr = {}
    BY <2>1, <2>2, <1>8
  <2>4. pic[2].isr = {frame.line - LINES} \/ pic[2].isr = {}
    BY <1>7
  <2>5. pic_command(pic[2], EOI).isr = {}
    BY <2>1, <2>4, <1>8
  <2>6. ~(frame.line >= LINES) => pic[2].isr = {}
    BY <1>7
  <2> QED BY <1>9, <2>3, <2>5, <2>6
<1>11. InServiceExact'
  BY <1>4, <1>10 DEF InServiceExact, FromDevice
<1> QED BY <1>5, <1>11

\* Every step keeps the lines in service exact.
LEMMA NextServing ==
    Gates /\ Chips /\ Serving /\ InServiceExact /\ [Next]_vars => Serving' /\ InServiceExact'
<1> SUFFICES ASSUME Gates, Chips, Serving, InServiceExact, [Next]_vars
             PROVE  Serving' /\ InServiceExact'
  OBVIOUS
<1> USE Sizes
<1>1. CASE irq_handler
  BY <1>1, ServeIrq
<1>2. CASE irq_return
  <2>1. /\ status = "ok" /\ frame # NULL /\ frame.phase = "done" /\ frame' = NULL
        /\ UNCHANGED <<pc, pic, irq_routines, interrupt_handlers, status>>
    BY <1>2 DEF irq_return, handlers
  <2>2. pic[1].isr = {} /\ pic[2].isr = {}
    BY <2>1 DEF InServiceExact, FromDevice
  <2>3. pc \notin BeforeIdt
    BY <2>1 DEF Serving
  <2>4. Serving'
    BY <2>1, <2>3 DEF Serving
  <2>5. InServiceExact'
    BY <2>1, <2>2 DEF InServiceExact, FromDevice
  <2> QED BY <2>4, <2>5
<1>3. CASE exception_handler
  <2>1. /\ status' # "ok" /\ frame # NULL /\ frame.kind = "isr"
        /\ UNCHANGED <<pc, irq_routines, interrupt_handlers>>
        /\ \/ frame' = [frame EXCEPT !.routine = interrupt_handlers[frame.int_no]]
           \/ frame' = frame
    BY <1>3 DEF exception_handler, panic, handlers
  <2>2. frame \in Frames /\ frame.int_no \in 0 .. (EXCEPTIONS - 1) /\ pc \notin BeforeIdt
    BY <2>1 DEF Serving
  <2>3. interrupt_handlers[frame.int_no] \in Handlers
    BY <2>2 DEF Serving, Vectors
  <2>4. /\ frame' \in Frames /\ frame'.kind = "isr" /\ frame'.int_no = frame.int_no
        /\ frame'.phase = frame.phase /\ frame'.line = frame.line
    BY <2>1, <2>2, <2>3 DEF Frames
  <2>5. Serving'
    BY <2>1, <2>2, <2>4 DEF Serving
  <2> QED BY <2>1, <2>5 DEF InServiceExact
<1>4. CASE interrupt
  <2>1. frame = NULL /\ status = "ok" /\ intr
    BY <1>4 DEF interrupt
  <2>1a. PICK line \in Lines16 : \E vector :
              /\ vector = IF line < LINES THEN pic[1].offset + line
                          ELSE pic[2].offset + (line - LINES)
              /\ enter_gate(vector, line, FALSE, 0)
              /\ pic'[1].isr = pic[1].isr \cup (IF line < LINES THEN {line} ELSE {2})
              /\ pic'[2].isr = IF line < LINES THEN pic[2].isr
                               ELSE pic[2].isr \cup {line - LINES}
    BY <1>4, Taken
  <2>2. PICK vector :
              /\ vector = IF line < LINES THEN pic[1].offset + line
                          ELSE pic[2].offset + (line - LINES)
              /\ enter_gate(vector, line, FALSE, 0)
              /\ pic'[1].isr = pic[1].isr \cup (IF line < LINES THEN {line} ELSE {2})
              /\ pic'[2].isr = IF line < LINES THEN pic[2].isr
                               ELSE pic[2].isr \cup {line - LINES}
    BY <2>1a
  <2>3. /\ pic'[1].isr = pic[1].isr \cup
              (IF line < LINES THEN (IF FALSE THEN {} ELSE {line}) ELSE {2})
        /\ pic'[2].isr = pic[2].isr \cup
              (IF line < LINES \/ FALSE THEN {} ELSE {line - LINES})
    BY <2>2
  <2> QED BY <2>1, <2>2, <2>3, ServeDevice
<1>5. ASSUME NEW c \in {1, 2}, spurious_interrupt(c) PROVE Serving' /\ InServiceExact'
  <2>1. frame = NULL /\ status = "ok" /\ intr
    BY <1>5 DEF spurious_interrupt
  <2>1a. PICK line \in Lines16 : \E vector :
              /\ vector = IF line < LINES THEN pic[1].offset + line
                          ELSE pic[2].offset + (line - LINES)
              /\ enter_gate(vector, line, TRUE, 0)
              /\ pic'[1].isr = pic[1].isr \cup (IF line < LINES THEN {} ELSE {2})
              /\ pic'[2].isr = pic[2].isr
    BY <1>5, TakenSpurious
  <2>2. PICK vector :
              /\ vector = IF line < LINES THEN pic[1].offset + line
                          ELSE pic[2].offset + (line - LINES)
              /\ enter_gate(vector, line, TRUE, 0)
              /\ pic'[1].isr = pic[1].isr \cup (IF line < LINES THEN {} ELSE {2})
              /\ pic'[2].isr = pic[2].isr
    BY <2>1a
  <2>3. /\ pic'[1].isr = pic[1].isr \cup
              (IF line < LINES THEN (IF TRUE THEN {} ELSE {line}) ELSE {2})
        /\ pic'[2].isr = pic[2].isr \cup
              (IF line < LINES \/ TRUE THEN {} ELSE {line - LINES})
    BY <2>2
  <2> QED BY <2>1, <2>2, <2>3, ServeDevice
<1>6. ASSUME NEW v \in Faults, NEW code \in Codes \cup {0}, exception(v, code)
      PROVE  Serving' /\ InServiceExact'
  <2>1. /\ frame = NULL /\ status = "ok" /\ pc \notin BeforeIdt
        /\ enter_gate(v, NULL, FALSE, code)
        /\ UNCHANGED <<pc, pic, irq_routines, interrupt_handlers>>
    BY <1>6 DEF exception, enter_gate, handlers, BeforeIdt
  <2>2. v \in 0 .. (EXCEPTIONS - 1) /\ v \in Vectors
    BY InterruptConstants DEF Vectors
  <2>3. /\ frame' \in Frames
        /\ frame'.line = NULL /\ frame'.phase = "stub"
        /\ \/ frame'.kind = "none" /\ status' # "ok"
           \/ frame'.kind = "isr" /\ frame'.int_no \in 0 .. (EXCEPTIONS - 1)
    <3>1. \A n \in Lines16 : v # EXCEPTIONS + n
      BY <2>2 DEF Lines16
    <3> QED BY <2>1, <2>2, <3>1, EnterGate
  <2>4. Serving'
    BY <2>1, <2>3 DEF Serving
  <2>5. pic[1].isr = {} /\ pic[2].isr = {}
    BY <2>1 DEF InServiceExact, FromDevice
  <2>6. InServiceExact'
    BY <2>1, <2>3, <2>5 DEF InServiceExact, FromDevice
  <2> QED BY <2>4, <2>6
<1>7. ASSUME NEW n \in Devices, raise(n) PROVE Serving' /\ InServiceExact'
  <2>1. /\ UNCHANGED <<pc, intr, irq_routines, interrupt_handlers, frame, status>>
        /\ pic' = [pic EXCEPT ![(n \div LINES) + 1].irr = @ \cup {n % LINES}]
    BY <1>7 DEF raise, handlers
  <2>2. pic'[1].isr = pic[1].isr /\ pic'[2].isr = pic[2].isr
    BY <2>1 DEF Chips, Chip
  <2>3. Serving'
    BY <2>1 DEF Serving
  <2>4. InServiceExact'
    BY <2>1, <2>2 DEF InServiceExact, FromDevice
  <2> QED BY <2>3, <2>4
<1>8. CASE irq_install_remap
  <2> DEFINE out == irq_remap[k + 1]
             c == out[1]
  <2>1. /\ pc = "remap" /\ frame = NULL /\ status = "ok"
        /\ UNCHANGED <<intr, irq_routines, interrupt_handlers, frame, status>>
        /\ pc' \in {"remap", "gates"}
        /\ pic' = [pic EXCEPT ![c] = IF out[2] = "command" THEN pic_command(pic[c], out[3])
                                     ELSE pic_data(pic[c], out[3])]
    BY <1>8 DEF irq_install_remap, Running, handlers
  <2>2. pic[1].isr = {} /\ pic[2].isr = {} /\ pic \in [{1, 2} -> Chip]
    BY <2>1 DEF InServiceExact, FromDevice, Chips
  <2>3. ASSUME NEW p \in Chip, NEW byte, p.isr = {}
        PROVE  pic_command(p, byte).isr = {} /\ pic_data(p, byte).isr = {}
    BY <2>3 DEF pic_command, pic_data, Chip
  <2>4. pic'[1].isr = {} /\ pic'[2].isr = {}
    BY <2>1, <2>2, <2>3
  <2>5. Serving'
    BY <2>1 DEF Serving, BeforeIdt
  <2>6. InServiceExact'
    BY <2>1, <2>4 DEF InServiceExact, FromDevice
  <2> QED BY <2>5, <2>6
<1>9. CASE check \/ gdt_install
  <2>1. /\ UNCHANGED <<frame, pic, irq_routines, interrupt_handlers>> /\ ~intr'
        /\ pc \in BeforeIdt /\ frame = NULL /\ (status' = status \/ status' # "ok")
    BY <1>9 DEF check, gdt_install, panic, Running, handlers, Serving, BeforeIdt
  <2> QED BY <2>1, ServingKept DEF Serving
<1>10. CASE timer_install \/ keyboard_install \/ register_interrupt_handler
  <2>1. /\ UNCHANGED <<frame, pic, status>> /\ frame = NULL /\ pc' \notin BeforeIdt
    BY <1>10 DEF timer_install, keyboard_install, register_interrupt_handler, Running,
       BeforeIdt
  <2>2. /\ irq_routines' \in [Lines16 -> Handlers]
        /\ interrupt_handlers' \in [Vectors -> Handlers]
    BY <1>10 DEF timer_install, keyboard_install, register_interrupt_handler,
       register_request_handler, Handlers, Serving
  <2> QED BY <2>1, <2>2, ServingKept
<1>11. CASE \/ idt_install \/ isr_install \/ irq_install_gates \/ initialize_serial
            \/ initialize_terminal \/ proc_initialize \/ start_shell
            \/ putchar_in_memory \/ putchar_in_registers
  <2>1. /\ UNCHANGED <<frame, pic, irq_routines, interrupt_handlers, status>>
        /\ frame = NULL /\ pc' \notin BeforeIdt
    BY <1>11 DEF idt_install, isr_install, irq_install_gates, initialize_serial,
       initialize_terminal, proc_initialize, start_shell, putchar_in_memory,
       putchar_in_registers, Running, BeforeIdt, handlers
  <2> QED BY <2>1, ServingKept DEF Serving
<1>12. CASE UNCHANGED vars
  <2>1. UNCHANGED <<pc, intr, frame, pic, irq_routines, interrupt_handlers, status>>
    BY <1>12 DEF vars, handlers
  <2> QED BY <2>1, ServingKept DEF Serving
<1> QED BY <1>1, <1>2, <1>3, <1>4, <1>5, <1>6, <1>7, <1>8, <1>9, <1>10, <1>11, <1>12
        DEF Next, kernel_main, Service

-----------------------------------------------------------------------------
(* The serial port.                                                        *)

Uart ==
    [dlab : BOOLEAN, line : Nat, divisor_low : Nat \cup {LETTER, NEWLINE},
     divisor_high : Nat, interrupts : Nat, fifo : Nat, modem : Nat]

\* The chip after k bytes of serial_initialize.
Port ==
    /\ uart \in Uart
    /\ uart.interrupts = 0
    /\ pc \notin {"serial"} \cup AfterSerial => ~uart.dlab
    /\ pc = "serial" =>
          /\ k \in 0 .. 6
          /\ uart.dlab <=> k \in {2, 3, 4}
          /\ k >= 5 => uart.line = 3
          /\ k = 6 => uart.fifo = 199

\* The bytes of serial_initialize, with their ports.
LEMMA PortBytes ==
    /\ Len(serial_initialize) = 7
    /\ serial_initialize[1] = <<1, 0>> /\ serial_initialize[2] = <<3, 128>>
    /\ serial_initialize[3] = <<0, 0>> /\ serial_initialize[4] = <<0, 3>>
    /\ serial_initialize[5] = <<3, 3>> /\ serial_initialize[6] = <<2, 199>>
    /\ serial_initialize[7] = <<4, 3>>
<1>1. (DIVISOR \div 256) % 256 = 0 /\ DIVISOR % 256 = 3
  BY DEF DIVISOR
<1>2. serial_configure_baud_rate(DIVISOR) = <<<<3, 128>>, <<0, 0>>, <<0, 3>>>>
  BY <1>1 DEF serial_configure_baud_rate, SERIAL_LINE_COMMAND_PORT,
     SERIAL_LINE_ENABLE_DLAB, SERIAL_DATA_PORT
<1> QED BY <1>2 DEF serial_initialize, serial_configure_line, serial_configure_buffers,
     serial_configure_modem, SERIAL_INTERRUPT_PORT, SERIAL_LINE_COMMAND_PORT,
     SERIAL_FIFO_COMMAND_PORT, SERIAL_MODEM_COMMAND_PORT

\* A character that is sent changes at most the low byte of the divisor.
LEMMA SentCharacter ==
    ASSUME NEW u \in Uart, NEW ch \in {LETTER, NEWLINE}
    PROVE  LET v == serial_write(u, ch)
           IN  /\ v \in Uart /\ v.dlab = u.dlab /\ v.line = u.line
               /\ v.interrupts = u.interrupts /\ v.fifo = u.fifo /\ v.modem = u.modem
<1>1. serial_write(u, ch) = IF u.dlab THEN [u EXCEPT !.divisor_low = ch] ELSE u
  BY DEF serial_write, uart_outb, SERIAL_DATA_PORT, SERIAL_INTERRUPT_PORT,
     SERIAL_LINE_COMMAND_PORT, SERIAL_FIFO_COMMAND_PORT, SERIAL_MODEM_COMMAND_PORT
<1> QED BY <1>1 DEF Uart

\* serial_initialize: the data port reaches the divisor only between its
\* second and its fifth byte.
LEMMA SerialPort == ASSUME Port, initialize_serial PROVE Port' /\ SerialReady'
<1>1. pc = "serial" /\ k \in 0 .. 6 /\ uart \in Uart /\ uart.interrupts = 0
  BY DEF initialize_serial, Running, Port
<1>2. /\ k < 6 => pc' = "serial" /\ k' = k + 1
      /\ k = 6 => pc' = "terminal" /\ k' = 0
  BY <1>1, PortBytes DEF initialize_serial
<1>3. ASSUME NEW port, NEW byte, serial_initialize[k + 1] = <<port, byte>>
      PROVE  uart' = uart_outb(uart, port, byte)
  BY <1>3 DEF initialize_serial
<1> USE DEF SERIAL_DATA_PORT, SERIAL_INTERRUPT_PORT, SERIAL_LINE_COMMAND_PORT,
        SERIAL_FIFO_COMMAND_PORT, SERIAL_MODEM_COMMAND_PORT, SERIAL_LINE_ENABLE_DLAB
<1>4. CASE k = 0
  <2>1. uart' = uart_outb(uart, 1, 0)
    BY <1>3, <1>4, PortBytes
  <2>2. uart' = [uart EXCEPT !.interrupts = 0]
    BY <1>1, <1>4, <2>1 DEF uart_outb, Port
  <2> QED BY <1>1, <1>2, <1>4, <2>2 DEF Port, SerialReady, AfterSerial, Uart
<1>5. CASE k = 1
  <2>1. uart' = uart_outb(uart, 3, 128)
    BY <1>3, <1>5, PortBytes
  <2>2. uart' = [uart EXCEPT !.dlab = (128 >= 128), !.line = 128 % 128]
    BY <1>1, <1>5, <2>1 DEF uart_outb, Port
  <2>3. (128 >= 128) \in BOOLEAN /\ (128 >= 128) /\ 128 % 128 = 0
    OBVIOUS
  <2>4. /\ uart' \in Uart /\ uart'.dlab /\ uart'.line = 0
        /\ uart'.interrupts = 0
    BY <1>1, <2>2, <2>3 DEF Uart
  <2> QED BY <1>1, <1>2, <1>5, <2>4 DEF Port, SerialReady, AfterSerial
<1>6. CASE k = 2
  <2>1. uart' = uart_outb(uart, 0, 0)
    BY <1>3, <1>6, PortBytes
  <2>2. uart' = [uart EXCEPT !.divisor_low = 0]
    BY <1>1, <1>6, <2>1 DEF uart_outb, Port
  <2> QED BY <1>1, <1>2, <1>6, <2>2 DEF Port, SerialReady, AfterSerial, Uart
<1>7. CASE k = 3
  <2>1. uart' = uart_outb(uart, 0, 3)
    BY <1>3, <1>7, PortBytes
  <2>2. uart' = [uart EXCEPT !.divisor_low = 3]
    BY <1>1, <1>7, <2>1 DEF uart_outb, Port
  <2> QED BY <1>1, <1>2, <1>7, <2>2 DEF Port, SerialReady, AfterSerial, Uart
<1>8. CASE k = 4
  <2>1. uart' = uart_outb(uart, 3, 3)
    BY <1>3, <1>8, PortBytes
  <2>2. uart' = [uart EXCEPT !.dlab = (3 >= 128), !.line = 3 % 128]
    BY <1>1, <1>8, <2>1 DEF uart_outb, Port
  <2>3. (3 >= 128) = FALSE /\ 3 % 128 = 3
    OBVIOUS
  <2>4. uart' = [uart EXCEPT !.dlab = FALSE, !.line = 3]
    BY <2>2, <2>3, Zenon
  <2>5. /\ uart' \in Uart /\ ~uart'.dlab /\ uart'.line = 3
        /\ uart'.interrupts = 0
    BY <1>1, <2>4 DEF Uart
  <2> QED BY <1>1, <1>2, <1>8, <2>5 DEF Port, SerialReady, AfterSerial
<1>9. CASE k = 5
  <2>1. uart' = uart_outb(uart, 2, 199)
    BY <1>3, <1>9, PortBytes
  <2>2. uart' = [uart EXCEPT !.fifo = 199]
    BY <1>1, <1>9, <2>1 DEF uart_outb, Port
  <2> QED BY <1>1, <1>2, <1>9, <2>2 DEF Port, SerialReady, AfterSerial, Uart
<1>10. CASE k = 6
  <2>1. uart' = uart_outb(uart, 4, 3)
    BY <1>3, <1>10, PortBytes
  <2>2. uart' = [uart EXCEPT !.modem = 3]
    BY <1>1, <1>10, <2>1 DEF uart_outb, Port
  <2> QED BY <1>1, <1>2, <1>10, <2>2 DEF Port, SerialReady, AfterSerial, Uart
<1> QED BY <1>1, <1>4, <1>5, <1>6, <1>7, <1>8, <1>9, <1>10

\* Steps that send nothing, or a character.
LEMMA PortKept ==
    ASSUME Port, SerialReady,
           \/ uart' = uart
           \/ \E ch \in {LETTER, NEWLINE} : uart' = serial_write(uart, ch),
           pc' = "serial" => \/ pc = "serial" /\ k' = k
                             \/ pc \notin AfterSerial \cup {"serial"} /\ k' = 0,
           pc' \in AfterSerial => pc \in AfterSerial,
           pc' \notin AfterSerial \cup {"serial"} => pc \notin AfterSerial \cup {"serial"}
    PROVE  Port' /\ SerialReady'
<1>1. /\ uart' \in Uart /\ uart'.dlab = uart.dlab /\ uart'.line = uart.line
      /\ uart'.interrupts = uart.interrupts /\ uart'.fifo = uart.fifo /\ uart'.modem = uart.modem
  BY SentCharacter DEF Port
<1>2. Port'
  BY <1>1 DEF Port
<1>3. SerialReady'
  BY <1>1 DEF SerialReady
<1> QED BY <1>2, <1>3

\* The port when the kernel starts.
LEMMA InitPort == Init => Port /\ SerialReady
<1> SUFFICES ASSUME Init PROVE Port /\ SerialReady
  OBVIOUS
<1>1. uart \in Uart /\ uart.interrupts = 0 /\ ~uart.dlab
  BY DEF Init, Uart
<1>2. pc = "check"
  BY DEF Init
<1> QED BY <1>1, <1>2 DEF Port, SerialReady, AfterSerial

\* Every step keeps the port as far as serial_initialize has got, however
\* many characters interrupts send in between.
LEMMA NextPort == Gates /\ Port /\ SerialReady /\ [Next]_vars => Port' /\ SerialReady'
<1> SUFFICES ASSUME Gates, Port, SerialReady, [Next]_vars PROVE Port' /\ SerialReady'
  OBVIOUS
<1>1. CASE initialize_serial
  BY <1>1, SerialPort
<1>2. Last(<<LETTER, NEWLINE>>) = NEWLINE /\ Last(<<NEWLINE, LETTER, NEWLINE>>) = NEWLINE
  BY DEF Last
<1>3. CASE check
  <2>1. uart' = uart \/ uart' = serial_write(uart, NEWLINE)
    BY <1>2, <1>3 DEF check, panic, printf
  <2>2. pc' \in {"check", "gdt"} /\ pc = "check"
    BY <1>3 DEF check, Running, panic
  <2> QED BY <2>1, <2>2, PortKept DEF AfterSerial
<1>4. CASE \/ gdt_install \/ idt_install \/ isr_install \/ irq_install_remap
           \/ irq_install_gates
  <2>1. /\ uart' = uart
        /\ pc' = "serial" => k' = 0
        /\ pc \in {"gdt", "idt", "isr", "remap", "gates"}
        /\ pc' \in {"idt", "isr", "remap", "gates", "serial"}
    BY <1>4 DEF gdt_install, idt_install, isr_install, irq_install_remap,
       irq_install_gates, Running
  <2> QED BY <2>1, PortKept DEF AfterSerial
<1>5. CASE \/ initialize_terminal \/ timer_install \/ keyboard_install
           \/ register_interrupt_handler \/ proc_initialize \/ start_shell
  <2>1. uart' = uart /\ pc \in AfterSerial /\ pc' \in AfterSerial /\ pc' # "serial"
    BY <1>5 DEF initialize_terminal, timer_install, keyboard_install,
       register_interrupt_handler, proc_initialize, start_shell, Running, AfterSerial
  <2> QED BY <2>1, PortKept
<1>6. CASE UNCHANGED <<pc, k>> /\ (uart' = uart \/ \E ch \in {LETTER, NEWLINE} : uart' = serial_write(uart, ch))
  BY <1>6, PortKept
<1>7. CASE putchar_in_memory \/ putchar_in_registers
  BY <1>6, <1>7 DEF putchar_in_memory, putchar_in_registers
<1>8. CASE irq_handler \/ irq_return \/ exception_handler
  BY <1>2, <1>6, <1>8 DEF irq_handler, irq_return, exception_handler, panic, printf, NoHandler
<1>9. CASE \/ interrupt \/ \E n \in Devices : raise(n)
           \/ \E c \in {1, 2} : spurious_interrupt(c)
           \/ \E v \in Faults, code \in Codes \cup {0} : exception(v, code)
  BY <1>6, <1>9 DEF interrupt, raise, spurious_interrupt, exception, enter_gate
<1>10. CASE UNCHANGED vars
  BY <1>6, <1>10 DEF vars
<1> QED BY <1>1, <1>3, <1>4, <1>5, <1>7, <1>8, <1>9, <1>10 DEF Next, kernel_main, Service

-----------------------------------------------------------------------------
(* The cursor.                                                             *)

Terms ==
    [x : Nat, y : Nat, buffer : [Cells -> {BLANK, LETTER}], stray : BOOLEAN]

OnScreen(t) == t.x < VGA_WIDTH /\ t.y < VGA_HEIGHT

\* On the screen, or at the start of the line behind it.
AtEdge(t) == OnScreen(t) \/ (t.x = 0 /\ t.y = VGA_HEIGHT)

\* Or behind the end of a line.
AtEnd(t) == AtEdge(t) \/ (t.x = VGA_WIDTH /\ t.y < VGA_HEIGHT)

\* Where the cursor may be, by how far terminal_putchar is; the system that
\* has stopped in a handler shows nothing any more.
Cursor ==
    /\ putting \in [at : {"no", "wrap", "scroll", "store"}, x : Nat, y : Nat]
    /\ pc # "run" => putting.at = "no"
    /\ frame = NULL \/ status = "ok" =>
          /\ term \in Terms
          /\ putting.at \in {"no", "store"} => OnScreen(term)
          /\ putting.at = "wrap" => AtEnd(term)
          /\ putting.at = "scroll" => AtEdge(term)
          /\ putting.at = "store" => putting.x < VGA_WIDTH /\ putting.y < VGA_HEIGHT

\* The size of the screen, and of the numbers that count on it.
LEMMA ScreenSize ==
    /\ VGA_WIDTH \in Nat /\ VGA_WIDTH > 1 /\ VGA_HEIGHT \in Nat \ {0} /\ WORD \in Nat
    /\ VGA_HEIGHT < WORD /\ VGA_WIDTH < WORD
    /\ NEWLINE # NUL /\ LETTER # NEWLINE /\ LETTER # NUL
<1>1. /\ VGA_WIDTH \in Nat \ {0} /\ VGA_HEIGHT \in Nat \ {0} /\ WORD \in Nat
      /\ WORD > VGA_WIDTH * VGA_HEIGHT
  BY TerminalConstants
<1>2. ASSUME NEW w \in Nat \ {0}, NEW h \in Nat \ {0} PROVE w * h >= h /\ w * h >= w
  <2>1. w * h = h + (w - 1) * h /\ (w - 1) * h \in Nat
    BY <1>2
  <2>2. w * h = w + w * (h - 1) /\ w * (h - 1) \in Nat
    BY <1>2
  <2> QED BY <2>1, <2>2
<1>3. VGA_WIDTH * VGA_HEIGHT >= VGA_HEIGHT /\ VGA_WIDTH * VGA_HEIGHT >= VGA_WIDTH
      /\ VGA_WIDTH * VGA_HEIGHT \in Nat
  BY <1>1, <1>2
<1> QED BY <1>1, <1>3, TerminalConstants, InterruptConstants

\* A new line, from a line of the screen.
LEMMA LineFeed ==
    ASSUME NEW t \in Terms, t.y < VGA_HEIGHT
    PROVE  /\ NextLine(t) \in Terms
           /\ NextLine(t).x = 0 /\ NextLine(t).y = t.y + 1 /\ AtEdge(NextLine(t))
<1>1. (t.y + 1) % WORD = t.y + 1
  BY ScreenSize DEF Terms
<1>2. NextLine(t) = [t EXCEPT !.x = 0, !.y = (t.y + 1) % WORD]
  BY DEF NextLine
<1>3. NextLine(t) = [t EXCEPT !.x = 0, !.y = t.y + 1]
  BY <1>1, <1>2
<1>4. ASSUME NEW y \in Nat
      PROVE  LET u == [t EXCEPT !.x = 0, !.y = y] IN u \in Terms /\ u.x = 0 /\ u.y = y
  BY DEF Terms
<1>5. t.y \in Nat /\ t.y + 1 \in Nat
  BY DEF Terms
<1>6. NextLine(t) \in Terms /\ NextLine(t).x = 0 /\ NextLine(t).y = t.y + 1
  BY <1>3, <1>4, <1>5
<1> QED BY <1>5, <1>6, ScreenSize DEF AtEdge, OnScreen

\* A character is shown, and the cursor steps to the right.
LEMMA ShowLetter ==
    ASSUME NEW t \in Terms
    PROVE  /\ putchar_show(t, LETTER) \in Terms
           /\ putchar_show(t, LETTER).x = (t.x + 1) % WORD
           /\ putchar_show(t, LETTER).y = t.y
<1> DEFINE u == terminal_putentryat(t, LETTER)
<1>1. putchar_show(t, LETTER) = [u EXCEPT !.x = (u.x + 1) % WORD]
  BY ScreenSize DEF putchar_show
<1>2. u \in Terms /\ u.x = t.x /\ u.y = t.y
  BY DEF terminal_putentryat, Terms
<1> HIDE DEF u
<1> DEFINE x == (u.x + 1) % WORD
<1>3. x \in Nat
  BY <1>2, ScreenSize DEF Terms
<1>4. putchar_show(t, LETTER) = [u EXCEPT !.x = x] /\ x = (t.x + 1) % WORD
  BY <1>1, <1>2
<1> HIDE DEF x
<1>5. [u EXCEPT !.x = x] \in Terms /\ [u EXCEPT !.x = x].x = x /\ [u EXCEPT !.x = x].y = u.y
  BY <1>2, <1>3 DEF Terms
<1> QED BY <1>2, <1>4, <1>5

\* The first part of terminal_putchar.
LEMMA ShowEnds ==
    ASSUME NEW t \in Terms, OnScreen(t), NEW ch \in {LETTER, NEWLINE}
    PROVE  putchar_show(t, ch) \in Terms /\ AtEnd(putchar_show(t, ch))
<1>1. CASE ch = NEWLINE
  <2>1. putchar_show(t, ch) = NextLine(t)
    BY <1>1, ScreenSize DEF putchar_show
  <2> QED BY <2>1, LineFeed DEF OnScreen, AtEnd
<1>2. CASE ch = LETTER
  <2>1. (t.x + 1) % WORD = t.x + 1
    BY ScreenSize DEF Terms, OnScreen
  <2>2. /\ putchar_show(t, LETTER) \in Terms
        /\ putchar_show(t, LETTER).x = t.x + 1 /\ putchar_show(t, LETTER).y = t.y
    BY <2>1, ShowLetter
  <2> QED BY <1>2, <2>2, ScreenSize DEF OnScreen, AtEdge, AtEnd, Terms
<1> QED BY <1>1, <1>2

\* The second part.
LEMMA WrapEdges ==
    ASSUME NEW t \in Terms, AtEnd(t)
    PROVE  putchar_wrap(t) \in Terms /\ AtEdge(putchar_wrap(t))
  BY LineFeed, ScreenSize DEF putchar_wrap, AtEnd, AtEdge, OnScreen

\* Scrolling clears the last line and puts the cursor at its start.
LEMMA ScrolledOn ==
    ASSUME NEW t \in Terms
    PROVE  Scrolled(t) \in Terms /\ OnScreen(Scrolled(t))
<1> DEFINE b == [i \in Cells |-> IF i + VGA_WIDTH \in Cells
                                THEN t.buffer[i + VGA_WIDTH] ELSE BLANK]
<1>1. b \in [Cells -> {BLANK, LETTER}]
  BY DEF Terms
<1>2. Scrolled(t) = [t EXCEPT !.buffer = b, !.x = 0, !.y = VGA_HEIGHT - 1]
  BY DEF Scrolled
<1> HIDE DEF b
<1>3. 0 \in Nat /\ VGA_HEIGHT - 1 \in Nat /\ 0 < VGA_WIDTH /\ VGA_HEIGHT - 1 < VGA_HEIGHT
  BY ScreenSize
<1>4. ASSUME NEW y \in Nat
      PROVE  LET u == [t EXCEPT !.buffer = b, !.x = 0, !.y = y]
             IN  u \in Terms /\ u.x = 0 /\ u.y = y
  BY <1>1 DEF Terms
<1> QED BY <1>2, <1>3, <1>4 DEF OnScreen

\* The third part.
LEMMA ScrollEdges ==
    ASSUME NEW t \in Terms, AtEdge(t)
    PROVE  putchar_scroll(t) \in Terms /\ OnScreen(putchar_scroll(t))
  BY ScrolledOn DEF putchar_scroll, AtEdge, OnScreen

\* terminal_putchar as a whole.
LEMMA PutcharOn ==
    ASSUME NEW t \in Terms, OnScreen(t), NEW ch \in {LETTER, NEWLINE}
    PROVE  terminal_putchar(t, ch) \in Terms /\ OnScreen(terminal_putchar(t, ch))
  BY ShowEnds, WrapEdges, ScrollEdges DEF terminal_putchar

\* A message of a handler, wherever it has interrupted terminal_putchar: the
\* letter may go astray, the end of the line brings the cursor back.
LEMMA MessageOn ==
    ASSUME NEW t \in Terms, AtEnd(t)
    PROVE  LET u == terminal_putchar(terminal_putchar(t, LETTER), NEWLINE)
           IN  u \in Terms /\ OnScreen(u)
<1> DEFINE s == putchar_show(t, LETTER)
           u == terminal_putchar(t, LETTER)
<1>1. u \in Terms /\ u.y < VGA_HEIGHT
  <2>1. CASE OnScreen(t)
    BY <2>1, PutcharOn DEF OnScreen
  <2>2. CASE t.x = 0 /\ t.y = VGA_HEIGHT
    <3>1. s \in Terms /\ s.x = 1 /\ s.y = VGA_HEIGHT
      BY <2>2, ShowLetter, ScreenSize
    <3>2. u = Scrolled(s)
      BY <3>1, ScreenSize DEF terminal_putchar, putchar_wrap, putchar_scroll
    <3> QED BY <3>1, <3>2, ScrolledOn DEF OnScreen
  <2>3. CASE t.x = VGA_WIDTH /\ t.y < VGA_HEIGHT
    <3>1. s \in Terms /\ s.x = (VGA_WIDTH + 1) % WORD /\ s.y = t.y
      BY <2>3, ShowLetter
    <3>2. (VGA_WIDTH + 1) % WORD # VGA_WIDTH
      <4>1. CASE VGA_WIDTH + 1 = WORD
        BY <4>1, ScreenSize
      <4>2. CASE VGA_WIDTH + 1 < WORD
        BY <4>2, ScreenSize
      <4> QED BY <4>1, <4>2, ScreenSize
    <3>3. u = s
      BY <2>3, <3>1, <3>2, ScreenSize DEF terminal_putchar, putchar_wrap, putchar_scroll, Terms
    <3> QED BY <2>3, <3>1, <3>3
  <2> QED BY <2>1, <2>2, <2>3 DEF AtEnd, AtEdge
<1> HIDE DEF u
<1>2. putchar_show(u, NEWLINE) = NextLine(u)
  BY ScreenSize DEF putchar_show
<1>3. NextLine(u) \in Terms /\ AtEnd(NextLine(u))
  BY <1>1, LineFeed DEF AtEnd
<1>4. terminal_putchar(u, NEWLINE) \in Terms /\ OnScreen(terminal_putchar(u, NEWLINE))
  BY <1>2, <1>3, WrapEdges, ScrollEdges DEF terminal_putchar
<1> QED BY <1>4 DEF u

\* terminal_write of two characters: the fold, unrolled.
LEMMA WriteTwo ==
    ASSUME NEW t, NEW a, NEW b
    PROVE  terminal_write(t, <<a, b>>) = terminal_putchar(terminal_putchar(t, a), b)
<1> DEFINE D == DOMAIN <<a, b>>
           Round(g) == [s \in SUBSET D |->
              IF s = {} THEN t ELSE terminal_putchar(g[s \ {Max(s)}], <<a, b>>[Max(s)])]
           G == CHOOSE g : g = Round(g)
<1>1. terminal_write(t, <<a, b>>) = G[D]
  BY Zenon DEF terminal_write, FoldLeft, MapThenFoldSet
<1>2. D = {1, 2}
  OBVIOUS
<1>3. Max({1}) = 1 /\ Max({2}) = 2 /\ Max({1, 2}) = 2
  BY DEF Max
<1>4. \E g : g = Round(g)
  <2> DEFINE w == [s \in SUBSET D |->
             IF s = {} THEN t ELSE IF s = {1} THEN terminal_putchar(t, a)
             ELSE IF s = {2} THEN terminal_putchar(t, b)
             ELSE terminal_putchar(terminal_putchar(t, a), b)]
  <2>1. \A s \in SUBSET D : s \in {{}, {1}, {2}, {1, 2}}
    BY <1>2
  <2>2. ASSUME NEW s \in SUBSET D PROVE w[s] = Round(w)[s]
    <3>1. CASE s = {}
      BY <3>1
    <3>2. CASE s = {1}
      BY <3>2, <1>2, <1>3
    <3>3. CASE s = {2}
      BY <3>3, <1>2, <1>3
    <3>4. CASE s = {1, 2}
      <4>1. s \ {2} = {1} /\ s # {} /\ s # {1} /\ s # {2}
        BY <3>4
      <4> QED BY <4>1, <3>4, <1>2, <1>3
    <3> QED BY <2>1, <3>1, <3>2, <3>3, <3>4
  <2>3. w = Round(w)
    BY <2>2
  <2> QED BY <2>3
<1>5. G = Round(G)
  BY <1>4
<1> HIDE DEF G
<1>6. \A s \in SUBSET D : G[s] =
         IF s = {} THEN t ELSE terminal_putchar(G[s \ {Max(s)}], <<a, b>>[Max(s)])
  BY <1>5
<1>7. {} \in SUBSET D /\ {1} \in SUBSET D /\ {1, 2} \in SUBSET D
  BY <1>2
<1>8. {1} \ {1} = {} /\ {1, 2} \ {2} = {1} /\ {1} # {} /\ {1, 2} # {}
  OBVIOUS
<1>9. G[{}] = t
  BY <1>6, <1>7
<1>10. G[{1}] = terminal_putchar(t, a)
  BY <1>3, <1>6, <1>7, <1>8, <1>9
<1>11. G[{1, 2}] = terminal_putchar(terminal_putchar(t, a), b)
  <2>1. G[{1, 2}] = terminal_putchar(G[{1, 2} \ {Max({1, 2})}], <<a, b>>[Max({1, 2})])
    BY <1>6, <1>7, <1>8, Zenon
  <2>2. <<a, b>>[2] = b
    OBVIOUS
  <2>3. {1, 2} \ {Max({1, 2})} = {1}
    BY <1>3, <1>8
  <2> QED BY <1>3, <1>10, <2>1, <2>2, <2>3, Zenon
<1> QED BY <1>1, <1>2, <1>11

\* The cursor when the kernel starts.
LEMMA InitCursor == Init => Cursor
<1> SUFFICES ASSUME Init PROVE Cursor
  OBVIOUS
<1>1. terminal_initialize \in Terms /\ OnScreen(terminal_initialize)
  BY ScreenSize DEF terminal_initialize, Terms, OnScreen
<1> QED BY <1>1 DEF Init, Cursor, NotPutting

\* Every step keeps the cursor on the screen, or close to it inside of
\* terminal_putchar.
LEMMA NextCursor == Serving /\ Cursor /\ [Next]_vars => Cursor'
<1> SUFFICES ASSUME Serving, Cursor, [Next]_vars PROVE Cursor'
  OBVIOUS
<1>1. \A t : terminal_write(t, <<LETTER, NEWLINE>>) =
         terminal_putchar(terminal_putchar(t, LETTER), NEWLINE)
  BY WriteTwo
<1>2. \A t : OnScreen(t) => AtEdge(t) /\ AtEnd(t)
  BY DEF AtEdge, AtEnd
<1>3. ASSUME frame = NULL \/ status = "ok" PROVE term \in Terms /\ AtEnd(term)
  BY <1>2, <1>3 DEF Cursor, AtEnd
<1>4. CASE check
  <2>1. UNCHANGED putting /\ pc = "check" /\ pc' # "run" /\ frame = NULL /\ frame' = NULL
    BY <1>4 DEF check, Running, panic
  <2>2. term' = term \/ term' = terminal_putchar(terminal_putchar(term, LETTER), NEWLINE)
    BY <1>1, <1>4 DEF check, panic, printf, screen
  <2>3. term' \in Terms /\ OnScreen(term')
    BY <1>3, <2>1, <2>2, MessageOn DEF Cursor
  <2> QED BY <2>1, <2>3 DEF Cursor
<1>5. CASE initialize_terminal
  <2>1. /\ UNCHANGED <<putting, frame, status>> /\ pc = "terminal" /\ pc' # "run" /\ frame = NULL
        /\ term' = terminal_clearscreen(term)
    BY <1>5 DEF initialize_terminal, Running
  <2>2. term' \in Terms /\ OnScreen(term')
    BY <2>1, <1>3, ScreenSize DEF terminal_clearscreen, terminal_initialize, Terms, OnScreen
  <2> QED BY <2>1, <2>2 DEF Cursor
<1>6. CASE \/ gdt_install \/ idt_install \/ isr_install \/ irq_install_remap
           \/ irq_install_gates \/ initialize_serial \/ timer_install \/ keyboard_install
           \/ register_interrupt_handler \/ proc_initialize \/ start_shell
  <2>1. UNCHANGED <<putting, term, frame, status>> /\ pc # "run"
    BY <1>6 DEF gdt_install, idt_install, isr_install, irq_install_remap,
       irq_install_gates, initialize_serial, timer_install, keyboard_install,
       register_interrupt_handler, proc_initialize, start_shell, Running, screen
  <2> QED BY <2>1 DEF Cursor
<1>7. CASE putchar_in_memory
  <2>1. UNCHANGED <<pc, frame, status>> /\ pc = "run" /\ frame = NULL
    BY <1>7 DEF putchar_in_memory, Running
  <2>2. \/ /\ putting.at = "no" /\ putting' = [putting EXCEPT !.at = "wrap"]
           /\ \E ch \in {LETTER, NEWLINE} : term' = putchar_show(term, ch)
        \/ /\ putting.at = "wrap" /\ putting' = [putting EXCEPT !.at = "scroll"]
           /\ term' = putchar_wrap(term)
        \/ /\ putting.at = "scroll" /\ putting' = NotPutting
           /\ term' = putchar_scroll(term)
    BY <1>7 DEF putchar_in_memory
  <2>3. CASE putting.at = "no"
    BY <2>1, <2>2, <2>3, ShowEnds DEF Cursor
  <2>4. CASE putting.at = "wrap"
    BY <2>1, <2>2, <2>4, WrapEdges DEF Cursor
  <2>5. CASE putting.at = "scroll"
    BY <2>1, <2>2, <2>5, ScrollEdges DEF Cursor, NotPutting
  <2> QED BY <2>2, <2>3, <2>4, <2>5
<1>8. CASE putchar_in_registers
  <2>1. UNCHANGED <<pc, frame, status>> /\ pc = "run" /\ frame = NULL /\ term \in Terms
    BY <1>8 DEF putchar_in_registers, Running, Cursor
  <2>2. CASE putting.at = "no"
    <3>1. PICK ch \in {LETTER, NEWLINE} :
             /\ putting' = [at |-> "store", x |-> terminal_putchar(term, ch).x,
                            y |-> terminal_putchar(term, ch).y]
             /\ term' = [terminal_putchar(term, ch) EXCEPT !.x = term.x, !.y = term.y]
      BY <1>8, <2>2 DEF putchar_in_registers
    <3> DEFINE done == terminal_putchar(term, ch)
    <3>2. done \in Terms /\ OnScreen(done) /\ OnScreen(term)
      BY <2>1, <2>2, PutcharOn DEF Cursor
    <3>3. /\ putting' = [at |-> "store", x |-> done.x, y |-> done.y]
          /\ term' = [done EXCEPT !.x = term.x, !.y = term.y]
      BY <3>1
    <3> HIDE DEF done
    <3>4. term' \in Terms /\ OnScreen(term')
      BY <2>1, <3>2, <3>3 DEF Terms, OnScreen
    <3>5. /\ putting' \in [at : {"no", "wrap", "scroll", "store"}, x : Nat, y : Nat]
          /\ putting'.at = "store"
          /\ putting'.x < VGA_WIDTH /\ putting'.y < VGA_HEIGHT
      BY <3>2, <3>3 DEF Terms, OnScreen
    <3> QED BY <2>1, <3>4, <3>5 DEF Cursor
  <2>3. CASE putting.at = "store"
    <3>1. putting' = NotPutting /\ term' = [term EXCEPT !.x = putting.x, !.y = putting.y]
      BY <1>8, <2>3 DEF putchar_in_registers
    <3>2. putting.x \in Nat /\ putting.y \in Nat /\ putting.x < VGA_WIDTH /\ putting.y < VGA_HEIGHT
      BY <2>1, <2>3 DEF Cursor
    <3>3. term' \in Terms /\ OnScreen(term')
      BY <2>1, <3>1, <3>2 DEF Terms, OnScreen
    <3> QED BY <2>1, <3>1, <3>3 DEF Cursor, NotPutting
  <2> QED BY <1>8, <2>2, <2>3 DEF putchar_in_registers
<1>9. CASE irq_handler
  <2>1. /\ UNCHANGED <<pc, putting, status>> /\ status = "ok"
        /\ term' = term \/ term' = terminal_putchar(terminal_putchar(term, LETTER), NEWLINE)
    BY <1>1, <1>9 DEF irq_handler, printf, screen, NoHandler
  <2>2. CASE term' = term
    BY <2>1, <2>2 DEF Cursor
  <2>3. CASE term' = terminal_putchar(terminal_putchar(term, LETTER), NEWLINE)
    <3>1. term' \in Terms /\ OnScreen(term')
      BY <1>3, <2>1, <2>3, MessageOn
    <3> QED BY <1>2, <2>1, <3>1 DEF Cursor
  <2> QED BY <2>1, <2>2, <2>3
<1>10. CASE irq_return
  BY <1>10 DEF irq_return, screen, Cursor
<1>11. CASE exception_handler
  <2>1. /\ UNCHANGED <<pc, putting>> /\ status' # "ok" /\ frame # NULL
        /\ \/ frame' = [frame EXCEPT !.routine = interrupt_handlers[frame.int_no]]
           \/ frame' = frame
    BY <1>11 DEF exception_handler, panic
  <2>2. frame' \in Frames
    <3>1. frame \in Frames /\ frame.int_no \in 0 .. (EXCEPTIONS - 1)
      BY <1>11, <2>1 DEF Serving, exception_handler
    <3>2. interrupt_handlers[frame.int_no] \in Handlers
      BY <3>1, Sizes DEF Serving, Vectors
    <3> QED BY <2>1, <3>1, <3>2 DEF Frames
  <2> QED BY <2>1, <2>2, NullIsNothing DEF Cursor
<1>12. CASE UNCHANGED <<pc, putting, term>> /\ (frame = NULL \/ status = "ok")
  BY <1>12 DEF Cursor
<1>13. CASE \/ interrupt \/ \E n \in Devices : raise(n)
            \/ \E c \in {1, 2} : spurious_interrupt(c)
            \/ \E v \in Faults, code \in Codes \cup {0} : exception(v, code)
  BY <1>12, <1>13 DEF interrupt, raise, spurious_interrupt, exception, enter_gate, screen
<1>14. CASE UNCHANGED vars
  BY <1>14 DEF vars, screen, Cursor
<1> QED BY <1>4, <1>5, <1>6, <1>7, <1>8, <1>9, <1>10, <1>11, <1>13, <1>14
        DEF Next, kernel_main, Service

-----------------------------------------------------------------------------
(* The theorems.                                                           *)

IInv ==
    Gates /\ Chips /\ Serving /\ InServiceExact /\ Port /\ SerialReady /\ Cursor

\* The inductive invariant holds in every state.
THEOREM AlwaysServed == Spec => []IInv
<1>1. Init => IInv
  BY InitGates, InitChips, InitServing, InitPort, InitCursor DEF IInv
<1>2. IInv /\ [Next]_vars => IInv'
  BY NextGates, NextChips, NextServing, NextPort, NextCursor DEF IInv
<1> QED BY <1>1, <1>2, PTL DEF Spec

\* For every set of devices and every number of lines: each controller has
\* exactly the line in service whose EOI irq_handler still has to send.
THEOREM ServiceExact == Spec => []InServiceExact
<1>1. IInv => InServiceExact
  BY DEF IInv
<1> QED BY <1>1, AlwaysServed, PTL

\* For every number of lines and exceptions: once irq_install is done, the
\* interrupt of a line reaches irq_handler with the number of that line.
THEOREM LinesReachRoutines == Spec => []RoutineOfLine
<1>1. IInv => RoutineOfLine
  BY DEF IInv, Serving, RoutineOfLine, FromDevice
<1> QED BY <1>1, AlwaysServed, PTL

\* serial_initialize leaves the port ready, wherever interrupts print.
THEOREM PortReady == Spec => []SerialReady
<1>1. IInv => SerialReady
  BY DEF IInv
<1> QED BY <1>1, AlwaysServed, PTL

\* For every screen of two columns or more: an interrupt that prints inside
\* of terminal_putchar never leaves the cursor outside of the screen.
THEOREM CursorComesBack == Spec => []CursorRecovers
<1>1. IInv => CursorRecovers
  BY DEF IInv, Cursor, CursorRecovers, OnScreen
<1> QED BY <1>1, AlwaysServed, PTL
=============================================================================
