----------------------------- MODULE Interrupts -----------------------------
(***************************************************************************)
(* Boot and interrupts: kernel_main installs the descriptor tables, the    *)
(* interrupt controllers, the serial port, the terminal and the handlers   *)
(* while devices may ask for interrupts at any time; then the shell prints *)
(* for ever.  Code between two steps of kernel_main can be interrupted     *)
(* whenever the interrupt flag is set.  A 32-bit number is a pair of       *)
(* halves.  What timer_handler and keyboard_handler do is in the modules   *)
(* Scheduler and Keyboard.                                                 *)
(***************************************************************************)
EXTENDS Pic, Serial, Terminal

CONSTANTS
    EXCEPTIONS,        \* gates that belong to the CPU (32)
    BIOS1, BIOS2,      \* the offsets the firmware leaves in the controllers
    VECTORS,           \* entries of the IDT (256)
    PAGE_FAULT,        \* its vector (14)
    Faults,            \* the exceptions that happen
    ErrorVectors,      \* those that push an error code
    Codes,             \* error codes
    Devices,           \* interrupt lines that are in use
    LETTER,            \* any character that is shown
    NULL               \* no handler, no frame, no line

ASSUME InterruptConstants ==
    /\ {EXCEPTIONS, VECTORS, BIOS1, BIOS2} \subseteq Nat
    /\ Faults \subseteq 0 .. (EXCEPTIONS - 1)
    /\ PAGE_FAULT \in ErrorVectors /\ ErrorVectors \subseteq Faults
    /\ EXCEPTIONS + 2 * LINES <= VECTORS
    /\ BIOS1 + LINES <= VECTORS /\ BIOS2 + LINES <= VECTORS
    /\ Devices \subseteq 0 .. (2 * LINES - 1) /\ 2 \notin Devices
    /\ LETTER \notin {NEWLINE, NUL} /\ VGA_WIDTH > 1

VARIABLES
    pc, k,                         \* where kernel_main is; its loop counter
    intr,                          \* the interrupt flag
    gdt, idt,
    pic, uart,
    terminal_buffer, term,         \* NULL or VGA_MEMORY; the terminal
    putting,                       \* where terminal_putchar is, in the shell,
                                   \* and the cursor it holds in registers
    irq_routines, interrupt_handlers,
    frame,                         \* the interrupt being served
    status,                        \* ok, halted, panic or reset
    wild                           \* something was written at NULL

tables == <<gdt, idt>>
handlers == <<irq_routines, interrupt_handlers>>
screen == <<terminal_buffer, term, wild>>
vars == <<pc, k, intr, tables, pic, uart, screen, putting, handlers, frame,
          status>>

Lines16 == 0 .. (2 * LINES - 1)

\* The addresses of the stubs that isr.S and irq.S export in their tables.
isr_stub_table == [v \in 0 .. (EXCEPTIONS - 1) |-> <<0, 4 * v>>]
irq_stub_table == [n \in Lines16 |-> <<1, 4 * n>>]

NoDescriptor ==
    [limit_low |-> 0, base_low |-> 0, base_middle |-> 0, access |-> 0,
     granularity |-> 0, base_high |-> 0]
NoGate == [base_low |-> 0, base_high |-> 0, selector |-> 0, flags |-> 0]

\* The registers that a stub saves, with what the handler called for them.
Handlers == {NULL, "timer_handler", "keyboard_handler", "page_fault"}
Frames ==
    [line : Lines16 \cup {NULL}, spurious : BOOLEAN, code : Codes \cup {0},
     kind : {"isr", "irq", "none"}, int_no : 0 .. (VECTORS - 1) \cup {NULL},
     err_code : {0}, phase : {"stub", "done"}, routine : Handlers]

ASSUME NullIsNothing == NULL \notin Lines16 /\ NULL \notin Frames

NotPutting == [at |-> "no", x |-> 0, y |-> 0]

\* What the loader and the firmware leave behind.
Init ==
    /\ pc = "check" /\ k = 0
    /\ intr = FALSE
    /\ gdt = [i \in 0 .. 2 |-> NoDescriptor]
    /\ idt = [v \in 0 .. (VECTORS - 1) |-> NoGate]
    /\ \E imr \in {{}, Lines} :
          pic = [c \in {1, 2} |->
                   [icw |-> 0, offset |-> IF c = 1 THEN BIOS1 ELSE BIOS2,
                    link |-> IF c = 1 THEN 4 ELSE 2,
                    imr |-> imr, irr |-> {}, isr |-> {}]]
    /\ uart = [dlab |-> FALSE, line |-> 0, divisor_low |-> 12,
               divisor_high |-> 0, interrupts |-> 0, fifo |-> 0, modem |-> 0]
    /\ terminal_buffer = NULL /\ term = terminal_initialize /\ wild = FALSE
    /\ putting = NotPutting
    /\ irq_routines = [n \in Lines16 |-> NULL]
    /\ interrupt_handlers = [v \in 0 .. (VECTORS - 1) |-> NULL]
    /\ frame = NULL
    /\ status = "ok"

(***************************************************************************)
(* Printing: terminal_putchar shows the character and sends it to the      *)
(* serial port, ready or not: what the chip keeps is the last one.         *)
(***************************************************************************)
printf(text) ==
    /\ term' = terminal_write(term, text)
    /\ wild' = (wild \/ terminal_buffer = NULL)
    /\ uart' = serial_write(uart, Last(text))
    /\ UNCHANGED terminal_buffer

\* PANIC: cli, the message, an endless loop.
panic ==
    /\ intr' = FALSE
    /\ printf(<<LETTER, NEWLINE>>)
    /\ status' = "panic"

(***************************************************************************)
(* The steps of kernel_main.                                               *)
(***************************************************************************)
Running(here) == pc = here /\ frame = NULL /\ status = "ok"

\* The magic number and the memory map of the loader are right or not.
check ==
    /\ Running("check")
    /\ \/ /\ pc' = "gdt"
          /\ UNCHANGED <<intr, screen, uart, status>>
       \/ panic /\ UNCHANGED pc
    /\ UNCHANGED <<k, tables, pic, putting, handlers, frame>>

gdt_set_descriptor(base, limit, access, granularity) ==
    [limit_low |-> limit[2], base_low |-> base[2],
     base_middle |-> base[1] % 256, base_high |-> base[1] \div 256,
     access |-> access,
     granularity |-> (limit[1] % 16) + 16 * (granularity \div 16)]

gdt_install ==
    /\ Running("gdt")
    /\ gdt' = [i \in 0 .. 2 |->
         CASE i = 0 -> gdt_set_descriptor(<<0, 0>>, <<0, 0>>, 0, 0)
           [] i = 1 -> gdt_set_descriptor(<<0, 0>>, <<65535, 65535>>, 154, 207)
           [] i = 2 -> gdt_set_descriptor(<<0, 0>>, <<65535, 65535>>, 146, 207)]
    /\ pc' = "idt"
    /\ UNCHANGED <<k, intr, idt, pic, uart, screen, putting, handlers, frame,
                   status>>

\* The table is cleared and loaded, and idt_load enables interrupts.
idt_install ==
    /\ Running("idt")
    /\ idt' = [v \in DOMAIN idt |-> NoGate]
    /\ intr' = TRUE
    /\ pc' = "isr" /\ k' = 0
    /\ UNCHANGED <<gdt, pic, uart, screen, putting, handlers, frame, status>>

\* Mutant of idt_set_descriptor: the high half of the address is dropped.
idt_set_descriptor_low(base, selector, flags) ==
    [base_low |-> base[2], base_high |-> 0,
     selector |-> selector, flags |-> flags]

idt_set_descriptor(base, selector, flags) ==
    [base_low |-> base[2], base_high |-> base[1],
     selector |-> selector, flags |-> flags]

isr_install ==
    /\ Running("isr")
    /\ idt' = [idt EXCEPT ![k] = idt_set_descriptor(isr_stub_table[k], 8, 142)]
    /\ IF k + 1 < EXCEPTIONS
       THEN k' = k + 1 /\ UNCHANGED pc
       ELSE k' = 0 /\ pc' = "remap"
    /\ UNCHANGED <<intr, gdt, pic, uart, screen, putting, handlers, frame, status>>

\* The ports of irq_remap with the bytes it writes: <<chip, operation, byte>>.
irq_remap ==
    <<<<1, "command", ICW1>>, <<2, "command", ICW1>>,
      <<1, "data", EXCEPTIONS>>, <<2, "data", EXCEPTIONS + LINES>>,
      <<1, "data", 4>>, <<2, "data", 2>>,
      <<1, "data", 1>>, <<2, "data", 1>>,
      <<1, "data", 0>>, <<2, "data", 0>>>>

\* The first part of irq_install.
irq_install_remap ==
    LET out == irq_remap[k + 1]
        c   == out[1]
    IN  /\ Running("remap")
        /\ pic' = [pic EXCEPT ![c] = IF out[2] = "command"
                                     THEN pic_command(@, out[3])
                                     ELSE pic_data(@, out[3])]
        /\ IF k + 1 < Len(irq_remap)
           THEN k' = k + 1 /\ UNCHANGED pc
           ELSE k' = 0 /\ pc' = "gates"
        /\ UNCHANGED <<intr, tables, uart, screen, putting, handlers, frame, status>>

\* The second part of irq_install.
irq_install_gates ==
    /\ Running("gates")
    /\ idt' = [idt EXCEPT ![k + EXCEPTIONS] =
                  idt_set_descriptor(irq_stub_table[k], 8, 142)]
    /\ IF k + 1 < 2 * LINES
       THEN k' = k + 1 /\ UNCHANGED pc
       ELSE k' = 0 /\ pc' = "serial"
    /\ UNCHANGED <<intr, gdt, pic, uart, screen, putting, handlers, frame, status>>

initialize_serial ==
    LET out == serial_initialize[k + 1]
    IN  /\ Running("serial")
        /\ uart' = uart_outb(uart, out[1], out[2])
        /\ IF k + 1 < Len(serial_initialize)
           THEN k' = k + 1 /\ UNCHANGED pc
           ELSE k' = 0 /\ pc' = "terminal"
        /\ UNCHANGED <<intr, tables, pic, screen, putting, handlers, frame, status>>

initialize_terminal ==
    /\ Running("terminal")
    /\ terminal_buffer' = "VGA_MEMORY"
    /\ term' = terminal_clearscreen(term)
    /\ pc' = "timer"
    /\ UNCHANGED <<k, intr, tables, pic, uart, wild, putting, handlers, frame,
                   status>>

register_request_handler(n, handler) ==
    irq_routines' = [irq_routines EXCEPT ![n] = handler]

timer_install ==
    /\ Running("timer")
    /\ register_request_handler(0, "timer_handler")
    /\ pc' = "keyboard"
    /\ UNCHANGED <<k, intr, tables, pic, uart, screen, putting,
                   interrupt_handlers, frame, status>>

keyboard_install ==
    /\ Running("keyboard")
    /\ register_request_handler(1, "keyboard_handler")
    /\ pc' = "vm"
    /\ UNCHANGED <<k, intr, tables, pic, uart, screen, putting,
                   interrupt_handlers, frame, status>>

\* vm_initialize, as far as it concerns interrupts.
register_interrupt_handler ==
    /\ Running("vm")
    /\ interrupt_handlers' = [interrupt_handlers EXCEPT ![PAGE_FAULT] = "page_fault"]
    /\ pc' = "cli"
    /\ UNCHANGED <<k, intr, tables, pic, uart, screen, putting, irq_routines,
                   frame, status>>

\* proc_initialize disables interrupts and enables them again.
proc_initialize ==
    /\ \/ Running("cli") /\ pc' = "sti" /\ intr' = FALSE
       \/ Running("sti") /\ pc' = "start" /\ intr' = TRUE
    /\ UNCHANGED <<k, tables, pic, uart, screen, putting, handlers, frame, status>>

\* The end of kernel_main: sti, and the shell.
start_shell ==
    /\ Running("start")
    /\ intr' = TRUE
    /\ pc' = "run"
    /\ UNCHANGED <<k, tables, pic, uart, screen, putting, handlers, frame, status>>

(***************************************************************************)
(* terminal_putchar, called by kernel_main and the shell with interrupts   *)
(* enabled.  The compiler may work on the cursor in memory or keep it in   *)
(* registers and store it at the end: an interrupt that prints in between  *)
(* is seen or overwritten.                                                 *)
(***************************************************************************)
putchar_in_memory ==
    /\ Running("run")
    /\ \/ /\ putting.at = "no" /\ putting' = [putting EXCEPT !.at = "wrap"]
          /\ \E ch \in {LETTER, NEWLINE} : term' = putchar_show(term, ch)
          /\ UNCHANGED uart
       \/ /\ putting.at = "wrap" /\ putting' = [putting EXCEPT !.at = "scroll"]
          /\ term' = putchar_wrap(term)
          /\ UNCHANGED uart
       \/ /\ putting.at = "scroll" /\ putting' = NotPutting
          /\ term' = putchar_scroll(term)
          /\ uart' = serial_write(uart, LETTER)
    /\ UNCHANGED <<pc, k, intr, tables, pic, terminal_buffer, wild, handlers,
                   frame, status>>

putchar_in_registers ==
    /\ Running("run")
    /\ \/ \E ch \in {LETTER, NEWLINE} :
             LET done == terminal_putchar(term, ch)
             IN  /\ putting.at = "no"
                 /\ putting' = [at |-> "store", x |-> done.x, y |-> done.y]
                 /\ term' = [done EXCEPT !.x = term.x, !.y = term.y]
                 /\ UNCHANGED uart
       \/ /\ putting.at = "store" /\ putting' = NotPutting
          /\ term' = [term EXCEPT !.x = putting.x, !.y = putting.y]
          /\ uart' = serial_write(uart, LETTER)
    /\ UNCHANGED <<pc, k, intr, tables, pic, terminal_buffer, wild, handlers,
                   frame, status>>

(***************************************************************************)
(* Interrupts and exceptions.                                              *)
(***************************************************************************)

\* A device pulls its line.
raise(n) ==
    /\ status = "ok"
    /\ pic' = [pic EXCEPT ![(n \div LINES) + 1].irr = @ \cup {n % LINES}]
    /\ UNCHANGED <<pc, k, intr, tables, uart, screen, putting, handlers, frame,
                   status>>

\* The CPU can use a gate that is present and names a flat code segment.
Usable(gate) ==
    /\ gate.flags = 142
    /\ gate.selector \div 8 \in DOMAIN gdt
    /\ LET segment == gdt[gate.selector \div 8]
       IN  /\ segment.access = 154
           /\ segment.base_low = 0 /\ segment.base_middle = 0 /\ segment.base_high = 0
           /\ segment.limit_low = 65535 /\ segment.granularity = 207

Address(gate) == <<gate.base_high, gate.base_low>>

\* The CPU goes through a gate, and the stub it names pushes its number.  A
\* gate that cannot be used ends in a triple fault.
enter_gate(vector, line, spurious, code) ==
    LET gate == idt[vector]
        seen(kind, no) == [line |-> line, spurious |-> spurious, code |-> code,
                           kind |-> kind, int_no |-> no, err_code |-> 0,
                           phase |-> "stub", routine |-> NULL]
    IN  /\ intr' = FALSE
        /\ \/ /\ Usable(gate)
              /\ \/ \E v \in {v \in DOMAIN isr_stub_table :
                                isr_stub_table[v] = Address(gate)} :
                       frame' = seen("isr", v)
                 \/ \E n \in {n \in DOMAIN irq_stub_table :
                                irq_stub_table[n] = Address(gate)} :
                       frame' = seen("irq", n + EXCEPTIONS)
              /\ UNCHANGED status
           \/ /\ ~Usable(gate)
              /\ frame' = seen("none", NULL)
              /\ status' = "reset"
        /\ UNCHANGED <<pc, k, tables, uart, screen, putting, handlers>>

\* An interrupt is taken between two instructions of the kernel.
interrupt ==
    /\ status = "ok" /\ frame = NULL /\ intr
    /\ Pending1(pic) # {}
    /\ \E taken \in {acknowledge(pic)} :
          /\ pic' = taken.pic
          /\ enter_gate(taken.vector, taken.irq, FALSE, 0)

spurious_interrupt(c) ==
    /\ status = "ok" /\ frame = NULL /\ intr
    /\ Pending1(pic) = {} /\ \A d \in {1, 2} : pic[d].icw = 0 /\ pic[d].imr = {}
    /\ \E taken \in {acknowledge_spurious(pic, c)} :
          /\ pic' = taken.pic
          /\ enter_gate(taken.vector, taken.irq, TRUE, 0)

\* The kernel itself raises an exception.
exception(v, code) ==
    /\ status = "ok" /\ frame = NULL /\ pc \notin {"check", "gdt", "idt"}
    /\ v \notin ErrorVectors => code = 0
    /\ enter_gate(v, NULL, FALSE, code)
    /\ UNCHANGED pic

\* Mutant of send_eoi: the first line of chip 2 is taken for one of chip 1.
send_eoi_late(int_no) ==
    [pic EXCEPT ![1] = pic_command(@, EOI),
                ![2] = IF int_no > EXCEPTIONS + LINES
                       THEN pic_command(@, EOI) ELSE @]

send_eoi(int_no) ==
    [pic EXCEPT ![1] = pic_command(@, EOI),
                ![2] = IF int_no >= EXCEPTIONS + LINES
                       THEN pic_command(@, EOI) ELSE @]

\* Mutant of NoHandler: the message does not end the line.
NoHandler_open == <<LETTER>>

\* "No handler registered for IRQ %d\n".
NoHandler == <<LETTER, NEWLINE>>

irq_handler ==
    LET handler == irq_routines[frame.int_no - EXCEPTIONS]
    IN  /\ status = "ok" /\ frame # NULL
        /\ frame.kind = "irq" /\ frame.phase = "stub"
        /\ pic' = send_eoi(frame.int_no)
        /\ frame' = [frame EXCEPT !.phase = "done", !.routine = handler]
        /\ IF handler # NULL THEN UNCHANGED <<screen, uart>> ELSE printf(NoHandler)
        /\ UNCHANGED <<pc, k, intr, tables, putting, handlers, status>>

\* Mutant of irq_return: the flag is not restored.
irq_return_masked ==
    /\ status = "ok" /\ frame # NULL /\ frame.phase = "done"
    /\ frame' = NULL
    /\ UNCHANGED <<pc, k, intr, tables, pic, uart, screen, putting, handlers,
                   status>>

\* The rest of irq_common_stub: iret brings the flag back.
irq_return ==
    /\ status = "ok" /\ frame # NULL /\ frame.phase = "done"
    /\ frame' = NULL
    /\ intr' = TRUE
    /\ UNCHANGED <<pc, k, tables, pic, uart, screen, putting, handlers, status>>

\* page_fault analyses regs->err_code and panics; without a handler the
\* message is printed and the system loops with interrupts disabled.
exception_handler ==
    /\ status = "ok" /\ frame # NULL /\ frame.kind = "isr"
    /\ \/ /\ interrupt_handlers[frame.int_no] # NULL
          /\ frame' = [frame EXCEPT !.routine = interrupt_handlers[frame.int_no]]
          /\ panic
       \/ /\ interrupt_handlers[frame.int_no] = NULL
          /\ printf(<<NEWLINE, LETTER, NEWLINE>>)
          /\ status' = "halted"
          /\ UNCHANGED <<frame, intr>>
    /\ UNCHANGED <<pc, k, tables, pic, putting, handlers>>

kernel_main ==
    \/ check \/ gdt_install \/ idt_install \/ isr_install
    \/ irq_install_remap \/ irq_install_gates
    \/ initialize_serial \/ initialize_terminal
    \/ timer_install \/ keyboard_install
    \/ register_interrupt_handler \/ proc_initialize \/ start_shell

Service == interrupt \/ irq_handler \/ irq_return \/ exception_handler

Next ==
    \/ kernel_main \/ putchar_in_memory \/ putchar_in_registers
    \/ Service
    \/ \E n \in Devices : raise(n)
    \/ \E c \in {1, 2} : spurious_interrupt(c)
    \/ \E v \in Faults, code \in Codes \cup {0} : exception(v, code)

\* The CPU takes an interrupt that is pending while the flag is set, and goes
\* on in the handler.
Fairness == WF_vars(Service)

Spec == Init /\ [][Next]_vars /\ Fairness

(***************************************************************************)
(* Properties.                                                             *)
(***************************************************************************)

AfterSerial == {"terminal", "timer", "keyboard", "vm", "cli", "sti", "start", "run"}

Installing == {"isr", "remap", "gates"}

FromDevice == frame # NULL /\ frame.line # NULL

\* irq_install ("Remap IRQ 0-7 to IDT entry 32-47") and irq.S: from the end
\* of irq_install on, the interrupt of every line, the spurious ones too,
\* reaches irq_handler with the number of that line; before it, a line that
\* asks is taken for an exception or finds no gate.
RoutineOfLine ==
    FromDevice /\ pc \notin Installing =>
       frame.kind = "irq" /\ frame.int_no = EXCEPTIONS + frame.line

\* irq_handler ("Send EOI(0x20) to two chips of IRQ controllers"): each
\* controller has exactly the line in service whose handler has not sent the
\* EOI yet, so that no line stays blocked and none is released early.
InServiceExact ==
    status = "ok" =>
       LET waiting == FromDevice /\ frame.phase = "stub"
           second  == waiting /\ frame.line >= LINES
       IN  /\ pic[2].isr = IF second /\ ~frame.spurious
                           THEN {frame.line - LINES} ELSE {}
           /\ pic[1].isr = IF second THEN BitsOf(4)
                           ELSE IF waiting /\ ~frame.spurious
                           THEN {frame.line} ELSE {}

\* serial_initialize: however interrupts print in between, the port ends with
\* its data register and not the divisor behind the data port, 8 data bits,
\* no interrupts of its own, the queues and the modem lines on.
SerialReady ==
    pc \in AfterSerial =>
       /\ ~uart.dlab /\ uart.line = 3 /\ uart.interrupts = 0
       /\ uart.fifo = 199 /\ uart.modem = 3

\* terminal_putchar, interrupted anywhere by an IRQ that prints: between two
\* characters the cursor is on the screen again.
CursorRecovers ==
    frame = NULL /\ putting.at = "no" => term.x < VGA_WIDTH /\ term.y < VGA_HEIGHT

\* timer_handler ("The timer fires 18.222 times per second"): once the system
\* is up, a tick that is asked for is served, unless an exception stops the
\* system: every interrupt before it was acknowledged and returned.
TickServed ==
    pc = "run" /\ 0 \in pic[1].irr ~>
       \/ FromDevice /\ frame.line = 0 /\ frame.routine = "timer_handler"
       \/ status # "ok"

\* serial_initialize ("Set Serial baud rate divisor to 3 (38400 baud)"): the
\* divisor is 3 when the port has been initialised.
DivisorSet ==
    pc \in AfterSerial =>
       uart.divisor_low + 256 * uart.divisor_high = DIVISOR

\* kernel_main (PANIC "Invalid magic number"), irq_handler and
\* exception_handler: a message goes to the screen.
MessageOnScreen == ~wild

\* terminal_putentryat ("Display given character on terminal"): no character
\* lands behind the text memory.
NothingBehindScreen == ~term.stray

\* irq_install ("Remap IRQ 0-7 to IDT entry 32-47"): no interrupt of a
\* device is taken for an exception.
NoDeviceException == FromDevice => frame.kind = "irq"

\* page_fault ("Analyze the error code"): the code it sees is the one the CPU
\* pushed.
ErrorCodeSeen == frame # NULL => frame.err_code = frame.code
=============================================================================
