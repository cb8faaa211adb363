------------------------------- MODULE Serial -------------------------------
(***************************************************************************)
(* The serial port, serial.c.  The chip behind the ports is a record; the  *)
(* data port reaches the low byte of the divisor instead of the            *)
(* transmitter while "dlab" is set, the port after it the high byte        *)
(* instead of the interrupt enable register.                               *)
(***************************************************************************)
EXTENDS Integers, Sequences

\* The ports, by their distance from the base.
SERIAL_DATA_PORT == 0
SERIAL_INTERRUPT_PORT == 1
SERIAL_FIFO_COMMAND_PORT == 2
SERIAL_LINE_COMMAND_PORT == 3
SERIAL_MODEM_COMMAND_PORT == 4

SERIAL_LINE_ENABLE_DLAB == 128

\* A byte written to a port of the chip.
uart_outb(u, port, byte) ==
    CASE port = SERIAL_DATA_PORT ->
            IF u.dlab THEN [u EXCEPT !.divisor_low = byte] ELSE u
      [] port = SERIAL_INTERRUPT_PORT ->
            IF u.dlab THEN [u EXCEPT !.divisor_high = byte]
                      ELSE [u EXCEPT !.interrupts = byte]
      [] port = SERIAL_LINE_COMMAND_PORT ->
            [u EXCEPT !.dlab = byte >= SERIAL_LINE_ENABLE_DLAB,
                      !.line = byte % SERIAL_LINE_ENABLE_DLAB]
      [] port = SERIAL_FIFO_COMMAND_PORT  -> [u EXCEPT !.fifo = byte]
      [] port = SERIAL_MODEM_COMMAND_PORT -> [u EXCEPT !.modem = byte]

\* Both bytes of the divisor go to the data port.
serial_configure_baud_rate(divisor) ==
    <<<<SERIAL_LINE_COMMAND_PORT, SERIAL_LINE_ENABLE_DLAB>>,
      <<SERIAL_DATA_PORT, (divisor \div 256) % 256>>,
      <<SERIAL_DATA_PORT, divisor % 256>>>>

serial_configure_line == <<<<SERIAL_LINE_COMMAND_PORT, 3>>>>
serial_configure_buffers == <<<<SERIAL_FIFO_COMMAND_PORT, 199>>>>
serial_configure_modem == <<<<SERIAL_MODEM_COMMAND_PORT, 3>>>>

DIVISOR == 3

\* Mutant of serial_initialize: the line is configured before the baud rate.
serial_initialize_line_first ==
    <<<<SERIAL_INTERRUPT_PORT, 0>>>> \o serial_configure_line
    \o serial_configure_baud_rate(DIVISOR)
    \o serial_configure_buffers \o serial_configure_modem

\* The bytes that serial_initialize writes, in order.
serial_initialize ==
    <<<<SERIAL_INTERRUPT_PORT, 0>>>> \o serial_configure_baud_rate(DIVISOR)
    \o serial_configure_line \o serial_configure_buffers
    \o serial_configure_modem

\* Wait for the transmitter, which empties by itself, and write.
serial_write(u, ch) == uart_outb(u, SERIAL_DATA_PORT, ch)
=============================================================================
