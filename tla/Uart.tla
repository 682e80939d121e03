-------------------------------- MODULE Uart --------------------------------
(***************************************************************************)
(* How the four UART drivers set up their device: UART.cc (a 16550 at a PC *)
(* port), OMAPUartDriver.cc (a 16550 with further modes),                  *)
(* ExynosUartDriver.cc and IMX6UartDriver.cc.  A device is a record of its *)
(* registers, an operator one method; Port and what follows the drivers    *)
(* are the meaning of the registers, which is external.                    *)
(***************************************************************************)
EXTENDS Integers, Sequences, SequencesExt

(***************************************************************************)
(* A 16550: what an offset means depends on the line control register.     *)
(***************************************************************************)
Reset16550 == [lcr |-> 0, dll |-> 0, dlh |-> 0, ier |-> 0, fcr |-> 0, efr |-> 0, mcr |-> 0,
               mdr1 |-> 0, sent |-> <<>>]

DATA == 0
IER == 1
FCR == 2
LCR == 3
MCR == 4
MDR1 == 8

DivisorLatch(u) == u.lcr >= 128
ModeB(u) == u.lcr = 191

\* A write <<offset, value>>.
Port(u, write) ==
    LET value == write[2]
    IN  CASE write[1] = DATA /\ DivisorLatch(u)  -> [u EXCEPT !.dll = value]
          [] write[1] = DATA /\ ~DivisorLatch(u) -> [u EXCEPT !.sent = Append(@, value)]
          [] write[1] = IER /\ DivisorLatch(u)   -> [u EXCEPT !.dlh = value]
          [] write[1] = IER /\ ~DivisorLatch(u)  -> [u EXCEPT !.ier = value]
          [] write[1] = FCR /\ ModeB(u)          -> [u EXCEPT !.efr = value]
          [] write[1] = FCR /\ ~ModeB(u)         -> [u EXCEPT !.fcr = value]
          [] write[1] = LCR                      -> [u EXCEPT !.lcr = value]
          [] write[1] = MCR                      -> IF ModeB(u) THEN u ELSE [u EXCEPT !.mcr = value]
          [] write[1] = MDR1                     -> [u EXCEPT !.mdr1 = value]

Ports(u, writes) == FoldLeft(Port, u, writes)

(***************************************************************************)
(* UART.cc.  The first write is meant to mask the interrupts and goes to   *)
(* the data port, which sends it.  Of the last value only the lowest bit   *)
(* is assigned: "garbage" is what the others happen to be.                 *)
(***************************************************************************)
resetController(u, garbage) ==
    Ports(u, << <<DATA, 0>>, <<LCR, 128>>, <<FCR, 6>>, <<MCR, 0>>,
                <<LCR, 128>>, <<DATA, 1>>, <<IER, 0>>, <<LCR, 3>>,
                <<FCR, 199>>, <<MCR, 11>>, <<IER, 1 + garbage>> >>)

(***************************************************************************)
(* OMAPUartDriver.cc.                                                      *)
(***************************************************************************)
SetBitOf(value, bit, on) ==
    IF (value \div 2 ^ bit) % 2 = (IF on THEN 1 ELSE 0) THEN value
    ELSE IF on THEN value + 2 ^ bit ELSE value - 2 ^ bit

BitOf(value, bit) == (value \div 2 ^ bit) % 2 = 1

\* The FIFO triggers are chosen and the FIFO is left off.
configureOMAP(u) ==
    Ports(u, << <<LCR, 191>>, <<FCR, SetBitOf(u.efr, 4, TRUE)>>,
                <<LCR, 128>>, <<MCR, SetBitOf(u.mcr, 6, TRUE)>>, <<FCR, 48>>,
                <<LCR, 191>>, <<FCR, SetBitOf(u.efr, 4, BitOf(u.efr, 4))>>,
                <<LCR, 128>>, <<MCR, SetBitOf(u.mcr, 6, BitOf(u.mcr, 6))>>, <<LCR, u.lcr>> >>)

\* Always 115200 Bd.
setBaudrateOMAP(u) ==
    Ports(u, << <<MDR1, SetBitOf(SetBitOf(SetBitOf(u.mdr1, 0, TRUE), 1, TRUE), 2, TRUE)>>,
                <<LCR, 191>>, <<FCR, SetBitOf(u.efr, 4, TRUE)>>, <<LCR, 0>>, <<IER, 0>>,
                <<LCR, 191>>, <<DATA, 26>>, <<IER, 0>>, <<LCR, 0>>, <<IER, 1>>,
                <<LCR, 191>>, <<FCR, SetBitOf(u.efr, 4, BitOf(u.efr, 4))>>, <<LCR, 0>>,
                <<MDR1, 0>>, <<LCR, 3>> >>)

setRXInterruptsOMAP(u, enable) == Port(u, <<IER, IF enable THEN 1 ELSE 0>>)

initOMAP(u) == setBaudrateOMAP(configureOMAP(u))

(***************************************************************************)
(* ExynosUartDriver.cc: the FIFO is off, the four interrupts are masked by *)
(* the bits of UINTM.                                                      *)
(***************************************************************************)
resetExynos == [ulcon |-> 0, ucon |-> 12288, ufcon |-> 0, ubrdiv |-> 0, ufracval |-> 0,
                uintp |-> {}, uintm |-> 0 .. 3]

configureExynos(u) == [u EXCEPT !.ulcon = 3, !.ucon = 261, !.ufcon = 0, !.uintm = 0 .. 3]

ackRXInterrupt(u) == [u EXCEPT !.uintp = {}]

setRXInterruptsExynos(u, enabled) ==
    [ackRXInterrupt(u) EXCEPT !.uintm = IF enabled THEN @ \ {0} ELSE @ \cup {0}]

\* "baud" is the pair of divisors that the rate of the UART clock gives.
initExynos(baud) ==
    [configureExynos(resetExynos) EXCEPT !.ubrdiv = baud.div, !.ufracval = baud.frac]

(***************************************************************************)
(* IMX6UartDriver.cc: the registers as sets of bits; the boot loader's     *)
(* FIFO and rate settings are saved over the reset.                        *)
(***************************************************************************)
resetIMX6(u) == [u EXCEPT !.ucr2 = {}, !.ucr1 = {}, !.ufcr = {}]

configureIMX6(u, boot) ==
    [u EXCEPT !.ucr1 = {0}, !.ucr2 = {0, 1, 2, 5, 14}, !.ucr3 = {2}, !.ufcr = boot.ufcr]

\* The bytes received before are thrown away.
setRXInterruptsIMX6(u, enable) ==
    IF enable
    THEN [u EXCEPT !.rx = <<>>, !.ucr4 = @ \cup {0, 10}, !.ufcr = @ \cup {0}, !.ucr1 = @ \cup {9}]
    ELSE [u EXCEPT !.ucr1 = @ \ {9}]

initIMX6(u) == configureIMX6(resetIMX6(u), u)

(***************************************************************************)
(* What the settings mean.                                                 *)
(***************************************************************************)
Divisor(u) == u.dlh * 256 + u.dll
FifoOn(u) == BitOf(u.fcr, 0)
TriggerLevel(u) == IF FifoOn(u) THEN <<1, 4, 8, 14>>[u.fcr \div 64 + 1] ELSE 1
ReceiveInterrupt(u) == BitOf(u.ier, 0)
TransmitInterrupt(u) == BitOf(u.ier, 1)
=============================================================================
