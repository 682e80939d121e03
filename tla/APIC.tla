-------------------------------- MODULE APIC --------------------------------
(***************************************************************************)
(* The interrupt controllers of the AMD64 port: the IO-APIC, the local     *)
(* APIC of the boot core and the legacy PIC (src/arch/x86/driver/          *)
(* IOAPIC.cc, LocalAPIC.cc, LegacyPIC.cc).  An operator is one method on   *)
(* a record of the registers it reads and writes; Raise, Acceptable and    *)
(* Accept are the hardware's and external.                                 *)
(***************************************************************************)
EXTENDS Integers, Sequences, FiniteSetsExt

CONSTANT MaximumRedirectionEntries  \* the index of the last pin, as the version register tells it

(***************************************************************************)
(* IO-APIC: a table of redirection entries, one per pin.                   *)
(***************************************************************************)
Pin == 0 .. MaximumRedirectionEntries

INTERRUPT_INPUT_KEYBOARD == 1
INTERRUPT_INPUT_UART_1 == 4

\* The fields of an entry; out of reset a pin is masked and its vector is 0.
ResetEntry == [vector |-> 0, delivery |-> "fixed", physical |-> TRUE, high |-> TRUE,
               edge |-> TRUE, destination |-> 0, masked |-> TRUE]
ResetTable == [id |-> 0, entry |-> [p \in Pin |-> ResetEntry]]

setID(io, ioapicID) == [io EXCEPT !.id = ioapicID]

\* The version register holds the index of the last entry and the loop stops
\* before it: the last pin keeps its reset value.
initialize(io) ==
    [setID(io, 0) EXCEPT !.entry =
        [p \in Pin |-> IF p < MaximumRedirectionEntries
                       THEN [vector |-> 32 + p, delivery |-> "fixed", physical |-> TRUE, high |-> TRUE,
                             edge |-> TRUE, destination |-> 0, masked |-> TRUE]
                       ELSE @[p]]]

setInterruptMask(io, p, masked) == [io EXCEPT !.entry[p].masked = masked]

(***************************************************************************)
(* IDT: a vector below 32 is a trap.                                       *)
(***************************************************************************)
IsTrap(vector) == vector < 32

(***************************************************************************)
(* Legacy PIC: remapped behind the traps and masked altogether.            *)
(***************************************************************************)
remapToOffset(pic, offset) == [pic EXCEPT !.master = offset, !.slave = offset + 8]

disable(pic) == [remapToOffset(pic, 32) EXCEPT !.masked = 0 .. 15]

(***************************************************************************)
(* Local APIC of the boot core.  "irr" and "isr" are the vectors requested *)
(* and in service; "lvt" is the entry of the timer.                        *)
(***************************************************************************)
HW_INT_LOCAL_APIC_TIMER == 66

ResetLocal == [on |-> FALSE, irr |-> {}, isr |-> {}, priority |-> 15, destinationMode |-> 15,
               divider |-> 0, timeBase |-> 0,
               initial |-> 0, lvt |-> [vector |-> 0, periodic |-> FALSE, masked |-> TRUE]]

\* TIMER_DIVIDER_VALUE_t: powers of two from 2 on, and 1 behind them.
DIVIDE_BY_1 == 7

\* The two lower bits of the value and its third, one bit further up.
setTimerDivider(l, dividerVal) ==
    [l EXCEPT !.divider = 8 * ((dividerVal \div 4) % 2) + (dividerVal % 4)]

\* What the timer makes of the register: bit 2 is not used.
Divides(l) ==
    LET value == 4 * (l.divider \div 8) + (l.divider % 4)
    IN  IF value = DIVIDE_BY_1 THEN 1 ELSE 2 ^ (value + 1)

DESTINATION_MODE_FLAT == 15
setDestinationMode(l, mode) == [l EXCEPT !.destinationMode = mode]

\* Faulty variant: the end of the interrupt is not signalled.
sendNoEOI(l) == l

\* The highest vector in service ends.
sendEOI(l) == IF l.isr = {} THEN l ELSE [l EXCEPT !.isr = @ \ {Max(@)}]

setTaskPriority(l, class) == [l EXCEPT !.priority = class]

setTimebase(l, timebase) == [l EXCEPT !.timeBase = timebase]

\* Calibration against channel 2 of the PIT: "elapsed" local ticks go by
\* while it counts 65535 steps of 838 ns; the time base is in ps per tick.
\* TLC's integers end at 2^31: the product is taken in ns, which is exact for
\* the whole nanoseconds that a run uses.
calibrate(l, elapsed) ==
    [setTimebase(setTimerDivider(l, DIVIDE_BY_1), ((838 * 65535) \div elapsed) * 1000)
        EXCEPT !.initial = 0,
               !.lvt = [vector |-> HW_INT_LOCAL_APIC_TIMER, periodic |-> FALSE, masked |-> TRUE]]

\* us * 1000000 / mTimeBase; without a time base the code says that it aborts
\* and divides by zero.
TimerValue(l, us) == (us * 1000) \div (l.timeBase \div 1000)

windupPeriodic(l, us) ==
    [setTimerDivider(l, DIVIDE_BY_1)
        EXCEPT !.initial = TimerValue(l, us),
              !.lvt = [vector |-> HW_INT_LOCAL_APIC_TIMER, periodic |-> TRUE, masked |-> FALSE]]

\* On the boot core, which calibrates its timer.
initializeLocal(l, elapsed) ==
    LET on == [setDestinationMode(l, DESTINATION_MODE_FLAT) EXCEPT !.on = TRUE]
    IN  calibrate(setTaskPriority(sendEOI(on), 0), elapsed)

(***************************************************************************)
(* The hardware.                                                           *)
(***************************************************************************)

\* A pin goes high.
RaisePin(l, io, p) ==
    IF l.on /\ ~io.entry[p].masked THEN [l EXCEPT !.irr = @ \cup {io.entry[p].vector}] ELSE l

\* The local timer reaches zero.
Elapse(l) == IF l.on /\ ~l.lvt.masked THEN [l EXCEPT !.irr = @ \cup {l.lvt.vector}] ELSE l

Acceptable(l) == {v \in l.irr : /\ v \div 16 > l.priority
                                /\ \A w \in l.isr : v \div 16 > w \div 16}
Accept(l, v) == [l EXCEPT !.irr = @ \ {v}, !.isr = @ \cup {v}]
=============================================================================
