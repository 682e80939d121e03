-------------------------- MODULE IMX6Peripherals --------------------------
(***************************************************************************)
(* The watchdog, the temperature monitor and the pins of the i.MX6.        *)
(* Registers of bits are sets of bit numbers; a one that is written to a   *)
(* status bit clears it.  What these drivers do to the interrupt           *)
(* controller is in module ARMGIC.                                         *)
(***************************************************************************)
EXTENDS ClockManagement, FiniteSetsExt

(***************************************************************************)
(* IMX6Watchdog.  WCR.WT is the time to the reset, WICR.WICT how long      *)
(* before it the interrupt comes, both in half seconds, WT less one.  SRS  *)
(* is not asserted while it is set.                                        *)
(***************************************************************************)
WIE == 15
WTIS == 14
WICT == 0 .. 7
WT == 8 .. 15
WDE == 2
SRS == 4

Sum(bits) == FoldSet(LAMBDA b, n : n + 2 ^ b, 0, bits)

Timeout(w) == Sum({b - 8 : b \in w.wcr \cap WT}) + 1

ResetWatchdog ==
    [wcr |-> {4, 5}, wicr |-> {2}, service |-> FALSE, left |-> 0, asserted |-> FALSE]

writeWCR(w, bits) == [w EXCEPT !.wcr = bits, !.asserted = @ \/ SRS \notin bits]

writeWICR(w, bits) ==
    [w EXCEPT !.wicr = (bits \ {WTIS}) \cup (IF WTIS \in bits THEN {} ELSE @ \cap {WTIS})]

\* 0x5555 and then 0xaaaa begin the time again.
writeWSR(w, value) ==
    IF value = 21845 THEN [w EXCEPT !.service = TRUE]
    ELSE IF value = 43690 /\ w.service THEN [w EXCEPT !.service = FALSE, !.left = Timeout(w)]
    ELSE [w EXCEPT !.service = FALSE]

reloadTimer(w) ==
    LET serviced == writeWSR(writeWSR(w, 21845), 43690)
    IN  writeWICR(serviced, serviced.wicr \cup {WTIS})

\* A time out that is already in WCR stays there with its bits.
initializeWatchdog(w) ==
    LET warned == writeWICR(w, ((w.wicr \cup {WIE}) \ ({WTIS} \cup WICT)) \cup {2})
    IN  reloadTimer(writeWCR(warned, warned.wcr \cup {8, 11} \cup {WDE}))

restart_system(w) == writeWCR(w, (w.wcr \cup {WDE, 9}) \ {SRS})

WatchdogInterrupt(w) == {WIE, WTIS} \subseteq w.wicr

\* Half a second passes.
HalfSecond(w) ==
    IF WDE \notin w.wcr THEN w
    ELSE LET left == IF w.left > 0 THEN w.left - 1 ELSE 0
         IN  [w EXCEPT !.left = left, !.asserted = @ \/ left = 0,
                       !.wicr = IF left = Sum(@ \cap WICT) THEN @ \cup {WTIS} ELSE @]

(***************************************************************************)
(* IMX6TempMonitor.  The fused data are the counts at 25 degrees and at    *)
(* a hot temperature; the count falls while the temperature rises.         *)
(***************************************************************************)
cWarningTemp == 70

alarmCount(cal) ==
    cal.hotCount + ((cal.hotTemp - cWarningTemp) * (cal.roomCount - cal.hotCount))
                       \div (cal.hotTemp - 25)

\* What dumpTemps shows of a measured count at or below the hot temperature
dumpTemps(cal, nMes) ==
    (cal.hotTemp * (cal.roomCount - cal.hotCount) - (nMes - cal.hotCount) * (cal.hotTemp - 25))
        \div (cal.roomCount - cal.hotCount)

\* An alarm is raised once the count has fallen to that of the alarm.
initializeTempMonitor(cal) == [alarm |-> alarmCount(cal), powerDown |-> FALSE, measure |-> TRUE]

Alarm(t, nMes) == t.measure /\ ~t.powerDown /\ nMes <= t.alarm

\* The handler throttles the cores to their lowest frequency.
handleAlarm(r) == setCoreFrequencyVoltage(r, mFrequencies[1])

(***************************************************************************)
(* IMX6GPIO, configured for the pins of two pedals or of the CAN           *)
(* controller.  A pad is named for its pin.                                *)
(***************************************************************************)
Ports == {"GPIO1", "GPIO3", "GPIO4", "GPIO7"}
Pins == 0 .. 31

Rising == 2
Falling == 3

PadsOf(config) ==
    IF config = "gpio" THEN {<<"GPIO1", 5>>, <<"GPIO7", 11>>, <<"GPIO4", 12>>, <<"GPIO4", 13>>}
    ELSE {<<"GPIO3", 27>>}

\* Each pad is multiplexed to its pin (ALT5), and the pins of the pedals are
\* made inputs; that of the CAN controller is left as it is.
configurePorts(g, config) ==
    [g EXCEPT
       !.mux = [pad \in DOMAIN @ |-> IF pad \in PadsOf(config) THEN 5 ELSE @[pad]],
       !.output = IF config = "gpio" THEN @ \ PadsOf(config) ELSE @]

\* Both bits of ICR are set for the CAN controller, and a pin next to its own
\* is unmasked as well.
configureInterrupts(g, config) ==
    LET port    == IF config = "gpio" THEN "GPIO4" ELSE "GPIO3"
        pins    == IF config = "gpio" THEN {12, 13} ELSE {27}
        enabled == {<<port, pin>> : pin \in IF config = "gpio" THEN {12, 13} ELSE {27, 28}}
    IN  [g EXCEPT
           !.icr = [p \in DOMAIN @ |-> IF p \in {port} \X pins
                                       THEN (IF config = "gpio" THEN Rising ELSE Falling) ELSE @[p]],
           !.imr = @ \cup enabled,
           !.isr = {p \in @ : p[1] # port}]

\* The pin changes its level; the status keeps an edge of the chosen kind.
PinChanges(g, p, high) ==
    [g EXCEPT
       !.level = IF high THEN @ \cup {p} ELSE @ \ {p},
       !.isr = IF <<p \in g.level, high, g.icr[p]>> \in {<<FALSE, TRUE, Rising>>, <<TRUE, FALSE, Falling>>}
               THEN @ \cup {p} ELSE @]

GPIOInterrupt(g, port) == \E p \in g.isr \cap g.imr : p[1] = port

GPIO_WRONG_PARAMETER == 2

readGPIO(g, port, pin) ==
    IF port \notin Ports \/ pin > 31 THEN GPIO_WRONG_PARAMETER
    ELSE IF <<port, pin>> \in g.level THEN 1 ELSE 0
=============================================================================
