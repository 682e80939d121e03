-------------------------- MODULE ClockManagement --------------------------
(***************************************************************************)
(* The clocks of the boards and the counter values that the timer and UART *)
(* drivers derive from them: ExynosClockManagement.cc, ExynosUartDriver.cc *)
(* (setBaudrate), ExynosMultiCoreTimer.cc (setPeriodic), CortexA9Global-   *)
(* Timer.cc, IMX6ClockManagement.cc, OSCOMAP4460ClockManagement.cc, and    *)
(* the divisor of UART.cc.  A register is a record of its fields or a      *)
(* number; frequencies are in Hz where a comment does not say otherwise.   *)
(***************************************************************************)
EXTENDS Integers, Sequences, Bitwise

(***************************************************************************)
(* Exynos 4412.                                                            *)
(***************************************************************************)

\* mdiv * 24 MHz / (pdiv * 2^sdiv) in uint32_t.  24 MHz is 46875 * 512 and
\* 2^32 is 8388608 * 512: the product is taken in units of 512 Hz.
Fout(pll) ==
    LET units   == (pll.m * 46875) % 8388608
        divisor == pll.p * 2 ^ pll.s
    IN  (units \div divisor) * 512 + ((units % divisor) * 512) \div divisor

PLL(fout, p, m, s) == [fout |-> fout, p |-> p, m |-> m, s |-> s]

\* The values that the manual names for the PLL of the cores and for the PLL
\* of the buses, in MHz.
pApllValues ==
    << PLL(200, 3, 100, 2), PLL(300, 4, 200, 2), PLL(400, 3, 100, 1), PLL(500, 3, 125, 1),
       PLL(600, 4, 200, 1), PLL(700, 3, 175, 1), PLL(800, 3, 100, 0), PLL(900, 4, 150, 0),
       PLL(1000, 3, 125, 0), PLL(1100, 6, 275, 0), PLL(1200, 4, 200, 0), PLL(1300, 6, 325, 0),
       PLL(1400, 3, 175, 0) >>
pMpllValues == pApllValues

ExynosCoreClock(r) == Fout(r.apll)
ExynosPeripheralClock(r) == ExynosCoreClock(r) \div (r.ratio.periph + 1)

\* Only the path over the MPLL is implemented.
getUARTClk(r) ==
    IF r.uartSel = 6 /\ r.mpllUserSel = 2 THEN Fout(r.mpll) \div (r.ratio.uart + 1) ELSE 0

\* Two multiplexers in front of the right bus: the external clock, or one of
\* the two PLLs.
getMCTClk(r) ==
    IF r.rightbus = "Fin" THEN 24000000
    ELSE (Fout(IF r.rightbus = "MPLL" THEN r.mpll ELSE r.apll) \div (r.ratio.gdr + 1))
            \div (r.ratio.gpr + 1)

\* UBRDIV and UFRACVAL.
setBaudrate(uartClk, baudrate) ==
    LET divVal  == uartClk \div (baudrate * 16) - 1
        fracVal == uartClk \div ((baudrate * 16) \div 100) - 100
    IN  [div |-> divVal, frac |-> ((fracVal - divVal * 100) * 16) \div 100 + 1]

\* The comparator and its increment; the timer is taken to run at 24 MHz
\* whatever getMCTClk says.
MCTPeriod(us) == (24000000 \div 1000000) * us

\* The multi core timer: its registers, the write-status bits that stand and
\* whether the driver has given up on a write.
ResetMCT == [config |-> {}, comparator |-> 0, increment |-> 0, enabled |-> FALSE,
             status |-> {}, hung |-> FALSE]

\* The bit that a register raises once a write has reached the timer; the
\* two halves of the comparator and of the counter have one each.
Raised(reg) ==
    CASE reg = "config"     -> {"G_TCON"}
      [] reg = "comparator" -> {"COMP0_L", "COMP0_U"}
      [] reg = "increment"  -> {"COMP0_ADD"}
      [] reg = "count"      -> {"CNT_L", "CNT_U"}
      [] OTHER              -> {}

\* The bits that the driver waits for and clears.
Awaited(reg) ==
    CASE reg = "config"     -> {"G_TCON"}
      [] reg = "comparator" -> {"COMP0_L", "COMP0_U"}
      [] reg = "increment"  -> {"COMP0_ADD"}
      [] reg = "count"      -> {"CNT_L", "CNT_U"}
      [] OTHER              -> {}

\* A write is awaited for a bounded time; without its bit the driver gives up.
writeMCTRegister(t, reg, value) ==
    LET status == t.status \cup Raised(reg)
        done   == [t EXCEPT !.status = status \ Awaited(reg),
                            !.hung = @ \/ ~(Awaited(reg) \subseteq status)]
    IN  IF reg \in DOMAIN t THEN [done EXCEPT ![reg] = value] ELSE done

disableGlobal(t) ==
    writeMCTRegister(writeMCTRegister(t, "config", t.config \ {"AUTO_INC", "ENABLE"}),
                     "enabled", FALSE)

\* The comparator is enabled last, with the counter at zero.
setPeriodicMCT(t, us) ==
    LET stopped  == disableGlobal(t)
        compared == writeMCTRegister(writeMCTRegister(stopped, "increment", MCTPeriod(us)),
                                     "comparator", MCTPeriod(us))
        enabled  == writeMCTRegister(writeMCTRegister(compared, "count", 0), "enabled", TRUE)
    IN  writeMCTRegister(enabled, "config", stopped.config \cup {"AUTO_INC", "ENABLE", "START"})

(***************************************************************************)
(* The global timer of the Cortex-A9 (OMAP4460, i.MX6).                    *)
(***************************************************************************)
TimerValueA9(periphClock, us) == (periphClock \div 1000000) * us - 1

\* The counter starts at 0 and reaches the comparator after TimerValueA9
\* cycles; each time the comparator moves on by the same value.
Comparator(periphClock, us, tick) == tick * TimerValueA9(periphClock, us)

(***************************************************************************)
(* i.MX6.  The register of the ARM PLL has a divider and a bypass bit, the *)
(* register of the core regulator its target.                              *)
(***************************************************************************)
IMX6_REFERENCE_CLOCK == 24000000
IMX6_ARM_CORE_BASE_VOLTAGE == 700000

mFrequencies ==
    << [frequency |-> 396000000, voltage |-> 975000], [frequency |-> 792000000, voltage |-> 1175000],
       [frequency |-> 852000000, voltage |-> 1250000], [frequency |-> 996000000, voltage |-> 1250000],
       [frequency |-> 1200000000, voltage |-> 1275000] >>

getARMPLLFrequency(r) == IMX6_REFERENCE_CLOCK * (r.divider \div 2)
IMX6PeripheralClock(r) == getARMPLLFrequency(r) \div 2

bypassARMClkToReferenceFrequency(r, bypass) == [r EXCEPT !.bypass = bypass]

\* Faulty variant: the divider counts half steps of the reference.
setARMPLLClockHalf(r, clk) == [r EXCEPT !.divider = (clk \div 1000000) \div 24]

\* 2 * clk / 24 MHz, taken in MHz.
setARMPLLClock(r, clk) == [r EXCEPT !.divider = (2 * (clk \div 1000000)) \div 24]

\* The new target is added to the bits of the old one.
setCoreVoltage(r, voltage) ==
    [r EXCEPT !.core = @ | ((voltage - IMX6_ARM_CORE_BASE_VOLTAGE) \div 25000)]

setCoreFrequencyVoltage(r, value) ==
    bypassARMClkToReferenceFrequency(
        setARMPLLClock(
            setCoreVoltage(bypassARMClkToReferenceFrequency(r, TRUE), value.voltage),
            value.frequency),
        FALSE)

\* Two bits of CCM_CCGR1 gate the clock of a SPI controller.
enableSPIClock(gates, spiNum, enable) ==
    LET bits == {(spiNum - 1) * 2, (spiNum - 1) * 2 + 1}
    IN  IF enable THEN gates \cup bits ELSE gates \ bits

(***************************************************************************)
(* OMAP4460, in kHz.                                                       *)
(***************************************************************************)
OMAP4_BASE_CORE == 38400

OMAPCoreClock(r) ==
    LET locked == (OMAP4_BASE_CORE * 2 * r.m) \div (r.n + 1)
        halved == IF r.dcc THEN locked ELSE locked \div 2
    IN  IF r.m2 # 0 THEN halved \div r.m2 ELSE halved

\* The dividers of a name; the two fastest correct the duty cycle, and
\* "emif" is the ratio of the memory interface.
setCoreClk(clk) ==
    CASE clk = 350  -> [m |-> 73,  n |-> 3, m2 |-> 2, dcc |-> FALSE, emif |-> 0]
      [] clk = 700  -> [m |-> 73,  n |-> 3, m2 |-> 1, dcc |-> FALSE, emif |-> 0]
      [] clk = 921  -> [m |-> 24,  n |-> 0, m2 |-> 1, dcc |-> FALSE, emif |-> 3]
      [] clk = 1200 -> [m |-> 125, n |-> 7, m2 |-> 1, dcc |-> TRUE,  emif |-> 0]
      [] clk = 1500 -> [m |-> 39,  n |-> 1, m2 |-> 1, dcc |-> TRUE,  emif |-> 3]
=============================================================================
