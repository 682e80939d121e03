--------------------------- MODULE DriverSettings ---------------------------
(***************************************************************************)
(* What the drivers without states of their own promise their callers: the *)
(* watchdog, the temperature monitor and the pins of the i.MX6, the        *)
(* performance counters of the ARM cores, and the text output with the     *)
(* screen of the PC.  Each definition is a statement about the operators   *)
(* of their modules that property DriversAsNamed of module Interrupts      *)
(* checks.                                                                 *)
(***************************************************************************)
EXTENDS Integers, Sequences, FiniteSets, SequencesExt

W == INSTANCE IMX6Peripherals
P == INSTANCE PerformanceCounter
O == INSTANCE OutputStream WITH cBUFFER_SIZE <- 4
S == INSTANCE CGAScreen WITH cRows <- 2, cColumns <- 4

(* The handler runs that many half seconds after each warning.             *)
WatchdogServed(late, halfSeconds) ==
    LET After(p, i) ==
          LET w == W!HalfSecond(p.w)
          IN  IF ~W!WatchdogInterrupt(w) THEN [w |-> w, late |-> 0]
              ELSE IF p.late = late THEN [w |-> W!reloadTimer(w), late |-> 0]
              ELSE [w |-> w, late |-> p.late + 1]
    IN  ~FoldLeft(After, [w |-> W!initializeWatchdog(W!ResetWatchdog), late |-> 0],
                  [i \in 1 .. halfSeconds |-> i]).w.asserted

(* The watchdog never resets a system whose handler takes less than two    *)
(* seconds, and resets one whose handler takes longer or that asks for it; *)
(* the alarm comes at 70 degrees and not below, whatever the calibration,  *)
(* and leads to the lowest frequency; a configured pin raises its          *)
(* interrupt at the edge that is meant, only at that one, whatever was     *)
(* configured or pending before, and reads as its level                    *)
(* (IMX6Watchdog, IMX6TempMonitor, IMX6GPIO).                              *)
IMX6PeripheralSettings ==
    /\ \A late \in 0 .. 6 : WatchdogServed(late, 40) <=> late < 4
    /\ W!restart_system(W!ResetWatchdog).asserted
    /\ W!restart_system(W!initializeWatchdog(W!ResetWatchdog)).asserted
    /\ \A cal \in [roomCount : {1300, 1401}, hotCount : {900, 1001}, hotTemp : {85, 90, 105}] :
          \A nMes \in cal.hotCount .. cal.roomCount :
              W!Alarm(W!initializeTempMonitor(cal), nMes) <=> W!dumpTemps(cal, nMes) >= W!cWarningTemp
    /\ \A i \in DOMAIN W!mFrequencies :
          LET r == W!setCoreFrequencyVoltage([divider |-> 66, bypass |-> FALSE, core |-> 0],
                                             W!mFrequencies[i])
          IN  W!getARMPLLFrequency(W!handleAlarm(r)) <= W!getARMPLLFrequency(r)
    /\ \A config \in {"gpio", "can"}, icr \in 0 .. 3, high \in BOOLEAN :
          LET all  == W!Ports \X W!Pins
              port == IF config = "gpio" THEN "GPIO4" ELSE "GPIO3"
              pins == {p \in W!PadsOf(config) : p[1] = port}
              g    == W!configureInterrupts(W!configurePorts(
                        [mux |-> [p \in all |-> 0], output |-> {}, icr |-> [p \in all |-> icr],
                         imr |-> {}, isr |-> all, level |-> IF high THEN {} ELSE all], config), config)
          IN  /\ ~W!GPIOInterrupt(g, port)
              /\ \A p \in pins :
                    LET changed == W!PinChanges(g, p, high)
                    IN  /\ W!GPIOInterrupt(changed, port) <=> (config = "gpio" <=> high)
                        /\ W!readGPIO(changed, port, p[2]) = (IF high THEN 1 ELSE 0)
              /\ W!PadsOf(config) \cap g.output = {}
              /\ W!readGPIO(g, "GPIO2", 0) = 2 /\ W!readGPIO(g, port, 32) = 2

(* Each counter counts its own events from its own start while it and the  *)
(* monitor are enabled, and stopping one leaves the others and the cycle   *)
(* counter running (ARMV7PerformanceCounter).                              *)
CounterSettings ==
    \A i, j \in 0 .. 5, a, b \in 1 .. 2 : i # j =>
        LET events == [t \in 0 .. 2 |-> <<0, 10, 200>>[t + 1]]
            set  == P!writeEventCounter(P!writeEventCounter(P!writeEventCounterType(
                        P!writeEventCounterType(P!ResetPMU(6), a, i), b, j), 7, i), 0, j)
            both == P!enableCycleCount(P!enableEventCounter(P!enableEventCounter(
                        P!enableGlobal(set), i), j))
            one  == P!disableEventCounter(both, i)
            now(p) == P!printCounterValues(P!Counted(p, events, 640))
        IN  /\ now(both).counter[i] = 7 + events[a] /\ now(both).counter[j] = events[b]
            /\ now(one).counter[i] = 7 /\ now(one).counter[j] = events[b]
            /\ now(one).cycles = 640 /\ now(P!set64CycleCounterStep(one, TRUE)).cycles = 10
            /\ now(P!disableGlobal(both)) = P!printCounterValues(both)

Letters == <<"a", "b", "c", "d", "e", "f", "g", "h", "i", "j">>

Value(digit) == CHOOSE n \in 0 .. 15 : O!Digit[n + 1] = digit

Texts == UNION {{[i \in 1 .. n |-> IF i \in breaks THEN "\n" ELSE Letters[i]] :
                    breaks \in SUBSET (1 .. n)} : n \in 0 .. 10}

LinesOf(text, columns) ==
    FoldLeft(LAMBDA lines, c :
                IF c = "\n" THEN Append(lines, <<>>)
                ELSE LET line == Append(Last(lines), c)
                     IN  Front(lines) \o (IF Len(line) = columns THEN <<line, <<>>>> ELSE <<line>>),
             <<<<>>>>, text)

(* The digits of a number give the number back and none is superfluous; no *)
(* character of a text is lost, repeated or out of order on its way        *)
(* through the buffer, which a new line empties; a pointer leaves the base *)
(* as it was.  The screen shows the last lines of a text, one character    *)
(* printed at a time or all at once (OutputStream, CGAScreen).             *)
ConsoleSettings ==
    /\ \A base \in {2, 8, 10, 16}, n \in 0 .. 300 :
          LET digits == O!Digits(base, n)
          IN  /\ FoldLeft(LAMBDA value, d : value * base + Value(d), 0, digits) = n
              /\ digits[1] # "0" \/ Len(digits) = 1
    /\ \A text \in Texts :
          LET s == O!PutSigned(O!SetBase(O!puts(O!NewStream, text), 16), -18)
          IN  /\ s.device \o s.buffer = text \o <<"-", "0", "x", "1", "2">> /\ Len(s.buffer) < 4
              /\ O!endl(s).device = text \o <<"-", "0", "x", "1", "2", "\n">>
              /\ O!PutPointer(O!SetBase(s, 8), 18).base = 8
    /\ \A text \in Texts :
          LET s     == FoldLeft(LAMBDA screen, c : S!print(screen, <<c>>), S!EmptyScreen, text)
              lines == LinesOf(text, 4)
              first == IF Len(lines) > 2 THEN Len(lines) - 2 ELSE 0
          IN  /\ \A x \in 0 .. 3, y \in 0 .. 1 :
                    LET cell == s.cells[y * 4 + x]
                    IN  IF first + y + 1 <= Len(lines) /\ x + 1 <= Len(lines[first + y + 1])
                        THEN cell = lines[first + y + 1][x + 1] ELSE cell \in {" ", S!NUL}
              /\ S!print(s, text) = FoldLeft(LAMBDA screen, c : S!print(screen, <<c>>), s, text)
=============================================================================
