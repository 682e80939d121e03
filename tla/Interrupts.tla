----------------------------- MODULE Interrupts -----------------------------
(***************************************************************************)
(* The path of an interrupt, composed of the controllers (ARMGIC, APIC),   *)
(* the devices (Uart, LegacyKeyboard, the tick timer) and the console      *)
(* (ConsoleBuffer): a device raises its line, a core takes the interrupt   *)
(* (second_stage_handler_critical.cc, interrupt_handler.cc), the           *)
(* dispatcher makes a task of it (InterruptDispatcher.cc), the driver's    *)
(* handler serves the device, a key wakes the console (UARTConsole.cc),    *)
(* and what the console writes is printed by a task (GenericIO.cc).        *)
(*                                                                         *)
(* "machine" chooses the board and the device that is typed on.  Handlers  *)
(* run with interrupts masked; a core takes interrupts between two tasks.  *)
(***************************************************************************)
EXTENDS ConsoleBuffer, FiniteSets, FiniteSetsExt

CONSTANTS
    Core,           \* 0 is the boot core
    Script,         \* Script[m]: what may be typed on machine m, and how many ticks there are
    FifoSize,       \* bound for the receive buffers (16, 32)
    FifoLevel,      \* bound for the trigger level (14)
    InterruptPool,  \* InterruptPool[m]: cInterruptTaskPoolSize (8)
    TaskPool,       \* cEventTaskPoolSize
    InputSize,      \* UART_CONSOLE_BUFFER_SIZE (160)
    Commands        \* the commands that start an application

VARIABLES
    machine,    \* never changes
    script,     \* what is still to be typed
    dev,        \* the input device
    timer,      \* the tick timer
    gic,        \* the part of the GIC that changes after the start
    lapic,      \* the local APIC of core 0
    core,       \* core[c]: pc, interrupt, task and character in hand
    queue,      \* the ready tasks of each kind in the order in which they became ready
    buffer,     \* ConsoleBuffer
    input,      \* mInputBuffer
    key,        \* the decoder of the keyboard
    hist        \* history, read by the properties only

vars == <<machine, script, dev, timer, gic, lapic, core, queue, buffer, input, key, hist>>

G == INSTANCE ARMGIC WITH CPU <- Core, NumInts <- 128
A == INSTANCE APIC WITH MaximumRedirectionEntries <- 23
U == INSTANCE Uart
K == INSTANCE LegacyKeyboard
C == INSTANCE ClockManagement
D == INSTANCE DriverSettings

ARM == {"imx6", "exynos", "omap"}
AMD64 == {"uart", "keyboard"}

(***************************************************************************)
(* Interrupt numbers and what the start of the machine leaves behind.      *)
(***************************************************************************)
InputInt == [imx6 |-> 58, exynos |-> 85, omap |-> 106, uart |-> 36, keyboard |-> 33]
TickInt == [imx6 |-> 27, exynos |-> 89, omap |-> 27, uart |-> 66, keyboard |-> 66]

Distributor ==
    LET init == G!coreInterfaceInit(G!distributorInit(G!Reset, 0), 0)
        on   == G!setCoreControl(G!setDistributorControl(init, TRUE), 0, TRUE)
    IN  FoldSet(LAMBDA c, g : G!setCoreControl(G!coreInterfaceInit(g, c), c, TRUE), on, Core \ {0})

\* setRXInterrupts, on the boot core.
EnableLine(g, n, targets) ==
    G!enableInterrupt(G!clearPending(G!configureInterruptHandling(
        G!setInterruptTarget(g, n, targets), n, TRUE), n), 0, n)

\* CortexA9GlobalTimer: enabled before its handling is configured, and again;
\* the acknowledgement that follows does it a third time.
initializeTimerA9(g, n) ==
    LET on == G!configureInterruptHandling(
                  G!enableInterrupt(G!setInterruptTarget(g, n, Core), 0, n), n, TRUE)
    IN  G!enableInterrupt(G!clearPending(G!enableInterrupt(G!clearPending(on, n), 0, n), n), 0, n)

\* ExynosMultiCoreTimer, which goes to core 0 only.
initializeTimerMCT(g, n) ==
    G!configureInterruptHandling(G!enableInterrupt(G!setInterruptTarget(g, n, {0}), 0, n), n, TRUE)

Booted == [m \in ARM |->
    LET opened == EnableLine(Distributor, InputInt[m], Core)
    IN  IF m = "exynos" THEN initializeTimerMCT(opened, TickInt[m])
        ELSE initializeTimerA9(opened, TickInt[m])]

Gic == [Booted[machine] EXCEPT !.enabled = gic.enabled, !.latched = gic.latched, !.active = gic.active]
Changing(g) == [enabled |-> g.enabled, latched |-> g.latched, active |-> g.active]

\* LegacyKeyboard: what the keyboard holds when its pin is opened is read away.
setInterruptEnabled(table, enabled) ==
    A!setInterruptMask(table, A!INTERRUPT_INPUT_KEYBOARD, ~enabled)

\* The keyboard's pin or the UART's is opened.
Table == [m \in AMD64 |->
    IF m = "uart" THEN A!setInterruptMask(A!initialize(A!ResetTable), A!INTERRUPT_INPUT_UART_1, FALSE)
    ELSE setInterruptEnabled(A!initialize(A!ResetTable), TRUE)]

BootedLocal == A!windupPeriodic(A!initializeLocal(A!ResetLocal, 65535), 1000)

\* The message that resetController ends with is sent after the UART's pin
\* has been opened: with the transmit interrupt on it raises the line.
UartSetup == [g \in {0, 2} |-> U!resetController(U!Reset16550, g)]

(***************************************************************************)
(* Devices.  "rx" are the received characters, "pending" the latched       *)
(* interrupt of the Exynos, "overrun" its error flag, "timeout" and "thr"  *)
(* the further sources of the 16550, "last" what an empty keyboard         *)
(* returns; "thre" says that the transmit interrupt is on.                 *)
(***************************************************************************)
Level == IF U!TriggerLevel(UartSetup[0]) = 14 THEN FifoLevel ELSE 1
Capacity == [imx6 |-> FifoSize, uart |-> FifoSize, keyboard |-> 16,
             exynos |-> IF U!configureExynos(U!resetExynos).ufcon = 0 THEN 1 ELSE FifoSize,
             omap |-> IF U!FifoOn(U!initOMAP(U!Reset16550)) THEN FifoSize ELSE 1]

\* The interrupt output of the 16550.
Received(d) == Len(d.rx) >= Level \/ d.timeout
Output(d) == Received(d) \/ d.thr

\* The device goes from d to e: what its line does to the controller.
RaiseLine(d, e) ==
    \/ /\ machine \in ARM
       /\ gic' = IF machine = "exynos" /\ ~d.pending /\ e.pending
                 THEN Changing(G!Rise(Gic, InputInt[machine])) ELSE gic
       /\ UNCHANGED lapic
    \/ /\ machine \in AMD64
       /\ lapic' = IF machine = "keyboard" /\ e.rx # <<>> /\ d.rx # e.rx /\ (d.rx = <<>> \/ Tail(d.rx) = e.rx)
                   THEN A!RaisePin(lapic, Table[machine], A!INTERRUPT_INPUT_KEYBOARD)
                   ELSE IF machine = "uart" /\ ~Output(d) /\ Output(e)
                   THEN A!RaisePin(lapic, Table[machine], A!INTERRUPT_INPUT_UART_1) ELSE lapic
       /\ UNCHANGED gic

\* What a device that has received ch holds; a full one overwrites its
\* single register or drops the character.
Receive(d, ch) ==
    LET full == Len(d.rx) >= Capacity[machine]
    IN  [d EXCEPT !.rx = IF ~full THEN Append(@, ch) ELSE IF Capacity[machine] = 1 THEN <<ch>> ELSE @,
                  !.overrun = @ \/ full, !.pending = TRUE, !.timeout = FALSE]

\* The lines that are high, as core c sees them.
Asserted(c) ==
    (IF machine \in {"imx6", "omap"} /\ dev.rx # <<>> THEN {InputInt[machine]} ELSE {})
        \cup (IF timer.pending /\ (c = 0 \/ ~G!Banked(TickInt[machine])) THEN {TickInt[machine]} ELSE {})

(***************************************************************************)
(* Tasks.  Their components, priority and affinity are their trigger's;    *)
(* "arg" is mArg of a key task, "line" that of a print task and "text" the *)
(* line's content when it was ended.                                       *)
(***************************************************************************)
Task(kind, arg, line, text) == [kind |-> kind, arg |-> arg, line |-> line, text |-> text]
NoTask == Task("none", End, 0, <<>>)
InterruptKind == {"input", "tick"}
SoftwareKind == {"key", "print", "log"}

\* Faulty variant: the console's trigger names no dependencies.
ComponentsUndeclared(kind) == IF kind = "key" THEN {} ELSE {kind}

Components(kind) ==
    CASE kind = "input" -> IF machine \in ARM THEN {"IO"} ELSE {"Device", "IO"}
      [] kind = "tick"  -> {"Timer"}
      [] kind = "key"   -> {"Console", "ConsoleBuffer"}
      [] kind = "print" -> {"IO", "ConsoleBuffer"}
      [] kind = "log"   -> {"Application", "ConsoleBuffer"}
      [] OTHER          -> {}

\* Faulty variant: the timer's trigger runs anywhere.
AffinityAny(kind) == Core

\* The timer's trigger runs on core 0.
Affinity(kind) == IF kind = "tick" THEN {0} ELSE Core

Running(kinds) == {c \in Core : core[c].task.kind \in kinds}

\* The tasks of a pool that are out.
Out(q, kinds) == MapThenSumSet(LAMBDA kind : Len(q[kind]), kinds) + Cardinality(Running(kinds))

Ready(q, task) == [q EXCEPT ![task.kind] = Append(@, task)]

\* callOSCTrigger and the loop of eventTriggered: without a free task the
\* call is dropped.
callOSCTrigger(q, task) == IF Out(q, SoftwareKind) < TaskPool THEN Ready(q, task) ELSE q

(***************************************************************************)
(* Initial states: the machine has started and nothing is typed yet.  On   *)
(* the PC "thre" is the bit that resetController leaves to chance.         *)
(***************************************************************************)
Init ==
    /\ machine \in ARM \cup AMD64
    /\ \E scenario \in Script[machine] :
        /\ script = scenario.keys
        /\ timer = [left |-> scenario.ticks, pending |-> FALSE, due |-> 0]
    /\ \E thre \in BOOLEAN :
        /\ thre => machine = "uart" /\ U!TransmitInterrupt(UartSetup[2])
        /\ dev = [rx |-> <<>>, pending |-> FALSE, overrun |-> FALSE, timeout |-> FALSE,
                  thr |-> thre, thre |-> thre, last |-> 0]
        /\ lapic = [BootedLocal EXCEPT !.irr = IF thre THEN {InputInt["uart"]} ELSE {}]
    /\ gic = IF machine \in ARM THEN Changing(Booted[machine])
             ELSE [enabled |-> [c \in Core |-> {}], latched |-> {}, active |-> {}]
    /\ core = [c \in Core |-> [pc |-> "idle", irq |-> G!SPURIOUS_INT, task |-> NoTask, ch |-> End]]
    /\ queue = Ready([kind \in InterruptKind \cup SoftwareKind |-> <<>>], Task("log", End, 0, <<>>))
    /\ buffer = Empty
    /\ input = <<>>
    /\ key = K!Idle
    /\ hist = [typed |-> <<>>, handled |-> <<>>, lost |-> FALSE, crowded |-> FALSE,
               spoiled |-> FALSE, leaked |-> FALSE, dropped |-> FALSE, merged |-> FALSE]

(***************************************************************************)
(* The devices' own actions.                                               *)
(***************************************************************************)

\* A character or a scan code arrives.
Type ==
    /\ script # <<>>
    /\ script' = Tail(script)
    /\ dev' = Receive(dev, Head(script))
    /\ RaiseLine(dev, dev')
    /\ hist' = [hist EXCEPT !.typed = Append(@, Head(script)),
                            !.lost = @ \/ Len(dev.rx) >= Capacity[machine],
                            !.crowded = @ \/ dev.rx # <<>> \/ Out(queue, {"input"}) > 0]
    /\ UNCHANGED <<machine, timer, core, queue, buffer, input, key>>

\* Characters wait in the 16550 for longer than four of them take.
Timeout ==
    /\ machine = "uart" /\ dev.rx # <<>> /\ ~dev.timeout
    /\ dev' = [dev EXCEPT !.timeout = TRUE]
    /\ RaiseLine(dev, dev')
    /\ UNCHANGED <<machine, script, timer, core, queue, buffer, input, key, hist>>

\* The tick timer elapses; a second interrupt before the first has been
\* acknowledged is merged with it.
Elapse ==
    /\ timer.left > 0
    /\ timer' = [left |-> timer.left - 1, due |-> timer.due + 1, pending |-> machine \in ARM]
    /\ lapic' = IF machine \in AMD64 THEN A!Elapse(lapic) ELSE lapic
    /\ hist' = [hist EXCEPT !.merged = @ \/ timer.pending \/ TickInt["uart"] \in lapic.irr]
    /\ UNCHANGED <<machine, script, dev, gic, core, queue, buffer, input, key>>

(***************************************************************************)
(* Interrupt entry, on a core that runs no task.                           *)
(***************************************************************************)
At(c, pc) == core[c].pc = pc
Go(c, pc) == core' = [core EXCEPT ![c].pc = pc]

\* ARM: the acknowledge register is read under isrLock, on entry and again
\* after every interrupt.
TakeInterrupt(c) ==
    /\ machine \in ARM /\ core[c].pc \in {"idle", "iar"}
    /\ LET n == G!getNextInterrupt(Gic, c, Asserted(c))
       IN  /\ At(c, "idle") => n # G!SPURIOUS_INT
           /\ gic' = Changing(G!ReadIAR(Gic, c, n))
           /\ core' = [core EXCEPT ![c].irq = n, ![c].pc = IF n = G!SPURIOUS_INT THEN "idle" ELSE "disable"]
    /\ UNCHANGED <<machine, script, dev, timer, lapic, queue, buffer, input, key, hist>>

DisableLine(c) ==
    /\ At(c, "disable")
    /\ gic' = Changing(G!disableInterrupt(Gic, c, core[c].irq))
    /\ Go(c, "dispatch")
    /\ UNCHANGED <<machine, script, dev, timer, lapic, queue, buffer, input, key, hist>>

\* AMD64: a vector below 32 is a trap, the others are dispatched.
exception_irq_interrupt_c(v) == IF A!IsTrap(v) THEN "trap" ELSE "dispatch"

\* AMD64: all interrupts go to core 0; the entry vector names the interrupt.
AcceptInterrupt(c) ==
    /\ machine \in AMD64 /\ c = 0 /\ At(c, "idle")
    /\ A!Acceptable(lapic) # {}
    /\ LET v == Max(A!Acceptable(lapic))
       IN  /\ lapic' = A!Accept(lapic, v)
           /\ core' = [core EXCEPT ![c].irq = v, ![c].pc = exception_irq_interrupt_c(v)]
    /\ UNCHANGED <<machine, script, dev, timer, gic, queue, buffer, input, key, hist>>

\* interruptEventTriggered: without a free task nothing will serve the line.
dispatchInterrupt(c) ==
    /\ At(c, "dispatch")
    /\ LET kind == IF core[c].irq = TickInt[machine] THEN "tick" ELSE "input"
       IN  IF Out(queue, InterruptKind) < InterruptPool[machine]
           THEN queue' = Ready(queue, Task(kind, End, 0, <<>>)) /\ UNCHANGED hist
           ELSE hist' = [hist EXCEPT !.dropped = TRUE] /\ UNCHANGED queue
    /\ Go(c, "eoi")
    /\ UNCHANGED <<machine, script, dev, timer, gic, lapic, buffer, input, key>>

EndOfInterrupt(c) ==
    /\ At(c, "eoi")
    /\ IF machine \in ARM
       THEN gic' = Changing(G!endOfInterrupt(Gic, c, core[c].irq)) /\ UNCHANGED lapic
       ELSE lapic' = A!sendEOI(lapic) /\ UNCHANGED gic
    /\ core' = [core EXCEPT ![c].pc = IF machine \in ARM THEN "iar" ELSE "idle",
                            ![c].irq = IF machine \in ARM THEN @ ELSE G!SPURIOUS_INT]
    /\ UNCHANGED <<machine, script, dev, timer, queue, buffer, input, key, hist>>

(***************************************************************************)
(* Dispatching: a ready task whose components are free.  The default       *)
(* scheduler, queues of levels for each core, keeps the order of the tasks *)
(* of one trigger, because it skips a level in which it found one locked   *)
(* (the FIFO ones may not, see Scheduler); which trigger goes first is     *)
(* left open.                                                              *)
(***************************************************************************)
Dispatchable(c, kind) ==
    /\ c \in Affinity(kind) /\ queue[kind] # <<>>
    /\ \A d \in Core : Components(core[d].task.kind) \cap Components(kind) = {}

FirstStep(kind) ==
    CASE kind = "input" -> [imx6 |-> "poll", exynos |-> "read", omap |-> "read",
                            uart |-> "identify", keyboard |-> "read"][machine]
      [] OTHER -> kind

Dispatch(c) ==
    /\ At(c, "idle")
    /\ \E kind \in DOMAIN queue :
        /\ Dispatchable(c, kind)
        /\ core' = [core EXCEPT ![c].task = Head(queue[kind]), ![c].pc = FirstStep(kind)]
        /\ queue' = [queue EXCEPT ![kind] = Tail(@)]
    /\ UNCHANGED <<machine, script, dev, timer, gic, lapic, buffer, input, key, hist>>

Ended(c) == [core EXCEPT ![c].pc = "idle", ![c].task = NoTask, ![c].ch = End]

(***************************************************************************)
(* Handlers of the input interrupt.                                        *)
(***************************************************************************)
Take == [dev EXCEPT !.rx = Tail(@), !.last = Head(dev.rx), !.timeout = FALSE]
Holding(c, ch, pc) == core' = [core EXCEPT ![c].ch = ch, ![c].pc = pc]

\* i.MX6: until the FIFO is empty.
PollFifo(c) ==
    /\ At(c, "poll")
    /\ IF dev.rx = <<>> THEN Go(c, "enable") /\ UNCHANGED dev
       ELSE Holding(c, Head(dev.rx), "emit") /\ dev' = Take
    /\ UNCHANGED <<machine, script, timer, gic, lapic, queue, buffer, input, key, hist>>

\* One character; the Exynos reads 0 when there is none or when an overrun is
\* flagged, which the read of the flag clears; the others wait for one.
ReadCharacter(c) ==
    /\ At(c, "read") /\ machine # "keyboard"
    /\ IF machine = "exynos" /\ (dev.overrun \/ dev.rx = <<>>)
       THEN Holding(c, End, "emit") /\ dev' = [dev EXCEPT !.overrun = FALSE]
       ELSE /\ dev.rx # <<>>
            /\ Holding(c, Head(dev.rx), IF machine = "omap" THEN "enable" ELSE "emit")
            /\ dev' = Take
    /\ UNCHANGED <<machine, script, timer, gic, lapic, queue, buffer, input, key, hist>>

\* 16550: is an interrupt pending?  The read ends a transmit interrupt that
\* is the only one; which one it is is not looked at.
IdentifyInterrupt(c) ==
    /\ At(c, "identify")
    /\ IF Output(dev) THEN Go(c, "read") ELSE core' = Ended(c)
    /\ dev' = [dev EXCEPT !.thr = @ /\ Received(dev)]
    /\ UNCHANGED <<machine, script, timer, gic, lapic, queue, buffer, input, key, hist>>

\* The keyboard's data port; an empty one returns what it returned last.  A
\* next byte takes the place of the one that was read and raises the line.
ReadKey(c) ==
    /\ At(c, "read") /\ machine = "keyboard"
    /\ LET code == IF dev.rx = <<>> THEN dev.last ELSE Head(dev.rx)
       IN  /\ dev' = IF dev.rx = <<>> THEN dev ELSE Take
           /\ key' = K!decodeKey(key, code)
           /\ core' = IF code \in K!Lock THEN [core EXCEPT ![c].pc = "led"]
                      ELSE IF K!IsKey(code) THEN [core EXCEPT ![c].pc = "emit", ![c].ch = key'.ascii]
                      ELSE Ended(c)
    /\ hist' = [hist EXCEPT !.lost = @ \/ dev.rx = <<>>]
    /\ RaiseLine(dev, dev')
    /\ UNCHANGED <<machine, script, timer, queue, buffer, input>>

\* setLED: a command, its reply, the LEDs and a second reply.  Whatever byte
\* comes first is taken for the reply.
CommandLED(c) ==
    /\ At(c, "led")
    /\ dev' = [dev EXCEPT !.rx = Append(@, K!ReplyACK)]
    /\ RaiseLine(dev, dev')
    /\ Go(c, "reply")
    /\ UNCHANGED <<machine, script, timer, queue, buffer, input, key, hist>>

ReplyLED(c) ==
    /\ At(c, "reply") /\ dev.rx # <<>>
    /\ LET ack == Head(dev.rx) = K!ReplyACK
       IN  /\ dev' = IF ack THEN [Take EXCEPT !.rx = Append(@, K!ReplyACK)] ELSE Take
           /\ core' = IF ack THEN [core EXCEPT ![c].pc = "last"] ELSE Ended(c)
           /\ hist' = [hist EXCEPT !.lost = @ \/ ~ack]
    /\ RaiseLine(dev, dev')
    /\ UNCHANGED <<machine, script, timer, queue, buffer, input, key>>

LastReplyLED(c) ==
    /\ At(c, "last") /\ dev.rx # <<>>
    /\ dev' = Take
    /\ core' = Ended(c)
    /\ hist' = [hist EXCEPT !.lost = @ \/ Head(dev.rx) # K!ReplyACK]
    /\ RaiseLine(dev, dev')
    /\ UNCHANGED <<machine, script, timer, queue, buffer, input, key>>

\* eventTriggered(&event_charReady, c): the console is the subscriber.
EmitCharacter(c) ==
    /\ At(c, "emit")
    /\ queue' = callOSCTrigger(queue, Task("key", core[c].ch, 0, <<>>))
    /\ hist' = [hist EXCEPT !.lost = @ \/ queue' = queue]
    /\ core' = CASE machine = "imx6"   -> [core EXCEPT ![c].pc = "poll", ![c].ch = End]
                 [] machine = "exynos" -> [core EXCEPT ![c].pc = "ack", ![c].ch = End]
                 [] OTHER              -> Ended(c)
    /\ UNCHANGED <<machine, script, dev, timer, gic, lapic, buffer, input, key>>

\* ackRXInterrupt: the pending bit goes; whether a character that came after
\* the read sets it again is the device's choice.
AckRXInterrupt(c) ==
    /\ At(c, "ack") /\ core[c].task.kind = "input"
    /\ \E again \in BOOLEAN :
        /\ again => dev.rx # <<>>
        /\ dev' = [dev EXCEPT !.pending = again]
        /\ RaiseLine([dev EXCEPT !.pending = FALSE], dev')
    /\ Go(c, "enable")
    /\ UNCHANGED <<machine, script, timer, queue, buffer, input, key, hist>>

\* The GIC may give the line to a core again.
EnableInterrupt(c) ==
    /\ At(c, "enable")
    /\ LET n == IF core[c].task.kind = "tick" THEN TickInt[machine] ELSE InputInt[machine]
       IN  gic' = Changing(G!enableInterrupt(G!clearPending(Gic, n), c, n))
    /\ core' = IF machine = "omap" /\ core[c].task.kind = "input"
               THEN [core EXCEPT ![c].pc = "emit"] ELSE Ended(c)
    /\ UNCHANGED <<machine, script, dev, timer, lapic, queue, buffer, input, key, hist>>

(***************************************************************************)
(* The timer's handler.                                                    *)
(***************************************************************************)
HandleTick(c) ==
    /\ At(c, "tick")
    /\ timer' = [timer EXCEPT !.due = 0]
    /\ core' = IF machine \in ARM THEN [core EXCEPT ![c].pc = "ack"] ELSE Ended(c)
    /\ UNCHANGED <<machine, script, dev, gic, lapic, queue, buffer, input, key, hist>>

\* Faulty variant: the line stays disabled.
AckTickOnly(c) ==
    /\ At(c, "ack") /\ core[c].task.kind = "tick"
    /\ timer' = [timer EXCEPT !.pending = FALSE]
    /\ core' = Ended(c)
    /\ UNCHANGED <<machine, script, dev, gic, lapic, queue, buffer, input, key, hist>>

AckTick(c) ==
    /\ At(c, "ack") /\ core[c].task.kind = "tick"
    /\ timer' = [timer EXCEPT !.pending = FALSE]
    /\ Go(c, "enable")
    /\ UNCHANGED <<machine, script, dev, gic, lapic, queue, buffer, input, key, hist>>

(***************************************************************************)
(* The console.  "con" is what its task writes to: the line buffer, the    *)
(* ready tasks, the input, and whether a line was spoiled or leaked.       *)
(***************************************************************************)
StartLine(con) ==
    [con EXCEPT !.buffer = startLine(@), !.spoiled = @ \/ Overwrites(con.buffer)]

\* Without a free task nobody will print and free the line.
EndLine(con) ==
    LET ended == endLine(con.buffer)
        tasks == callOSCTrigger(con.queue, Task("print", End, ended.pos, readLine(ended, ended.pos)))
    IN  [con EXCEPT !.buffer = ended, !.queue = tasks, !.leaked = @ \/ tasks = con.queue]

Put(con, string) == [con EXCEPT !.buffer = Write(@, string)]

\* The prompt goes to the line that was started last.
clearConsole(con) == [Put(con, <<"prompt">>) EXCEPT !.input = <<>>]

\* Each command of the table has the trigger of an application.
mApplications == [command \in Commands |-> Task("log", End, 0, <<>>)]

compareCommand(cmd1, cmd2) == cmd1 = cmd2

\* The first entry whose command is what was entered.
parseCommand(con) ==
    IF \E command \in DOMAIN mApplications : compareCommand(command, con.input)
    THEN [con EXCEPT !.queue = callOSCTrigger(@, mApplications[con.input])]
    ELSE Put(con, <<"unknown">> \o con.input)

\* An over-long input is cleared outside of any line.
HandledKey(con, ch) ==
    CASE ch = "enter" -> EndLine(clearConsole(parseCommand(StartLine(con))))
      [] ch = "backspace" ->
            IF con.input = <<>> THEN con
            ELSE EndLine(Put(StartLine([con EXCEPT !.input = Front(@)]), <<"erase">>))
      [] ch \notin {"enter", "backspace", End} ->
            IF Len(con.input) + 1 < InputSize
            THEN EndLine(Put(StartLine([con EXCEPT !.input = Append(@, ch)]), <<ch>>))
            ELSE [clearConsole(con) EXCEPT !.spoiled = TRUE]
      [] OTHER -> con

Con == [buffer |-> buffer, queue |-> queue, input |-> input,
        spoiled |-> hist.spoiled, leaked |-> hist.leaked]

\* The characters that are not 0.
Visible(chars) == SelectSeq(chars, LAMBDA ch : ch # End)

HandleKey(c) ==
    /\ At(c, "key")
    /\ \E con \in {HandledKey(Con, core[c].task.arg)} :
        /\ buffer' = con.buffer /\ queue' = con.queue /\ input' = con.input
        /\ hist' = [hist EXCEPT !.spoiled = con.spoiled, !.leaked = con.leaked,
                                !.handled = @ \o Visible(<<core[c].task.arg>>)]
    /\ core' = Ended(c)
    /\ UNCHANGED <<machine, script, dev, timer, gic, lapic, key>>

\* An application writes a line with a number and an address.
LogLine(c) ==
    /\ At(c, "log")
    /\ \E con \in {EndLine([StartLine(Con) EXCEPT !.buffer = WritePointer(WriteSigned(@, -7), 10)])} :
        /\ buffer' = con.buffer /\ queue' = con.queue
        /\ hist' = [hist EXCEPT !.spoiled = con.spoiled, !.leaked = con.leaked]
    /\ core' = Ended(c)
    /\ UNCHANGED <<machine, script, dev, timer, gic, lapic, input, key>>

\* GenericIO: each character that is sent ends with an empty transmitter.
PrintLine(c) ==
    /\ At(c, "print")
    /\ buffer' = freeLine(buffer, core[c].task.line)
    /\ dev' = [dev EXCEPT !.thr = @ \/ (machine = "uart" /\ dev.thre
                                        /\ readLine(buffer, core[c].task.line) # <<>>)]
    /\ RaiseLine(dev, dev')
    /\ core' = Ended(c)
    /\ UNCHANGED <<machine, script, timer, queue, input, key, hist>>

(***************************************************************************)
(* The system.  The devices and whoever types take their time; a core that *)
(* can go on does.                                                         *)
(***************************************************************************)
Step(c) ==
    \/ TakeInterrupt(c) \/ DisableLine(c) \/ AcceptInterrupt(c) \/ dispatchInterrupt(c)
    \/ EndOfInterrupt(c) \/ Dispatch(c) \/ PollFifo(c) \/ ReadCharacter(c) \/ IdentifyInterrupt(c)
    \/ ReadKey(c) \/ CommandLED(c) \/ ReplyLED(c) \/ LastReplyLED(c) \/ EmitCharacter(c)
    \/ AckRXInterrupt(c) \/ EnableInterrupt(c) \/ HandleTick(c) \/ AckTick(c) \/ PrintLine(c)

Next == Type \/ Timeout \/ Elapse \/ \E c \in Core : Step(c) \/ HandleKey(c) \/ LogLine(c)

\* HandleKey and LogLine are enabled on every core that has come to them and
\* lead away from there: that no core stays is their weak fairness.
Fairness ==
    /\ WF_vars(Timeout)
    /\ \A c \in Core : WF_vars(Step(c)) /\ []<>(core[c].pc \notin {"key", "log"})

Spec == Init /\ [][Next]_vars /\ Fairness

(***************************************************************************)
(* Properties.                                                             *)
(***************************************************************************)

\* The characters that the keys stand for, for a keyboard in state "from"; a
\* UART's characters stand for themselves.
Decoded(from, codes) ==
    IF machine # "keyboard" THEN codes
    ELSE FoldLeft(LAMBDA acc, code :
                    LET next == K!decodeKey(acc.key, code)
                    IN  [key |-> next,
                         out |-> IF K!IsKey(code) THEN Append(acc.out, next.ascii) ELSE acc.out],
                  [key |-> from, out |-> <<>>], codes).out

\* The keys on their way: held by the console's task, in ready tasks, in the
\* handler's hand and in the device.
OnTheirWay ==
    LET args(tasks) == [i \in DOMAIN tasks |-> tasks[i].arg]
        inTask      == SetToSeq({core[c].task : c \in Running({"key"})})
        inHand      == SetToSeq({core[c].ch : c \in Running({"input"})} \ {End})
    IN  args(inTask) \o args(queue["key"]) \o inHand
            \o Decoded(key, SelectSeq(dev.rx, LAMBDA code : machine # "keyboard" \/ code # K!ReplyACK))

\* Every key that was typed is handled by the console or on its way to it,
\* once, in the order typed, whichever cores run the handlers; except where
\* the device overflowed, no task was free, or the keyboard driver mistook a
\* key for a reply or read the port without a byte
\* (handleInputInterrupt, LegacyKeyboard::handleInterrupt, eventTriggered,
\* triggerFunc_handleKey and its dependencies).
KeysConserved ==
    ~hist.lost => hist.handled \o Visible(OnTheirWay) = Visible(Decoded(K!Idle, hist.typed))

\* The line of the input device or of the tick, once the ARM entry code has
\* disabled it, has a task, or is about to get one, that enables it again:
\* neither stays dead (second_stage_handler_critical.cc:84, the handlers'
\* enableInterrupt).  Other lines may: the temperature monitor's trigger
\* enables none (IMX6TempMonitor.cc:97).
LineMaskedOnlyWhileHandled ==
    machine \in ARM =>
        \A n \in {InputInt[machine], TickInt[machine]} :
            n \in gic.enabled[0]
            \/ Out(queue, {IF n = TickInt[machine] THEN "tick" ELSE "input"}) > 0
            \/ \E c \in Core : At(c, "dispatch") /\ core[c].irq = n

\* The lines of the console buffer that are in use are those that a print
\* task will print, each by one task and with the text it was given; unless
\* all lines were in use or the console wrote outside of a line (spoiled), or
\* a line was ended while no task was free (leaked)
\* (ConsoleBuffer::startLine, GenericIO::triggerFunc_printLine).
LinesConserved ==
    LET printing == queue["print"] \o SetToSeq({core[c].task : c \in Running({"print"})})
        lines    == {printing[i].line : i \in DOMAIN printing}
    IN  ~hist.spoiled =>
            /\ Cardinality(lines) = Len(printing)
            /\ \A i \in DOMAIN printing : readLine(buffer, printing[i].line) = printing[i].text
            /\ lines \subseteq buffer.used
            /\ ~hist.leaked => lines = buffer.used

\* What was received is read, however the cores, the line and its mask
\* interleave; except on the Exynos and the 16550 when a character came while
\* another was being handled, on a 16550 with the transmit interrupt on, and
\* after an interrupt for which there was no task (PollFifo, the handlers'
\* enableInterrupt, sendEOI).
EveryKeyRead ==
    <>[](\/ dev.rx = <<>> \/ dev.thre \/ hist.dropped
         \/ machine \in {"exynos", "uart"} /\ hist.crowded)

\* A tick of the timer is handled, on the one core that can enable its
\* private interrupt again; except when it elapsed before the previous one
\* was acknowledged, or there was no task (handleInterrupt of the timers,
\* trigger_Interrupt's affinity).
EveryTickHandled == <>[](timer.due = 0 \/ hist.merged \/ hist.dropped \/ dev.thre)

(***************************************************************************)
(* Clocks: "near" allows a deviation in one per cent.                      *)
(***************************************************************************)
Near(x, y) == 100 * x \in 99 * y .. 101 * y

\* The rate in Hz that the divisors of the Exynos give for a clock in Hz; 16
\* times the divisor is an integer.
ExynosRate(clk, baud) == clk \div (16 * (baud.div + 1) + baud.frac)

\* The registers of a board's clocks after the boot loader: both PLLs run at
\* 800 MHz.
BootClocks(ratio) ==
    LET pll == C!PLL(800, 3, 100, 0)
    IN  [uartSel |-> 6, mpllUserSel |-> 2, apll |-> pll, mpll |-> pll,
         ratio |-> [uart |-> ratio, periph |-> ratio % 8]]

ExynosSettings ==
    /\ \A row \in Range(C!pApllValues) \cup Range(C!pMpllValues) :
          row.m < 179 => C!Fout(row) = row.fout * 1000000
    /\ \A ratio \in 3 .. 15, rate \in {115200, 460800} :
          LET clk  == C!getUARTClk(BootClocks(ratio))
              baud == C!setBaudrate(clk, rate)
          IN  /\ Near(ExynosRate(clk, baud), rate)
              /\ U!setRXInterruptsExynos(U!initExynos(baud), TRUE).uintm = 1 .. 3
              /\ Near((((ratio % 8) + 1) * C!ExynosPeripheralClock(BootClocks(ratio))) \div 1000000, 800)
    /\ \A us \in {1000, 10000} :
          LET mct == C!setPeriodicMCT(C!setPeriodicMCT(C!ResetMCT, 5000), us)
          IN  /\ Near(mct.increment \div us, C!getMCTClk([rightbus |-> "Fin"]) \div 1000000)
              /\ mct.comparator = mct.increment /\ mct.enabled
              /\ mct.config = {"AUTO_INC", "ENABLE", "START"}
              /\ ~mct.hung /\ mct.status = {}

IMX6Settings ==
    /\ \A i, j \in DOMAIN C!mFrequencies :
        LET to == C!mFrequencies[j]
            r  == C!setCoreFrequencyVoltage(
                    C!setCoreFrequencyVoltage(
                        [divider |-> 66, bypass |-> FALSE, core |-> 0], C!mFrequencies[i]), to)
            f  == C!getARMPLLFrequency(r)
        IN  /\ ~r.bypass
            /\ r.divider * 12000000 = to.frequency
            /\ f = to.frequency \/ (r.divider % 2 = 1 /\ f = to.frequency - 12000000)
            /\ C!IMX6_ARM_CORE_BASE_VOLTAGE + 25000 * r.core >= to.voltage
            /\ \A us \in {1000, 10000}, tick \in 1 .. 3 :
                  tick * us * (C!IMX6PeripheralClock(r) \div 1000000)
                    - C!Comparator(C!IMX6PeripheralClock(r), us, tick) \in 0 .. tick
    /\ \A i, j \in 1 .. 5 :
          LET one == C!enableSPIClock({}, i, TRUE)
          IN  i # j => C!enableSPIClock(C!enableSPIClock(one, j, TRUE), j, FALSE) = one
    /\ LET u == U!initIMX6([rx |-> <<>>, ucr1 |-> {}, ucr2 |-> {}, ucr3 |-> {}, ucr4 |-> {}, ufcr |-> {}])
       IN  9 \in U!setRXInterruptsIMX6(u, TRUE).ucr1 /\ 9 \notin U!setRXInterruptsIMX6(u, FALSE).ucr1

OMAPSettings ==
    /\ \A clk \in {350, 700, 921, 1200, 1500} : C!OMAPCoreClock(C!setCoreClk(clk)) \div 1000 \in clk - 3 .. clk
    /\ LET u == U!setRXInterruptsOMAP(U!initOMAP(U!Reset16550), TRUE)
       IN  Near(48000000 \div (16 * U!Divisor(u)), 115200) /\ U!ReceiveInterrupt(u)

UartSettings ==
    /\ Near(1843200 \div (16 * U!Divisor(UartSetup[0])), 115200)
    /\ U!ReceiveInterrupt(UartSetup[0])

PCSettings ==
    /\ \A m \in AMD64, pin \in A!Pin :
          LET entry == Table[m].entry[pin]
          IN  ~entry.masked => ~A!IsTrap(entry.vector) /\ entry.vector # BootedLocal.lvt.vector
    /\ LET pic == A!disable([master |-> 8, slave |-> 112, masked |-> {}])
       IN  ~A!IsTrap(pic.master) /\ pic.slave = pic.master + 8 /\ pic.masked = 0 .. 15
    /\ Near(A!Divides(BootedLocal) * A!TimerValue(BootedLocal, 1000) * (BootedLocal.timeBase \div 1000),
            1000000)

\* The drivers do what their callers name, and a core never runs at a voltage
\* below the one its frequency needs: the frequencies a PLL is set to (as far
\* as the product fits into 32 bits), the UART rates and receive interrupts,
\* ticks on time to one cycle each, the voltage after any change of the core's
\* frequency, vectors that no trap has on every open pin of the PC, and what
\* module DriverSettings states of the devices that only one core programs
\* (IMX6ClockManagement, ExynosClockManagement, OSCOMAP4460ClockManagement,
\* setPeriodic, windupPeriodic, setBaudrate, resetController,
\* IOAPIC::initialize, LegacyPIC::disable).
DriversAsNamed ==
    /\ machine = "exynos" => ExynosSettings
    /\ machine = "imx6" => IMX6Settings /\ D!IMX6PeripheralSettings
    /\ machine = "omap" => OMAPSettings /\ D!CounterSettings
    /\ machine = "uart" => UartSettings
    /\ machine \in AMD64 => PCSettings /\ D!ConsoleSettings
=============================================================================
