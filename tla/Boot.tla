-------------------------------- MODULE Boot --------------------------------
(***************************************************************************)
(* Bring-up of the cores and the interrupt mask of each.  The primary core *)
(* starts the others one at a time and waits for each in a holding pen     *)
(* handshake; every core ends in the dispatch loop, which masks interrupts *)
(* with the nesting counter of SystemMode.  ARMv7 (Cortex-A9) and AMD64    *)
(* differ in the handshake and in who touches the mask on the way.         *)
(***************************************************************************)
EXTENDS Integers

CONSTANTS
    NR_CPUS,
    mRegisteredCPUs,  \* x86: cores that ACPI reports
    Modulus           \* mIRQCounter is an unsigned integer of this range

ASSUME BootAssumption ==
    /\ NR_CPUS \in Nat \ {0}
    /\ mRegisteredCPUs \in 1 .. NR_CPUS
    /\ Modulus \in Nat \ {0, 1}

CPU == 0 .. NR_CPUS - 1
Primary == 0
Secondary == CPU \ {Primary}

(* holding_pen's offset of the values that release the secondary cores.    *)
ReleasePen == 4711

VARIABLES
    x86,          \* built for AMD64 and not for ARMv7 (fixed)
    cores,        \* how many cores this build brings up (fixed)
    pc,           \* where the core is
    core,         \* the primary's loop variable core / cpu
    holdingPen,   \* holding_pen, mHoldingPen
    pen,          \* x86: the value that mHoldingPen++ has read
    wake,         \* ARM event register: the next WFE does not sleep
    mIRQCounter,
    masked        \* the core takes no interrupts (CPSR.I set, RFLAGS.IF clear)

vars == <<x86, cores, pc, core, holdingPen, pen, wake, mIRQCounter, masked>>

(* The cores the primary starts: cpu < mRegisteredCPUs && cpu < NR_CPUS;   *)
(* on ARM core < NR_CPUS, or none at all without CONFIG_BOOT_MULTICORE.    *)
Started == 1 .. cores - 1

TypeOK ==
    /\ x86 \in BOOLEAN
    /\ cores \in 1 .. IF x86 THEN mRegisteredCPUs ELSE NR_CPUS
    /\ pc \in [CPU -> {"off", "entry", "start", "await", "init",
                       "setup", "confirm", "hold", "sleep",
                       "activate", "dispatching", "waiting", "getEvent", "task"}]
    /\ core \in 1 .. NR_CPUS
    /\ holdingPen \in -1 .. ReleasePen + NR_CPUS
    /\ pen \in [CPU -> 0 .. NR_CPUS]
    /\ wake \in [CPU -> BOOLEAN]
    /\ mIRQCounter \in [CPU -> 0 .. Modulus - 1]
    /\ masked \in [CPU -> BOOLEAN]

(* The reset code of both architectures masks interrupts.  A board for ARM *)
(* may have fewer cores than the largest, which has NR_CPUS.               *)
Init ==
    /\ x86 \in BOOLEAN
    /\ cores \in IF x86 THEN {mRegisteredCPUs} ELSE 1 .. NR_CPUS
    /\ pc = [c \in CPU |-> IF c = Primary THEN "entry" ELSE "off"]
    /\ core = 1
    /\ holdingPen = 0
    /\ pen = [c \in CPU |-> 0]
    /\ wake = [c \in CPU |-> FALSE]
    /\ mIRQCounter = [c \in CPU |-> 0]
    /\ masked = [c \in CPU |-> TRUE]

Goto(c, label) == pc' = [pc EXCEPT ![c] = label]

(* Faulty variants, to check the properties.                               *)
EnabledOnlyWhenZero(c) ==
    /\ mIRQCounter' = [mIRQCounter EXCEPT ![c] = (@ - 1) % Modulus]
    /\ masked' = [masked EXCEPT ![c] = IF mIRQCounter[c] = 0 THEN FALSE ELSE @]

DisabledAfterCount(c) ==
    /\ mIRQCounter' = [mIRQCounter EXCEPT ![c] = (@ + 1) % Modulus]
    /\ masked' = [masked EXCEPT ![c] = @ \/ mIRQCounter'[c] = 0]

NotAwaited == TRUE

NotHeld(c) == TRUE

NoWake == UNCHANGED wake

(* SystemMode *)
disableInterrupts(c) ==
    /\ masked' = [masked EXCEPT ![c] = @ \/ mIRQCounter[c] = 0]
    /\ mIRQCounter' = [mIRQCounter EXCEPT ![c] = (@ + 1) % Modulus]

enableInterrupts(c) ==
    /\ mIRQCounter' = [mIRQCounter EXCEPT ![c] = (@ - 1) % Modulus]
    /\ masked' = [masked EXCEPT ![c] = @ /\ mIRQCounter'[c] # 0]

(* SEV, on ARM *)
SendWake == wake' = [c \in CPU |-> ~x86]

----------------------------------------------------------------------------
(* init_primary_cpu_c *)
EnterPrimary ==
    /\ pc[Primary] = "entry"
    /\ disableInterrupts(Primary)
    /\ Goto(Primary, "start")
    /\ UNCHANGED <<core, holdingPen, pen, wake>>

(* startup_core, after setHoldingPen; the INIT and STARTUP IPIs.  The core *)
(* comes up, or not, and then the primary waits for it all the same.       *)
StartCore(up) ==
    /\ pc[Primary] = "start" /\ core \in Started
    /\ holdingPen' = IF x86 THEN holdingPen ELSE core
    /\ pc' = [pc EXCEPT ![Primary] = "await", ![core] = IF up THEN "entry" ELSE @]
    /\ UNCHANGED <<core, pen, wake, mIRQCounter, masked>>

(* waitForSecondary; while (mHoldingPen != cpu) *)
Confirmed == holdingPen = IF x86 THEN core ELSE -1

AwaitCore ==
    /\ pc[Primary] = "await"
    /\ Confirmed
    /\ core' = core + 1
    /\ Goto(Primary, "start")
    /\ UNCHANGED <<holdingPen, pen, wake, mIRQCounter, masked>>

AllStarted ==
    /\ pc[Primary] = "start" /\ core \notin Started
    /\ Goto(Primary, "init")
    /\ UNCHANGED <<core, holdingPen, pen, wake, mIRQCounter, masked>>

(* The rest of the initialisation, which ends with the release of the      *)
(* secondary cores on ARM.                                                 *)
FinishBoot ==
    /\ pc[Primary] = "init"
    /\ holdingPen' = IF x86 THEN holdingPen ELSE ReleasePen + NR_CPUS
    /\ SendWake
    /\ Goto(Primary, "activate")
    /\ UNCHANGED <<core, pen, mIRQCounter, masked>>

----------------------------------------------------------------------------
(* init_secondary_cpu_c *)
EnterSecondary(c) ==
    /\ c # Primary /\ pc[c] = "entry"
    /\ disableInterrupts(c)
    /\ Goto(c, "setup")
    /\ UNCHANGED <<core, holdingPen, pen, wake>>

(* setHoldingPen(-1); or mHoldingPen++, which reads the variable ...       *)
ConfirmStartup(c) ==
    /\ pc[c] = "setup"
    /\ IF x86
       THEN Goto(c, "confirm") /\ pen' = [pen EXCEPT ![c] = holdingPen] /\ UNCHANGED holdingPen
       ELSE Goto(c, "hold") /\ holdingPen' = -1 /\ UNCHANGED pen
    /\ UNCHANGED <<core, wake, mIRQCounter, masked>>

(* ... and writes it. *)
WriteHoldingPen(c) ==
    /\ pc[c] = "confirm"
    /\ holdingPen' = pen[c] + 1
    /\ Goto(c, "hold")
    /\ UNCHANGED <<core, pen, wake, mIRQCounter, masked>>

(* holding_pen < (4711 + cpuNr); the loop of confirmStartup                *)
Released(c) ==
    IF x86 THEN holdingPen + 1 \in {mRegisteredCPUs, NR_CPUS}
    ELSE holdingPen >= ReleasePen + c

(* After the holding pen ARM unmasks with enableInterruptBit, which does   *)
(* not count; x86 calls enableInterrupts.                                  *)
LeaveHoldingPen(c) ==
    /\ pc[c] = "hold"
    /\ Released(c)
    /\ IF x86 THEN enableInterrupts(c)
       ELSE masked' = [masked EXCEPT ![c] = FALSE] /\ UNCHANGED mIRQCounter
    /\ Goto(c, "activate")
    /\ UNCHANGED <<core, holdingPen, pen, wake>>

(* ARM waits with WFE, which sleeps until the event register is set.       *)
EnterSleep(c) ==
    /\ pc[c] = "hold" /\ ~x86 /\ ~Released(c)
    /\ Goto(c, "sleep")
    /\ UNCHANGED <<core, holdingPen, pen, wake, mIRQCounter, masked>>

WakeUp(c) ==
    /\ pc[c] = "sleep" /\ wake[c]
    /\ wake' = [wake EXCEPT ![c] = FALSE]
    /\ Goto(c, "hold")
    /\ UNCHANGED <<core, holdingPen, pen, mIRQCounter, masked>>

----------------------------------------------------------------------------
(* activateDispatching: on ARM it masks interrupts, past the counter.      *)
ActivateDispatching(c) ==
    /\ pc[c] = "activate"
    /\ masked' = [masked EXCEPT ![c] = @ \/ ~x86]
    /\ Goto(c, "dispatching")
    /\ UNCHANGED <<core, holdingPen, pen, wake, mIRQCounter>>

(* dispatching() up to its loop ... *)
Dispatching(c) ==
    /\ pc[c] = "dispatching"
    /\ enableInterrupts(c)
    /\ Goto(c, "waiting")
    /\ UNCHANGED <<core, holdingPen, pen, wake>>

(* ... the top of the loop ... *)
StartLoop(c) ==
    /\ pc[c] = "waiting"
    /\ disableInterrupts(c)
    /\ Goto(c, "getEvent")
    /\ UNCHANGED <<core, holdingPen, pen, wake>>

(* ... its end, if there is no task, ... *)
NoTask(c) ==
    /\ pc[c] = "getEvent"
    /\ enableInterrupts(c)
    /\ Goto(c, "waiting")
    /\ UNCHANGED <<core, holdingPen, pen, wake>>

(* ... and the jump into a task, which may make others ready (SEND_WAKE)   *)
(* and comes back to activateDispatching.                                  *)
RunTask(c) ==
    /\ pc[c] = "getEvent"
    /\ Goto(c, "task")
    /\ UNCHANGED <<core, holdingPen, pen, wake, mIRQCounter, masked>>

FinishTask(c) ==
    /\ pc[c] = "task"
    /\ SendWake
    /\ Goto(c, "activate")
    /\ UNCHANGED <<core, holdingPen, pen, mIRQCounter, masked>>

BootPrimary ==
    /\ \/ EnterPrimary \/ AwaitCore \/ AllStarted \/ FinishBoot
       \/ \E up \in BOOLEAN : StartCore(up)
    /\ UNCHANGED <<x86, cores>>

BootSecondary(c) ==
    /\ \/ EnterSecondary(c) \/ ConfirmStartup(c) \/ WriteHoldingPen(c)
       \/ LeaveHoldingPen(c) \/ EnterSleep(c) \/ WakeUp(c)
    /\ UNCHANGED <<x86, cores>>

Loop(c) ==
    /\ \/ ActivateDispatching(c) \/ Dispatching(c) \/ StartLoop(c)
       \/ NoTask(c) \/ RunTask(c) \/ FinishTask(c)
    /\ UNCHANGED <<x86, cores>>

Next ==
    \/ BootPrimary
    \/ \E c \in CPU : Loop(c)
    \/ \E c \in Secondary : BootSecondary(c)

Spec == Init /\ [][Next]_vars

----------------------------------------------------------------------------
InLoop(c) == pc[c] \in {"dispatching", "waiting", "getEvent", "task"}

(* "Allow interrupts inside the dispatch loop, as no other work is         *)
(* executed at the moment" (dispatching): while the scheduler's locks are  *)
(* taken and while a task runs, the core is masked, whatever way it took   *)
(* into the loop and however often it went through it.  On AMD64 it does   *)
(* not hold: a secondary core counts one enableInterrupts too many.        *)
WorkUninterrupted == ~x86 => \A c \in CPU : pc[c] \in {"getEvent", "task"} => masked[c]

(* And it is unmasked when it waits, or nothing would wake it again.       *)
WaitsUnmasked == \A c \in CPU : pc[c] = "waiting" => ~masked[c]

(* The handshake serialises the starts: no two secondary cores are between *)
(* their start and their confirmation, where they write the pen without a  *)
(* lock and where -1 has one meaning only.                                 *)
OneStartAtATime ==
    \A c, d \in Secondary :
        {pc[c], pc[d]} \subseteq {"entry", "setup", "confirm"} => c = d

(* No secondary core dispatches before all have confirmed their start; on  *)
(* ARM none does before the primary has finished the initialisation        *)
(* ("Wait until the primary core gives the go to handle events").          *)
NoEarlyDispatch ==
    \A c \in Secondary : InLoop(c) =>
        /\ \A d \in Started : pc[d] \notin {"off", "entry", "setup", "confirm"}
        /\ ~x86 => pc[Primary] \in {"activate"} \/ InLoop(Primary)
=============================================================================
