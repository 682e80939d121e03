# A TLA+ development of CyPhOS

CyPhOS is a bare-metal, component-based multicore operating system for ARMv7
(Cortex-A9: NXP i.MX6, Exynos 4412, OMAP 4460) and AMD64. It has no threads:
components (*OSCs*) are driven by *events*; an event has subscribed *triggers*,
a trigger names a function, its component and further components it depends on.
Every core runs the same non-preemptive dispatch loop and executes one trigger
at a time, with all the components that the trigger needs locked.

This directory holds the TLA+ modules that model the system, the configurations
with which TLC checks them, and proofs for TLAPS. Paths below are relative to
`src/`. Where `common/config.h` and the Makefile choose (scheduler, eviction,
board), the modules name the choice: the dispatcher has the default,
`CONFIG_SCHEDULER_PRIORITY_MULTI`; the schedulers, the boards, the back ends of
the cache management and the two builds of the CAN driver are all modelled, as
values of a variable that the initial state chooses.

## 1. Inventory

| Component | State | Operations | Correct when |
|---|---|---|---|
| Event dispatcher (`eventhandling/EventHandler.cc`, `Event.h`, `Trigger.h`) | two static pools of `EventTask`; subscribers of each event; `pActiveEventTask` and `pStackPointers` per core; `exceptionActive` | `eventTriggered`, `interruptEventTriggered`, `callOSCTrigger`, `subscribeEvent`, `getTask`, `readyTask`, `dispatching`, `tryTaskLock`, `unlockTask`, `eventTaskFinished`, `requeueEventTask` | no component is used by two cores; no task object is lost or used twice; every ready task runs; an exception stops the system |
| Schedulers (`*Strategy.cc`, `EventQueue.cc`, `EventPriorityQueue.cc`) | one or several queues | `enqueue`, `getEvent` | one level is served in the order of arrival; nothing better that was free all along is left behind |
| Stack pool (`StackPool.cc`) | used-flag and owner of each stack | `getFreeStack`, `setStackFree` | no stack has two users or leaks |
| Linked list (`common/Queue.cc`) | head, tail, size, two links and an owner per element | insert at either end or beside an element, remove, fetch head | behaves as a sequence |
| Spinlock, barrier (`sync/`) | two ticket counters; two counters and two locks | `lock`, `unlock`; `await` | arrival order, nobody starves; nobody passes before all have come |
| Start-up (`arch/*/boot`, `SMPManager.cc`, `ACPI.cc`, `SystemMode.cc`) | caches, MMU, stacks and mode of each core, holding pen, nesting counter of the interrupt mask | the start-up programs, start of the secondary cores, `disableInterrupts`, `enableInterrupts` | each step finds what it relies on; cores start one by one; all reach the loop; work runs masked |
| Generic timer (`driver/GenericTimer.cc`) | delta list of oneshot events, list of periodic events, two pools | `setOneshotEvent`, `setPeriodicEvent`, `cancel...`, `handleTick` | an event fires after its delay, once or periodically, and returns to its pool |
| Interrupt path (`interrupts/`, `ARMGIC.cc`, `LocalAPIC.cc`, `IOAPIC.cc`, `LegacyPIC.cc`) | pending, active and masked lines; event per number | acknowledge, mask, dispatch, end of interrupt | no line stays masked, no interrupt is forgotten |
| UARTs, keyboard (`*Uart*.cc`, `LegacyKeyboard.cc`) | FIFO, interrupt conditions; modifiers and prefix | handler, `readC`, `decodeKey`, `setLED` | a key is read once and in order |
| Console (`ConsoleBuffer.cc`, `GenericIO.cc`, `UARTConsole.cc`) | ring of lines; input buffer | start, write and print a line; edit and run a command | lines are printed once and are not mixed |
| Clocks and hardware timers | PLLs, dividers, voltages, counters | set, read, program the tick | what is set is what is read; ticks have their length |
| Cache management (`cachemanagement/`, `PL310CacheManagement.cc`, `CATManager.cc`) | label, use and age per cache way; page places; lockdown registers, masks | `preloadOSC`, `evictOSC`, `getLRUWay`, prefetch, evict | a way has one owner; what runs is loaded; no page loses data |
| Memory mapping (`ARMMMU.cc`, `ARMv7PageTable.cc`) | page tables, TLBs | fill, map, flush, translate | translation is what was mapped |
| CAN (`MCP2515SPI.cc`, `CanBuffer.h`, `IMX6ECSPI.cc`) | controller buffers and flags, message lines, registered events, SPI registers | initialise, receive, send, change mode | every subscriber reads the message of its event; each message is sent once |
| i.MX6 watchdog, temperature monitor, pins; performance counters | device registers | configure, reload, read, alarm; count | the watchdog never barks if it is served in time; what is read is what was set |
| Text output (`OutputStream.cc`, `CGAScreen.cc`) | buffer and base; cells and cursor | print, flush; place, scroll | what is printed reads as what was printed |
| Bare-metal programs (`baremetal/`) | a program per core, `holding_pen`, an array, the ways of the cache | the entry function of each test program | cores keep in step; no two work on the same words or ways |
| LEDs, test components, benchmarks, TACLeBench, tools | | applications | not modelled |

### How they interact

* A trigger function or an interrupt handler calls `eventTriggered`. For each
  subscribed trigger a task is taken from a pool, filled and enqueued, then all
  cores are woken (`SEND_WAKE`).
* `dispatching()` asks the scheduler for a task. The scan of a queue runs under
  `mQueueLock` and calls `tryTaskLock` for each candidate, which compares its
  components with those of the tasks of all cores under `pActiveTaskLock`. The
  core takes a stack and jumps to the trigger; before that the cache management
  loads the components.
* The trigger returns into `eventTaskFinished`, still on the pool's stack: the
  components are unlocked, the task goes back to its pool, a oneshot event to
  its own. `activateDispatching` resets the core's own stack, and only then
  the pool's stack is released, in `dispatching()`.
* A device raises its line; the handler masks the line, emits its event and
  acknowledges; the driver's trigger serves the device later on some core and
  unmasks the line. The timer's trigger runs `handleTick`, which emits the
  expired timer events with `mOneshotLock` held.
* Locks nest in the order `mOneshotLock`, `mSubscriberLock`, `pEventTasksLock`
  or `mQueueLock`; `mQueueLock`, `pActiveTaskLock`; `mOneshotLock`,
  `mOneshotPoolLock`. All are ticket spinlocks.
* Interrupts are masked outside of the short windows in which the loop polls or
  sleeps (`SystemMode`'s nesting counter).

### What is hard here

True concurrency without threads: several cores in the same code with fine
locks, whose critical sections leave state between them; work that is split
between an interrupt handler and a task on another core; lost wake-ups between
a scan and `WFE`; handshakes through one unlocked word at boot, with caches
that are on or off; counters that wrap; static pools, rings and FIFOs that run
full; devices that answer late, twice or not at all. Nothing is persistent:
crash recovery does not occur. `PROJECT.json` lists each hazard at its line
with the properties that cover it.

## 2. How the modules fit together

| Abstract | Detailed | Composed in |
|---|---|---|
| `FairLock` | `Spinlock` | `Barrier` |
| `Barrier` | `Baremetal` | |
| `List` | `Queue`, `EventPriorityQueue` | `Scheduler` |
| `Boot` | `CoreStartup` | |
| `TimerService` | `GenericTimer` | |
| `ComponentExclusive` of `EventHandler` | | assumed by `Interrupts`, `MCP2515SPI`, `ConsoleBuffer`: triggers with a component in common do not overlap |
| | `ARMGIC`, `APIC`, `Uart`, `LegacyKeyboard`, `ClockManagement`, `ConsoleBuffer` | `Interrupts` |
| | `PageTable` | `CacheManagement` |
| | `IMX6Peripherals`, `PerformanceCounter`, `OutputStream`, `CGAScreen` | `DriverSettings`, and with it `Interrupts` |
| | `CanBuffer`, `CANRate`, `IMX6ECSPI` | `MCP2515SPI` |

Each row's refinement is a property of a run (`ImplementsFairLock`,
`ImplementsList`, `FiresOnTime` and `FiresPeriodically`), which a theorem states
too, or a theorem alone (`StartupImplementsBoot`, `ProgramImplementsBarrier`).
`MC...` modules hold the instances; `...Proofs` the theorems; `SequenceLemmas`
facts about `InsertAt` and `RemoveAt`, and the induction over numbers.

Some modules hold operators marked as faulty variants. They belong to no
specification: each is a plausible error in one operation, with which the
property it is meant for fails.

### EventHandler

One action is what a core does under one spinlock, or between two. `pc[c]` is
the place in the dispatch loop: `ReleaseStack`, `StartLoop` (the exception
check, interrupts off), `LockQueue`, one `TakeTask` or `SkipLevel` per candidate
(the scan with `tryTaskLock` inside), `EndOfQueue` (from the core's queue to the
global one, or to sleep), `GetStack`, `Dispatch`, `WaitEvent`; after the trigger
`Return`, `FinishTask`, `UnlockTask`, `RequeueTask`. Emission is a second thread
of control of the same core, `emit[c]` and `newCon[c]`: `StartEmission` (by
`TriggerEvent`, an `Interrupt`, or a firing oneshot event), then for each
subscriber `GetTask` or `NoFreeTask`, then `ReadyTask`; `FinishEmission` at the
end. A trigger may do anything: emit any event, call a trigger, subscribe,
unsubscribe, arm or fire oneshot events, raise an exception. `wake[c]` is ARM's
event register (SEV sets it on all cores, WFE sleeps only if it is clear). AMD64
polls instead of sleeping, and the end of an interrupt handler clears
`exceptionActive`.

Abstractions: pools are sets because which free task is taken never matters;
the subscribers of an event are copied at the start of the emission. The walk
along `getNext()` reads the link after `readyTask`; a timer event has a single
subscriber, whose link is null throughout, so the race with
`returnOneshotEventToPool` changes nothing. Statistics and tracing are left out.

### Queue, List, EventPriorityQueue, Scheduler

`Queue` has the links, owner and size of each element as in `common/Queue.cc`,
one action per public operation (the lock around each call makes it one step),
against a sequence without duplicates. `EventPriorityQueue` adds `enqueue` and
`dequeueHighestPriority` on the links. `Scheduler` has the four strategies on
top of their queues, as one variable `strategy`: Fifo and single priority queue,
one queue per core and a global one by priority, and four per-core and global
queues of MultiFifo. `scans[c]` holds the queues that a `getEvent` has still to
search and `place[c]` the place of the scan whose lock it holds. `TryTask` is one
call of `tryTaskLock`: between two of them other cores use the other queues and
finish tasks, because `unlockTask` takes only `pActiveTaskLock`. `refused`,
`open` and `arrived` are history: the tasks the search has found locked, those that
were ready and free at every moment since it began, and all in their order.
`FifoStrategy` and `SingleQueuePriorityStrategy` ignore a trigger's affinity;
`MultiFifoStrategy` searches local tasks before global interrupt tasks although
its header says interrupts come first.

### Spinlock, FairLock, Barrier

Each atomic instruction is a step: `Lock` draws the ticket, `Enter` reads
`active`, `Unlock` increments it, modulo the width of the counter. `FairLock` is
a holder and a queue of waiters. `Barrier` composes the two locks of `await`
with its two counters, one step per statement between lock operations;
`entered` and `returned` count the rounds (history, modulo `Rounds`).

### Baremetal

The programs of `baremetal/`, one of which takes the place of the dispatcher;
`program` says which is built (the build file names `CATTest`). `work[c]` is what
a core does before it synchronises next: prints, work on a way of the cache, words
of `testarray`. `SpinlockTest` and `CATTest` synchronise with the steps of `Barrier`,
`CoherencyTest` with a number in `holding_pen` that goes round the cores,
`MemoryProfiling` with a number per core and WFE; `HierarchyProfiling` runs on
core 0 only. `Continue` is what a core does after an `await`. The
restart after 1000 rounds of measurements is left out. A core that reads its number in
the pen of `MemoryProfiling` too late goes on sleeping, as in the code
(`MemoryProfiling.cc`); the model has it as a state in which the core does nothing.

### Boot and CoreStartup

`Boot` is the protocol. ARM: the primary writes the core's number into
`holding_pen`, waits for -1, and at the end writes 4711 + n for each core with
SEV, while the secondary cores wait in WFE. AMD64: each core increments
`mHoldingPen` without a lock, in two steps. `mIRQCounter` and `masked` are the
nesting counter, an unsigned integer modulo `Modulus`, and the CPU's mask.

`CoreStartup` is what the cores execute. Each core has a program of named
steps, from the assembler entry through caches, MMU, exception stacks, page
tables, devices and per-core objects to `dispatching()`; `done[c]` counts its
steps. `startup[c]` holds what is on, whether the data cache has stale or dirty
lines, and the stack in use; `l2` the shared cache; `ready` what memory and
board hold for all; `cpus` the cores that the search of the ACPI tables found.
`board` is one of the three ARM boards, which differ in what the boot ROM leaves
on (i.MX6 both caches, Exynos the first level, OMAP none) and in the cores that
`startup_core` can power, or AMD64, with four versions of the firmware's tables.
`cores` is how many cores the build brings up: all of the board (four, on the OMAP
two), or the primary alone without `CONFIG_BOOT_MULTICORE`; on AMD64 all that the
tables list. A core that is not powered stays off while the primary waits for it:
the Exynos asks for cores 2 and 3 but powers core 1 only. Four of the steps (enter, start the cores,
finish, confirm) are Boot's actions; all others leave Boot's variables alone.
`Prepared` lists for each step what it reads of what earlier steps, possibly of
another core, have written. An AMD64 core is started by INIT, STARTUP, STARTUP;
the second STARTUP is sent only when delivery is not known and is ignored by a
core that runs. The application processors share the start-up stack, which is
safe only because they are started one by one.

### GenericTimer, TimerService

Oneshot events in a list of differences, periodic events counted one by one.
`HandleTick` is split where a lock is taken or released and at each event fired,
clients set and cancel events and tasks end in between. `setting` are calls that
have an event but not yet the lock of the list. `TimerService` has one remaining
time per event. An interval of less than a tick is 0 ticks, as for
`CANSimpleTalkerApplication.cc:39`, which asks for 1 ms with ticks of 1 s: its count
wraps when it is first counted down, and the event fires whenever the count has
gone through its whole range (`Wrapped`). The model has such intervals. Preconditions that the
code leaves to its callers: delays of oneshot events of at least a tick (all
callers ask for seconds; a shorter one wraps in the list of differences), and
no cancellation of an event that has left its list (`GenericTimer.cc:263`
would dereference a null pointer).

### PageTable, CacheManagement

`PageTable` is the two-level table of ARM with the TLB of each core (a flush is
local) and the move of a page in three steps (`BeginMove`, `CopyPage`,
`EndMove`); `memory` says whose latest content a physical page has.
`CacheManagement` runs tasks: the components are looked up, ways are chosen
(`getLRUWay`), filled, labelled, used and evicted, each access of the table a
step of its own when the code holds no lock. `variant` is the back end: page
coloring, PL310 lockdown (a register that all cores read, change and write, under
`hwLock`), or CAT masks, each with and without eviction after use. A core that
finds no way stops for good, as the code does (`AbortsOnlyIfFull`).

Where the hardware puts a line is decided by the register or the core's mask
(`Allocates`), for the prefetch (`FillWay`) as for any other access: outside of the
jobs a core misses on components that are not loaded (`Miss`), as the dispatcher
reads triggers and dependencies in `tryTaskLock` while interrupts run their handlers.
Only critical data and components are cacheable (`initOS.cc:140`), and a core that
loads or runs a task has its interrupts masked or its own components loaded, so
nothing else misses. The PL310's register is that of all masters, so
the line may go to the way that another core has open for its load. `content` then is
`Lost`, and a line that came in elsewhere makes its part `stray`: it is in the cache,
but the prefetch does not bring it to its way. `RunsCachedIfEvicted` names these two
as its exceptions. What it excludes is that a way stays open or is reopened, or that
a part is taken for loaded that is not.

### Interrupts and its parts

`machine` is one of five: the three ARM boards with their UARTs, and the PC
typed on over its UART or its keyboard. The device modules are operators on
records of registers, an operator per method. `Interrupts` has the actions: a
key arrives, time elapses, a core takes an interrupt (with the mask of the
GIC or the acceptance of the local APIC), dispatches it, ends it, takes a task,
serves the device, decodes, edits the console's input, writes and prints lines.
Keys and ticks come from a `Script`. The properties name what the code does not
handle as their exceptions: a FIFO overrun, the AMD64 interrupt pool exhausted,
the wedged 16550 FIFO, a key read twice or eaten during a LED command, a line
overwritten in a full console buffer. The tasks of one trigger are taken in their
order, as the default scheduler does; the FIFO ones may turn two of them round
(§5), and then keys may as well. Of the interrupt lines, those of the input
device and of the tick are modelled.

### DriverSettings and its parts

`IMX6Peripherals` (watchdog, temperature monitor, pins), `PerformanceCounter`,
`OutputStream` and `CGAScreen` are operators on records of registers, an operator
per method, each register of bits a set. These drivers have one caller and no
step that another one could see half done, so `DriverSettings` states what a
sequence of their calls does, over all values of small registers, and property
`DriversAsNamed` of `Interrupts` checks the statements of the drivers of each
machine. The temperature in degrees is a float in the code; the model has the quotient
before it is rounded.

### MCP2515SPI and its parts

Messages of other nodes set the flags of the controller's two receive buffers;
the driver is polled by a timer (the Autolab build) or woken by the GPIO
interrupt. A step is the instructions to the controller between which nothing
that the controller does by itself can matter. Status reads may be misread
(`Misread`). What goes wrong on the way of a message that is sent is recorded:
`dropped` holds the messages given up because there was no task, no initialised
driver, or because `loadTxBuffer` refused or did not load them, and `faults` says that
it failed (its caller requests the buffer nevertheless, which may send its old
content again) or mistook a busy buffer for a free one. `SentAsEntered` names these as
exceptions. `CanBuffer` is the ring through which lines are handed to triggers
by number, one for each direction; `CANRate` the bit timing of all forty pairs
of clock and speed; `IMX6ECSPI` the SPI registers and FIFOs of a transfer.

## 3. The runs

| Run | Instance | Shows | States |
|---|---|---|---|
| `dispatcher` | 2 cores, 2 + 1 tasks, 2 stacks, 3 triggers, a oneshot event, 3 emissions | the safety properties of the dispatcher | 210,617 |
| `progress` | the same with exceptions on both cores, 2 emissions, no oneshot event | every ready task runs, unless a core crashes; an exception stops all cores for good | 182,674 |
| `queues` | 4 elements; 2 cores, 4 tasks of 2 levels, one an interrupt task, one bound to a core | links agree; a list implements a sequence; the four strategies serve a level in order and leave nothing better behind | 243,894 |
| `locks` | 3 cores, tickets modulo 4, rounds modulo 4, 4 ways, 3 words; all five bare-metal programs | rounds do not mix, both locks implement `FairLock`, every `await` returns, the cores work on separate words and ways | 171,570 |
| `boot` | 4, 2 or 1 ARM cores on 3 boards; 3 of 4 AMD64 cores, 4 versions of the tables | each start-up step is prepared, the handshake, the mask, all cores come to the loop, except for the 4 of the Exynos | 15,575 |
| `timer` | 3 oneshot, 1 periodic event, delays 1 to 3, intervals 0, 1 and 3, one task, tick counters modulo 4 | events fire in their tick, periods are kept, event objects have one user | 272,496 |
| `cache` | 2 cores, 3 components, 4 ways (1 critical), all three back ends with and without eviction after use | ways are held, not shared and given back, pages keep their data, what runs is loaded | 3,591,415 |
| `can` | 6 scenarios of traffic, both builds, 2 lines, one misread; up to 5 messages, one without data, are sent through 3 buffers | triggers find their message, no message is forgotten, mixed or sent twice but for the failures named, rates, polling drains | 262,678 |
| `interrupts` | 5 machines, 2 cores, up to 3 keys and 2 ticks | keys are conserved and read, lines are unmasked, console lines are conserved, ticks are handled, the settings of all drivers | 401,725 |

Three runs show where the program differs from what its comments say:

* `sleep`: `unlockTask` sends no wake-up, so all cores can be in WFE while a
  task whose components have just become free is in a queue. It runs after the
  next interrupt (`progress`), not before.
* `cache_reuse`: without eviction after use, which is the default, the data of a
  component leaves its way after the run while the way keeps its label; the next
  preload is skipped and the component runs uncached.
* `can_lost`: the loop clears a receive flag a second time after the event was
  emitted; a message that came in between is lost.

### Bounds

* `Budget` bounds the emissions that are started while some core is awake;
  interrupts that find all cores asleep are not counted, so a run never ends
  only because the bound is reached. Three emissions of an event with two
  subscribers exceed the task pool, reorder a queue and overlap the end of one
  task with the start of another.
* Two cores are enough for every pair of interfering steps; the proofs of the
  main properties hold for any number. Start-up has four, of which two
  secondary ones can be confused with each other and with the primary.
* `Modulus` is the width of a counter. It is small enough to wrap in each run;
  tickets need `Modulus >=` the number of threads, which 2^32 satisfies.
  `Rounds` tells apart every difference that `Synchronised` allows.
* Timer: three events in the list have one before, one behind and one in the
  middle; the delays make equal, smaller and larger sums; one task object makes
  the pool run empty.
* Cache: component A takes two ways, so that two tasks need more ways than
  there are; a way has two spaces of two pages, and A's second part one page; ages
  reach `LruMax`. `Reached` is a component with one part: of another the cores
  would miss in the same ways.
* CAN: two lines are overrun by three messages of one buffer; the messages have
  8, 0 and more than 8 bytes and an ID of 0. The applications send in one order,
  as many messages as wrap the three transmit buffers, so that a malformed one
  meets a buffer that was sent from. One event is registered for an ID, as by the
  only caller; a second one would read the controller's buffer again
  (`EmitCANEvent`).
* Bare-metal: three cores have a predecessor that is not the successor; four ways
  are one more than the cores, so that the ways of a round are never all of them.
* Interrupts: a FIFO of three with level two fills, times out and overruns;
  lines and interrupt tasks run out on the PC.
* `dispatcher` is symmetric in tasks and stacks, which no constant tells apart.
  The runs with liveness properties use no symmetry.

### Fairness

* Dispatcher: weak fairness of each core's loop and emission, because a core
  executes its program, spinlocks are fair and triggers end; weak fairness of
  the interrupt, because the timer is periodic. Emissions by triggers,
  subscriptions and exceptions have none.
* Barrier: of each core: it executes its program, which ends in an `await` again
  and again; the promise of the barrier needs all cores.
* Start-up: of each core that has been started.
* Timer: of `HandleTick`, the timer interrupt's trigger.
* Interrupts: of each core's steps and the UART's receive timeout; a core does
  not stay in a handler's key or log loop forever. Keys and time are not fair.
* CAN: of each trigger once it is ready, of the polling timer and of the
  interrupt.

`progress`, `interrupts`, `can` (with `can_lost`) and `boot` do not check for
deadlock: after an exception all cores stop, `interrupts` and `can` end when nothing
more is typed or sent, and on the four cores of the Exynos the primary waits in
`waitForSecondary` forever. All other runs do.

## 4. The proofs

**EventHandlerProofs**, for any number of cores, tasks, triggers, events and any
assignment of components. The invariant is `IInv`: `TypeOK`, the three placement
properties (`NoTaskShared`, `NoTaskLost`, `PoolsSeparate`), `LoopOK` (what `cur`,
`scan` and `pActiveEventTask` are at each place of the loop), `LocksDisjoint`
(the active tasks of two cores use disjoint components) and `TasksOK` (a task
that is queued or held has a trigger, and an interrupt task an interrupt event).
`ComponentExclusive` is not inductive: it speaks of what a core *runs*, while
`tryTaskLock` compares what is *locked*. `LocksDisjoint` with `LoopOK` (who runs
a task has it locked) closes that gap; `TasksOK` is needed because
`eventTaskFinished` chooses the pool by the task's event. There is one lemma for
each part, in each one step per action. `EnqueuePlaces` and `DequeuePlaces` say
how a call moves the tasks of a queue. Theorems: `TypeCorrect`, `Exclusion`,
`TasksNotShared`, `TasksNotLost`, `PoolsStaySeparate`.

The second half goes on from `IInv`. `StacksOK` follows a stack from
`getFreeStack` to `setStackFree`: `CoreStack(c)` is the task's stack while the
core checks the task and the deferred one afterwards, it is marked used, no two
cores have the same one, and a core that is back on its own stack has none to
return; hence `StacksNotShared`. `StacksReturned` adds that every used stack is
some core's. A core that is about to take one has none, so the others cannot have
all of them where there is one per core, as in `StackPool` (`EnoughStacks`, the
premise of the theorem); `getEvent` then never gives a task back with its
components locked, and the consistency check in `dispatching` never fails:
`DispatchNeverHangs`, a theorem that no run repeats. The steps that touch a queue are an `Enqueue` of
a task that is in none (`NoTaskShared`), which gets its trigger with it, or a
`Dequeue` (`QueueSteps`); all other steps leave the ranks of the queued tasks
alone. `InsertAtSorted` and `RemoveAtSorted` then give `QueuesSorted`. Sortedness
also makes everything behind the insertion point lower in rank, which with the
distinctness of the queues gives `ServedInOrder`, the theorem about
`NoOvertaking`.

**CoreStartupProofs**, for any number of cores, any width of the counter, any steps
and any firmware, has first the theorems about `Boot`. `StartInv`
relates the primary's place and loop variable to the place of every secondary
core and to the pen: who is behind the loop variable has confirmed, who is
before it is off. Hence `StartsSerialised`. For the mask on ARM an invariant ties
the counter to the place of the core (0 before its boot code and while it waits
for events, 1 everywhere else); on AMD64, `X86MaskInv` does so for as long as
a core waits, which is all that holds there (section 5). `MaskCorrect` has both properties of
the mask. `OrderInv` adds that the pen holds a release value only after the last
core has confirmed, which gives `DispatchAfterBoot`; it needs at most 4711
cores, as a core's number must not look like a release value.

`StartupImplementsBoot`: every step of the start-up is a step of `Boot` or leaves
its variables unchanged, so `StartupMaskCorrect` and `StartupDispatchAfterBoot`
follow from the theorems about `Boot`.

`StartupPrepared` is the theorem about `StartsPrepared`, for each board, any number of
cores and any geometry of the caches. `StartupInv` says what a core has as a
matter of how many steps of its program it has done: `PrimaryPlace` and
`SecondaryPlace` where it then is in `Boot` and that it is masked, `PrimaryCaches` which caches
are on, clean and valid, `PrimaryUnits`, `PrimaryThings`, `SecondaryUnits` and their
AMD64 counterparts what is switched on and ready. What a secondary core
relies on of the primary's work follows because it is off until the primary has
come to the start (`done[Primary] >= StartAt`). On AMD64 the secondary cores share one
start-up stack; that no two are on it needs `StartInv`, that they come up one by one.
`EachLineVisited`: the loops over levels, ways and sets reach every cache line. Of the firmware the proof assumes
(`FirmwareAssumption`) that its tables name the cores that there are, each once, and an
IOAPIC; what the walk through the tables finds is thus checked by TLC for the
four versions and not proved, as a fold is out of the provers' reach.

**GenericTimerProofs**, for any number of timer events, triggers and tasks. `Listed`
and `Pooled` say where an event is; `ListInsert`, `ListRemove`, `ListWithout`,
`ListAppend` and `ListTail` what each call does to who is in a list, and
`InsertPositionInList` that the search for the place of a new event ends, at the
first that is due later or at the end. `OneUser` strengthens `EventsNotShared`: a
fired event has at most one task in all, not one for each trigger, because the
first that ends returns the event to its pool. Hence `EventsHaveOneUser`, the
theorem about `EventsNotShared`.

`Timed` goes on from there to the times, for any range of the counter. `Due` is when each oneshot event
is due: the sum of the differences up to its place, modulo the range. That would not
do to show that events fire in order, so the invariant has `NoWrap`: no sum reaches
the range, although neither the code nor the model looks for it, because an inserted event's
own ticks do not reach it and all that comes after keeps its sum. `InsertKeepsSums`,
`RemoveKeepsSums`, `TailKeepsSums` and `TickLowersSums` say what
`setOneshotTimerEvent`, `cancelOneshotTimerEvent` and the two steps of
`handleTick` do to all the sums of a list. `sumDelay` is a recursive function;
`SumsExist` and `SumIs` bring it to the equations that its values fulfil. `NothingDue`
(an event is due only while `handleTick` has the lock) is what forbids that
an event is cancelled or ticks away in the tick in which it is due, and `Calls` that
who has an event from the pool still finds its own ticks and trigger in it. With these each step of the
timer is one of `TimerService` or leaves its variables alone (`OneshotStep`, `PeriodicStep`): hence
`OneshotEventsFire` and `PeriodicEventsFire`, the theorems about `FiresOnTime` and
`FiresPeriodically`. The premise of the first is `WholeTicks`: no client asks for a
oneshot delay of less than a tick. Without it it is false: a difference that begins at 0
wraps (section 2). The second needs no such premise, only `Kept`, the part of `Timed` that
holds for all delays.

**SpinlockProofs, BarrierProofs**, for any number of threads that the tickets can
tell apart. `TicketInv`: the tickets from `active` on are those of the holder and
the waiters, each of one thread; so `Spinlock` implements `FairLock`
(`SpinlockIsFair`). `ReadySteps` and `WaitingSteps` show that every step of the
barrier is a step of each of its locks or leaves it alone; `LocksFair` follows.
`RoundInv` is what makes the rounds separate: in every state one round either
gathers or is complete; while it gathers, `mNotReady` counts the threads that have not
come and nobody leaves; once it is complete, the last one holds the lock that the next round
needs until `mWaiting` is 0. Hence `RoundsSynchronised`.

The bare-metal programs, for any number of cores, ways and words, are a
use of the barrier (`ProgramImplementsBarrier`), so `ProgramSynchronised` comes
from `RoundsSynchronised`. `WorkIsSeparate` needs more: `WaysInv` (all cores are in
the same place of the rotation, or one ahead of it, by what `entered` and
`returned` say of them, so two cores in one round have different ways), `WorkOnWay`
and `Warming` (what is left to do is on that way), and for the
coherency test `TurnInv` (whose turn it is, and that the words left to check still
hold the number of the core before).

**QueueProofs**, for any number of elements. `Chain(s)`: the links, head, tail and size
are those of the sequence `s`, which has no duplicates, and elements outside of it have no
links. Each operation turns a chain of `s` into one of what `List` makes of `s`.
`ChainIsElements` says that the walk along the links, a recursive function, comes
to `s`: hence `LinksCorrect` (`LinksAgree`) and `QueueIsList` (`ImplementsList`,
with the priority queue's operations).

For the schedulers, with any number of cores and any priorities, `SortInv` keeps the
priority queue sorted (`EnqueueIs` and `DequeueIs` say where the two searches end).
`SchedInv`: a ready task is in the queue that its trigger names and in no other
(`Members`); each queue is in the order of the levels, and of the arrival within one
(`OrderInv`); what was free since a core's search began has not been refused, and is in a queue
that the core has still to scan or of a level that it skipped (`ScanInv`); and all tasks before
the place of a scan were refused by it, or skipped with one of their level that was
(`PlaceInv`, for which a queue has one scan at a time, `OneScans`). `NextPlaceIs` says where a
scan goes on. A scan that ends has therefore left only skipped tasks behind, and one that takes
a task has before it only refused ones or higher levels. Hence
`ServedByArrival` (`StartedInOrder`) and `BestIsTaken` (`NoneBetterLeft`). An
interrupt's task is not passed over because its queue comes before the normal queue of the
same core or of all (`InterruptsFirst`), as long as the index of all is no core's
(`SchedulerAssumption`).

**CacheManagementProofs**, for any number of cores, ways, components and tasks and
every back end. `Holds(c, i, p)` says which parts of its components a core has by
its place in the code: loaded already, or not given back yet. `HeldInv`: each of
them has a way with its label, its owner and the mark `inUse`; `UsedInv` conversely: each way that
is marked is the one a core is at or holds such a part. `LabelsInv`: no two ways have the label
of the same part, although labels are written without the lock. `AtWay(c)` is what a
core may rely on at its way at each place: the part has no other way, a
victim is unused and the core holds `mLock`, a way that is evicted is one of the
task's own. A core changes only ways that are its own by these (`OwnWay`), so a step
of one leaves the others' parts of the invariant alone (`OthersAtTheirWay`, `OthersHold`); `StepInv`
composes what is left to show for each action. The argument needs that tasks that run
together have no component in common (`ComponentExclusive`, a guard of `NextTask`), that
components have no pages in common, and that a task names no component twice: no
trigger of the sources does, and the second time its way would be taken for loaded and
given back twice. Hence `WaysStaySeparate`, `WaysAreHeld` and, by an injection of
the ways in use into the parts of the running tasks, `AbortsIfFull`.

`DataInv` goes on from `IInv` to the pages. Each page of a part is at home or in the
color of a way that is in use for the part (`HomeInv`, where `Away` includes the way
whose label is still to be written); wherever it is, that memory has its
latest content (`MemInv`). `MoveInv` follows `moveVirtualPageToPhysicalAddress`: the
window through which a core copies leads to the destination, on this core too, whose
buffer may hold an older translation of anything else. The destination is a page that no
other part has or gets, as colors of different ways differ (`ColorOffsetIs` brings the
recursive offset of a page in its color into closed form), home pages differ and the dummy page is the
core's own. So the moves of two cores touch
different pages, windows and destinations, and each leaves the other's part of the
invariant alone. A move flushes only its own core's buffer; that this is enough is
`TlbInv`: a core has a translation only of pages that it moves or whose parts it holds, and
`EvictInv` that what it has evicted is home and forgotten. Hence
`PagesKeepTheirContent`, the theorem about `DataPreserved`. Without colors no page is
ever moved (`PlainInv`).

`FreshInv` says what a way has been loaded with, where components are evicted after
use. Then no way keeps its label when it is given back (`UsedOnly`), so none is reused and
every part is loaded into an empty one (`EmptyInv`). `LoadInv` counts the pages that are
in it already, for the colors in the page table, for the lockdown and the classes of service
in `content` (`In`, with the two exceptions); `HeldLoaded`
keeps them there until the part is evicted. That no other core's miss takes them is
`LocksInv`: at most one core is between opening and closing a way, what it has read of the
register is still in it, so after the boot every way is locked but the one that is open
(`ClosedInv`), and the mask of a core that is not at a job is its standby mask, which is no
way's (`MasksApart`). So a core allocates outside of the jobs only where a way is open
(`NoStrayWay`). Hence `LoadedIsCached`, the theorem about `RunsCachedIfEvicted`. Without that setting it does not hold: that is what the run
`cache_reuse` shows.

The two theorems rest on assumptions that `WaysAreHeld` and its like do not need. `ColorAssumption`: the
linker places the colors behind everything else, critical data and components do
not overlap, and there are ways enough for the critical data, for which the boot
does not look. `BitsAssumption` (for `LoadedIsCached`): the
bits of the CAT mask that the cores and the ways take for themselves are all different. `Nil \notin Move` and `StepAssumption`: `Nil` is none of the values it stands beside.

Induction: the library's theorems cannot be used, but induction over numbers needs
none. `Induction` in `SequenceLemmas` states it of a *set* of numbers, which is no
operator parameter, and follows from `LeastNumber`.

Assumptions: those that the modules state about their constants, and the premises
`EnoughStacks` and `WholeTicks` of the theorems that name them.

**Only model-checked:** the properties of CAN and interrupts, and all liveness properties. Liveness is out
of the prover's reach; `Interrupts` uses bitwise operators, which it cannot
handle either.

## 5. What the code does besides

Observations made while modelling, for which no run stands; where one touches a
property, the property names it as an exception.

* Dispatcher: on AMD64 the end of any interrupt clears the shared
  `exceptionActive` (`interrupt_handler.cc:81`), so other cores go on after an
  exception although `EventHandler.cc:426` says they stop. A oneshot event whose
  emission finds no free task for any subscriber never returns to its pool
  (`EventHandler.cc:550`). `dequeueHighestPriority` skips the rest of a level
  after one locked task (`EventPriorityQueue.cc:112`), so a free task of the level
  stays behind lower ones, although `EventPriorityQueue.h:42` promises the highest
  that is free (`Skipped` in `NoneBetterLeft`). A FIFO scan that has found a
  task locked may start a later one that needs the same component, when another
  core finishes between the two calls of `tryTaskLock` (`refused` in
  `StartedInOrder`).
* Start-up: an AMD64 secondary core enables interrupts twice (`initOS.cc:251`
  and `dispatching()`), so `mIRQCounter` wraps and never masks that core again;
  `WorkUninterrupted` is therefore stated for ARM. Before ACPI has run, all
  AMD64 cores are number 0, so the boot processor must be the first entry of the
  firmware's table (`SMPManager.cc:57`). An ARM secondary core increments its
  counter (`initOS.cc:268`) with its cache off. The Exynos start-up powers core 1
  only (`exynos_smp.cc:36`), so with its four cores (`exynos4412.h:16`) the primary
  waits for core 2 in `waitForSecondary` forever and core 1 stays in the holding pen
  (`Incomplete` in `AllCoresDispatch`). The order of the steps in `startup.S:80` differs
  from its comment.
* Interrupt controllers: half of the GIC's lines are edge-triggered although
  `ARMGIC.cc:41` says level; `clearPending` writes nothing; `setInterruptPriority`
  clears four bits only; the dispatcher's check admits `NR_INTERRUPTS`
  (`InterruptDispatcher.cc:37`); the IO-APIC's last pin is never initialised.
* Devices: on the Exynos a character that comes between `readC` and the
  acknowledgement may wait for the next one; the 16550's handler reads one
  character per edge at level 14; keyboard modifiers are never released, and
  the first write of the 16550's set-up goes to its data port. The interrupt of the
  temperature monitor is masked when it is taken and never enabled again
  (`IMX6TempMonitor.cc:97`), that of the pins only in the CAN build
  (`IMX6GPIO.cc:212`): after the first alert or edge these lines stay masked
  (`LineMaskedOnlyWhileHandled` is about input and tick).
* Performance counters: `disableCycleCount` (`ARMV7PerformanceCounter.cc:121`)
  stops all event counters and not the cycle counter; `resetGlobal` (`:149`) sets
  all bits but the one that resets.
* Watchdog, sensor, screen, pins: a second start of the watchdog ORs the new
  timeout into the old one; a count below `HOT_COUNT` wraps
  (`IMX6TempMonitor.cc:138`); scrolling leaves half of the last line NUL and
  `setPosition` accepts the row below it; the CAN set-up unmasks pin 28 as well.
* Clocks: odd dividers of the i.MX6 are read 12 MHz low; its voltages are only
  ORed; the Exynos product overflows for multipliers from 179; the temperature
  handler changes the core clock after the timers were programmed from it.
* Timer: an interval of 0 ticks (`CANSimpleTalkerApplication.cc:39`) fires in
  every 2^32-th tick, where the caller asks for 1000 us (`Wrapped` in
  `FiresPeriodically`).
* Console: `clearBuffer` starts in another line (`UARTConsole.cc:142`); the
  console buffer overwrites its last line when all are used.
* Cache: the lockdown registers of the PL310 open a way for all masters, so that
  other cores may allocate in it while one loads (`Lost`), and a line that is in
  the cache already is not brought to the way that is loaded (`stray`);
  `getLRUWay` ages only the ways before the first free one; `enableProcessorCAT`
  ORs the class into the register.
* CAN: 16 MHz with 50 kBit/s leaves a register at its default (12.5 kBit/s);
  errors of `readStatus` are taken for status bits; the result of `loadTxBuffer` is
  ignored (`MCP2515SPI.cc:164`, `:192`), so after a malformed message, or one for which
  the buffer stayed busy, an older one may be sent again; a message for whose
  trigger there is no task is not sent (`EventHandler.cc:646`); a message of ID 0 is never
  acknowledged; a message between `setMode` and the subscription leaves the
  interrupt pin low, and reception by interrupt dead; an event without a free
  task leaks its line.

## 6. What is not modelled

* `Spinlock::take_if_free`, `EventPriorityQueue::dequeueHead`, the component
  lock, GIC groups and software interrupts, `deactivateCANEvent`,
  `CATManager::enableAllWays` and similar methods: nobody calls them.
* AMD64's page tables beyond their set-up, its caches during start-up, and the
  walk of the multiboot information: data that the boot loader provides.
* LEDs, whose registers nothing reads; the console's commands, which only print.
* The test components of the dispatcher, benchmarks, TACLeBench, scripts and the
  build: not part of the system.
* Weak memory: every step is atomic and seen at once (the start-up, where
  caches are off, tracks stale and dirty lines). The spinlocks use acquire and
  release; the unlocked words at boot are separated by barriers or by WFE.
