---------------------------- MODULE EventHandler ----------------------------
(***************************************************************************)
(* The dispatcher of CyPhOS: every CPU runs the same non-preemptive loop   *)
(* that takes a task from its own ready queue or from the global one,      *)
(* locks the components the task's trigger needs, runs the trigger on a    *)
(* stack of the pool and returns to the loop.  Triggers and interrupt      *)
(* handlers make new tasks ready.                                          *)
(*                                                                         *)
(* A step is what the code does under one spinlock, or between two of      *)
(* them.  Modelled with it: MultiQueuePriorityStrategy (the default        *)
(* scheduler), EventPriorityQueue, StackPool, the task pools and the part  *)
(* of GenericTimer that the end of a task calls.                           *)
(***************************************************************************)
EXTENDS Integers, FiniteSets, SequencesExt

CONSTANTS
    CPU,              \* the cores, 0 .. NR_CPUS - 1
    SWTask,           \* pEventTasks, cEventTaskPoolSize of them
    IntTask,          \* pInterruptTasks, cInterruptTaskPoolSize of them
    Stack,            \* StackPool::mStacks, one per core
    Component,        \* the OSC instances
    TimerComponent,   \* the one that runs GenericTimer::handleTick
    Trigger,          \* the Trigger objects, with their constant attributes:
    Destination,      \*   pDestinationOSC
    Deps,             \*   pDeps
    Priority,         \*   pPriority
    Affinity,         \*   pAffinity, a CPU or Global
    InterruptEvent,   \* events whose pType is INTERRUPT_EVENT
    OneshotEvent,     \* timer events of the oneshot pool
    SWEvent,          \* all other events
    DummyEvent,       \* pDummyEvent
    InitSubscribers,  \* the subscriptions made before dispatching starts
    InterruptCPU,     \* the cores the interrupt controller signals
    TrapCPU,          \* the cores on which a trigger may raise an exception
    X86,              \* built for AMD64 and not for ARMv7
    Budget,           \* bound: emissions started while some core is awake
    Global,           \* names the queue mFifoQueue[NR_CPUS]
    Nil               \* nullptr

Task == SWTask \cup IntTask
Event == SWEvent \cup InterruptEvent \cup OneshotEvent
Queue == CPU \cup {Global}

ASSUME ConstantsAssumption ==
    /\ SWTask \cap IntTask = {}
    /\ SWEvent \cap (InterruptEvent \cup OneshotEvent) = {}
    /\ InterruptEvent \cap OneshotEvent = {}
    /\ DummyEvent \notin Event
    /\ Global \notin CPU
    /\ Nil \notin Task \cup Event \cup {DummyEvent} \cup CPU \cup Trigger
                    \cup Stack
    /\ Destination \in [Trigger -> Component]
    /\ Deps \in [Trigger -> SUBSET Component]
    /\ Priority \in [Trigger -> Nat]
    /\ Affinity \in [Trigger -> Queue]
    /\ InitSubscribers \in [Event -> Seq(Trigger)]
    /\ TimerComponent \in Component
    /\ InterruptCPU \subseteq CPU
    /\ TrapCPU \subseteq CPU
    /\ X86 \in BOOLEAN
    /\ Budget \in Nat

VARIABLES
    pEventTaskPoolQueue,     \* the free tasks of each kind; which of them
    pInterruptTaskPoolQueue, \*   is taken next does not matter, so: sets
    trigger, event,   \* EventTask::trigger and EventTask::event
    pStackpointer,    \* EventTask::pStackpointer
    queue,            \* mFifoQueue, highest priority first
    queueLock,        \* the core that holds mQueueLock
    subscribers,      \* Event::mSubscribers
    subscriberLock,   \* the core that holds Event::mSubscriberLock
    pActiveEventTask, \* the task whose components the core has locked
    pStackPointers,   \* the stack the core has to return (deferred release)
    mUsedStacks,      \* the stacks StackPool has given out
    mOneshotPool,     \* GenericTimer::mOneshotEventPool
    armed,            \* events in GenericTimer::mOneshotQueue
    exceptionActive,  \* set by a trap handler
    pc,               \* where the core is in the dispatch loop
    cur,              \* the core's local variable task / eventtask
    scan,             \* dequeueHighestPriority: the queue and retEl's position
    emit,             \* the emission the core is in the middle of: its event
                      \*   and the subscribed triggers still to be handled
    newCon,           \* its local variable newCon, the task in preparation
    wake,             \* ARM event register: the next WFE does not sleep
    budget            \* emissions left

poolVars == <<pEventTaskPoolQueue, pInterruptTaskPoolQueue>>
taskVars == <<trigger, event, pStackpointer>>
queueVars == <<queue, queueLock>>
eventVars == <<subscribers, subscriberLock, mOneshotPool, armed>>
stackVars == <<pStackPointers, mUsedStacks>>
loopVars == <<pc, cur, scan>>
emitVars == <<emit, newCon>>

vars == <<poolVars, taskVars, queueVars, eventVars, stackVars, pActiveEventTask,
          loopVars, emitVars, exceptionActive, wake, budget>>

----------------------------------------------------------------------------
(* Data *)

NoScan == [queue |-> Global, pos |-> 1]
NoEmission == [event |-> Nil, rest |-> <<>>]

(* The components a trigger needs: its own and its dependencies. *)
Uses(t) == {Destination[t]} \cup Deps[t]

(* Faulty variants of operations below, used by nothing else: what a bug   *)
(* there would do, to check that the properties of this module notice it.  *)
LockableByDestination(task) ==
    \A c \in CPU :
        pActiveEventTask[c] # Nil =>
            Destination[trigger[task]] # Destination[trigger[pActiveEventTask[c]]]

EnqueueLast(q, task, trg) == queue' = [queue EXCEPT ![q] = Append(@, task)]

EnqueueBeforeEquals(q, task, trg) ==
    \E i \in 1 .. Len(queue[q]) + 1 :
        /\ \A k \in 1 .. i - 1 : Priority[trg[queue[q][k]]] > Priority[trg[task]]
        /\ i <= Len(queue[q]) => Priority[trg[queue[q][i]]] <= Priority[trg[task]]
        /\ queue' = [queue EXCEPT ![q] = InsertAt(@, i, task)]

NotDequeued(q, i) == UNCHANGED queue

AnyStack == Stack

InterruptTaskNotRequeued(task) ==
    /\ pEventTaskPoolQueue' = IF event[task] \in InterruptEvent THEN pEventTaskPoolQueue
                              ELSE pEventTaskPoolQueue \cup {task}
    /\ UNCHANGED pInterruptTaskPoolQueue

NoWake == UNCHANGED wake

ExceptionCleared(c) ==
    exceptionActive' = (exceptionActive /\ pc[c] \notin {"waiting", "idle", "stopped"})

(* The comparison in tryTaskLock: no core's active task has a component in *)
(* common with this one.                                                   *)
Lockable(task) ==
    \A c \in CPU :
        pActiveEventTask[c] # Nil =>
            Uses(trigger[task]) \cap Uses(trigger[pActiveEventTask[c]]) = {}

(* EventPriorityQueue::enqueue walks to the first task of lower priority   *)
(* and inserts before it; trg are the triggers of the tasks after the call.*)
Enqueue(q, task, trg) ==
    \E i \in 1 .. Len(queue[q]) + 1 :
        /\ \A k \in 1 .. i - 1 : Priority[trg[queue[q][k]]] >= Priority[trg[task]]
        /\ i <= Len(queue[q]) => Priority[trg[queue[q][i]]] < Priority[trg[task]]
        /\ queue' = [queue EXCEPT ![q] = InsertAt(@, i, task)]

(* The task at position i leaves its queue. *)
Dequeue(q, i) == queue' = [queue EXCEPT ![q] = RemoveAt(@, i)]

(* A task that could not be locked: "jump to next priority level".         *)
NextLevel(s, i, j) ==
    /\ \A k \in i .. j - 1 : Priority[trigger[s[k]]] = Priority[trigger[s[i]]]
    /\ j <= Len(s) => Priority[trigger[s[j]]] # Priority[trigger[s[i]]]

(* getFreeStack and setStackFree.  Which of the free stacks is used does   *)
(* not matter.                                                             *)
FreeStacks == Stack \ mUsedStacks
SetStackFree(s) == mUsedStacks' = mUsedStacks \ {s}

(* The core is inside the dispatch loop with interrupts enabled.           *)
InterruptsEnabled(c) == pc[c] \in {"waiting", "idle", "stopped"}

(* WFE sleeps: no event is registered and nothing interrupts the core.  On *)
(* x86 WAIT_EVENT is a NOP.                                                *)
Asleep(c) == ~X86 /\ pc[c] = "idle" /\ ~wake[c] /\ emit[c] = NoEmission
AtRest == \A c \in CPU : Asleep(c) \/ pc[c] \in {"stopped", "crashed", "hung"}

TypeOK ==
    /\ pEventTaskPoolQueue \subseteq Task
    /\ pInterruptTaskPoolQueue \subseteq Task
    /\ trigger \in [Task -> Trigger \cup {Nil}]
    /\ event \in [Task -> Event \cup {DummyEvent, Nil}]
    /\ pStackpointer \in [Task -> Stack \cup {Nil}]
    /\ queue \in [Queue -> Seq(Task)]
    /\ queueLock \in [Queue -> CPU \cup {Nil}]
    /\ subscribers \in [Event -> Seq(Trigger)]
    /\ subscriberLock \in [Event -> CPU \cup {Nil}]
    /\ pActiveEventTask \in [CPU -> Task \cup {Nil}]
    /\ pStackPointers \in [CPU -> Stack \cup {Nil}]
    /\ mUsedStacks \subseteq Stack
    /\ mOneshotPool \subseteq OneshotEvent
    /\ armed \subseteq OneshotEvent
    /\ exceptionActive \in BOOLEAN
    /\ pc \in [CPU -> {"release", "waiting", "lock", "scan", "stack", "check",
                       "running", "finish", "unlock", "requeue", "idle",
                       "stopped", "crashed", "hung"}]
    /\ cur \in [CPU -> Task \cup {Nil}]
    /\ scan \in [CPU -> [queue : Queue, pos : Nat \ {0}]]
    /\ emit \in [CPU -> [event : Event \cup {DummyEvent, Nil},
                         rest : Seq(Trigger)]]
    /\ newCon \in [CPU -> Task \cup {Nil}]
    /\ wake \in [CPU -> BOOLEAN]
    /\ budget \in Nat

(* All cores enter dispatching() from the boot code, without a stack to    *)
(* return and with the event register clear.                               *)
Init ==
    /\ pEventTaskPoolQueue = SWTask
    /\ pInterruptTaskPoolQueue = IntTask
    /\ trigger = [t \in Task |-> Nil]
    /\ event = [t \in Task |-> Nil]
    /\ pStackpointer = [t \in Task |-> Nil]
    /\ queue = [q \in Queue |-> <<>>]
    /\ queueLock = [q \in Queue |-> Nil]
    /\ subscribers = InitSubscribers
    /\ subscriberLock = [e \in Event |-> Nil]
    /\ pActiveEventTask = [c \in CPU |-> Nil]
    /\ pStackPointers = [c \in CPU |-> Nil]
    /\ mUsedStacks = {}
    /\ mOneshotPool = OneshotEvent
    /\ armed = {}
    /\ exceptionActive = FALSE
    /\ pc = [c \in CPU |-> "release"]
    /\ cur = [c \in CPU |-> Nil]
    /\ scan = [c \in CPU |-> NoScan]
    /\ emit = [c \in CPU |-> NoEmission]
    /\ newCon = [c \in CPU |-> Nil]
    /\ wake = [c \in CPU |-> FALSE]
    /\ budget = Budget

----------------------------------------------------------------------------
(* Emitting events.  The emitter is a trigger function or, while the core  *)
(* is in the dispatch loop, an interrupt handler; either makes one task    *)
(* per subscribed trigger ready.                                           *)

(* The core is free to start an emission as part of a trigger function. *)
Executing(c) == pc[c] = "running" /\ emit[c] = NoEmission

Spend == budget > 0 /\ budget' = budget - 1

(* eventTriggered, interruptEventTriggered: lock the subscriber list, so   *)
(* that what the loop over it will see is fixed here.                      *)
StartEmission(c, e) ==
    /\ subscriberLock[e] = Nil
    /\ subscriberLock' = [subscriberLock EXCEPT ![e] = c]
    /\ emit' = [emit EXCEPT ![c] = [event |-> e, rest |-> subscribers[e]]]

TriggerEvent(c, e) ==
    /\ Executing(c)
    /\ Spend
    /\ StartEmission(c, e)
    /\ UNCHANGED <<poolVars, taskVars, queueVars, subscribers, mOneshotPool,
                   armed, stackVars, pActiveEventTask, loopVars, newCon,
                   exceptionActive, wake>>

(* An interrupt is taken only between tasks.  Interrupts keep coming when  *)
(* the system is at rest, so the bound does not apply then.                *)
Interrupt(c, e) ==
    /\ InterruptsEnabled(c) /\ emit[c] = NoEmission
    /\ \/ Spend
       \/ AtRest /\ UNCHANGED budget
    /\ StartEmission(c, e)
    /\ UNCHANGED <<poolVars, taskVars, queueVars, subscribers, mOneshotPool,
                   armed, stackVars, pActiveEventTask, loopVars, newCon,
                   exceptionActive, wake>>

(* callOSCTrigger: the same with the dummy event and one trigger, no lock. *)
CallOSCTrigger(c, t) ==
    /\ Executing(c)
    /\ Spend
    /\ emit' = [emit EXCEPT ![c] = [event |-> DummyEvent, rest |-> <<t>>]]
    /\ UNCHANGED <<poolVars, taskVars, queueVars, eventVars, stackVars,
                   pActiveEventTask, loopVars, newCon, exceptionActive, wake>>

(* The end of an interrupt handler.  On ARM it sets the event register of  *)
(* the core, so that the interrupted WFE does not sleep on; on x86 it      *)
(* clears exceptionActive.                                                 *)
ClearException(c) == exceptionActive' = (exceptionActive /\ ~(X86 /\ InterruptsEnabled(c)))

EndEmission(c) ==
    /\ emit' = [emit EXCEPT ![c] = NoEmission]
    /\ subscriberLock' = [e \in Event |->
           IF e = emit[c].event THEN Nil ELSE subscriberLock[e]]
    /\ wake' = [wake EXCEPT ![c] = @ \/ (~X86 /\ InterruptsEnabled(c))]
    /\ ClearException(c)

FinishEmission(c) ==
    /\ emit[c] # NoEmission
    /\ emit[c].rest = <<>> /\ newCon[c] = Nil
    /\ EndEmission(c)
    /\ UNCHANGED <<poolVars, taskVars, queueVars, subscribers, mOneshotPool,
                   armed, stackVars, pActiveEventTask, loopVars, newCon,
                   budget>>

(* getTask, getInterruptTask: take a task from the pool; if there is none, *)
(* the emission ends and the remaining subscribers get no task.            *)
FreeTasks(e) ==
    IF e \in InterruptEvent THEN pInterruptTaskPoolQueue ELSE pEventTaskPoolQueue

GetTask(c) ==
    /\ emit[c].rest # <<>>
    /\ newCon[c] = Nil
    /\ \E t \in FreeTasks(emit[c].event) :
           /\ newCon' = [newCon EXCEPT ![c] = t]
           /\ IF emit[c].event \in InterruptEvent
              THEN /\ pInterruptTaskPoolQueue' = pInterruptTaskPoolQueue \ {t}
                   /\ UNCHANGED pEventTaskPoolQueue
              ELSE /\ pEventTaskPoolQueue' = pEventTaskPoolQueue \ {t}
                   /\ UNCHANGED pInterruptTaskPoolQueue
    /\ UNCHANGED <<taskVars, queueVars, eventVars, stackVars,
                   pActiveEventTask, loopVars, emit, exceptionActive, wake,
                   budget>>

NoFreeTask(c) ==
    /\ emit[c].rest # <<>>
    /\ newCon[c] = Nil
    /\ FreeTasks(emit[c].event) = {}
    /\ EndEmission(c)
    /\ UNCHANGED <<poolVars, taskVars, queueVars, subscribers, mOneshotPool,
                   armed, stackVars, pActiveEventTask, loopVars, newCon,
                   budget>>

(* SEND_WAKE: SEV sets the event register of every core; on x86 a NOP. *)
SendWake == wake' = [c \in CPU |-> ~X86]

(* The task gets its event and trigger and is submitted to the scheduler:  *)
(* readyTask, enqueueEvent under mQueueLock, SEND_WAKE.                    *)
ReadyTask(c) ==
    LET t == newCon[c]
        q == Affinity[Head(emit[c].rest)]
    IN  /\ t # Nil
        /\ queueLock[q] = Nil
        /\ trigger' = [trigger EXCEPT ![t] = Head(emit[c].rest)]
        /\ event' = [event EXCEPT ![t] = emit[c].event]
        /\ Enqueue(q, t, trigger')
        /\ SendWake
        /\ emit' = [emit EXCEPT ![c].rest = Tail(@)]
        /\ newCon' = [newCon EXCEPT ![c] = Nil]
        /\ UNCHANGED <<poolVars, pStackpointer, queueLock, eventVars,
                       stackVars, pActiveEventTask, loopVars, exceptionActive,
                       budget>>

(* "One trigger can only be subscribed to one event" (Trigger.h).  Callers *)
(* do hand one trigger to several oneshot events, which works because each *)
(* of them has just this subscriber.                                       *)
SubscribedTo(t) == {e \in Event : Contains(subscribers[e], t)}

SubscribeEvent(c, e, t) ==
    /\ Executing(c)
    /\ Spend
    /\ subscriberLock[e] = Nil
    /\ SubscribedTo(t) = {}
    /\ subscribers' = [subscribers EXCEPT ![e] = Append(@, t)]
    /\ UNCHANGED <<poolVars, taskVars, queueVars, subscriberLock,
                   mOneshotPool, armed, stackVars, pActiveEventTask, loopVars,
                   emitVars, exceptionActive, wake>>

UnsubscribeEvent(c, e, t) ==
    /\ Executing(c)
    /\ Spend
    /\ subscriberLock[e] = Nil
    /\ \E i \in DOMAIN subscribers[e] :
           /\ subscribers[e][i] = t
           /\ subscribers' = [subscribers EXCEPT ![e] = RemoveAt(@, i)]
    /\ UNCHANGED <<poolVars, taskVars, queueVars, subscriberLock,
                   mOneshotPool, armed, stackVars, pActiveEventTask, loopVars,
                   emitVars, exceptionActive, wake>>

(* GenericTimer::setOneshotEvent, called by any trigger function, waits    *)
(* for mOneshotLock, which handleTick holds while it emits.                *)
SetOneshotEvent(c, e, t) ==
    /\ Executing(c)
    /\ Spend
    /\ e \in mOneshotPool
    /\ SubscribedTo(t) \subseteq OneshotEvent
    /\ \A d \in CPU : emit[d].event \notin OneshotEvent
    /\ mOneshotPool' = mOneshotPool \ {e}
    /\ armed' = armed \cup {e}
    /\ subscribers' = [subscribers EXCEPT ![e] = Append(@, t)]
    /\ UNCHANGED <<poolVars, taskVars, queueVars, subscriberLock, stackVars,
                   pActiveEventTask, loopVars, emitVars, exceptionActive, wake>>

(* GenericTimer::handleTick: a due event leaves the queue and is emitted.  *)
FireOneshotEvent(c, e) ==
    /\ Executing(c)
    /\ Destination[trigger[cur[c]]] = TimerComponent
    /\ e \in armed
    /\ armed' = armed \ {e}
    /\ StartEmission(c, e)
    /\ UNCHANGED <<poolVars, taskVars, queueVars, subscribers, mOneshotPool,
                   stackVars, pActiveEventTask, loopVars, newCon,
                   exceptionActive, wake, budget>>

----------------------------------------------------------------------------
(* The dispatch loop *)

Goto(c, label) == pc' = [pc EXCEPT ![c] = label]

(* dispatching(): the stack of the last task is returned only now, when    *)
(* the core runs on its own stack again; then interrupts are enabled.      *)
ReleaseStack(c) ==
    /\ pc[c] = "release"
    /\ SetStackFree(pStackPointers[c])
    /\ pStackPointers' = [pStackPointers EXCEPT ![c] = Nil]
    /\ Goto(c, "waiting")
    /\ UNCHANGED <<poolVars, taskVars, queueVars, eventVars, pActiveEventTask,
                   cur, scan, emitVars, exceptionActive, wake, budget>>

(* Top of the loop: hang after an exception, else disable interrupts and   *)
(* ask the scheduler, which looks at the core's own queue first.           *)
StartLoop(c) ==
    /\ pc[c] = "waiting" /\ emit[c] = NoEmission
    /\ IF exceptionActive
       THEN Goto(c, "stopped") /\ UNCHANGED scan
       ELSE /\ Goto(c, "lock")
            /\ scan' = [scan EXCEPT ![c] = [queue |-> c, pos |-> 1]]
    /\ UNCHANGED <<poolVars, taskVars, queueVars, eventVars, stackVars,
                   pActiveEventTask, cur, emitVars, exceptionActive, wake,
                   budget>>

(* getReadyEvent, getGlobalReadyEvent *)
LockQueue(c) ==
    /\ pc[c] = "lock"
    /\ queueLock[scan[c].queue] = Nil
    /\ queueLock' = [queueLock EXCEPT ![scan[c].queue] = c]
    /\ Goto(c, "scan")
    /\ UNCHANGED <<poolVars, taskVars, queue, eventVars, stackVars,
                   pActiveEventTask, cur, scan, emitVars, exceptionActive,
                   wake, budget>>

(* dequeueHighestPriority, one tryTaskLock at a time.  Success: the task   *)
(* becomes the active one and leaves the queue, which is unlocked.         *)
TakeTask(c) ==
    LET q == scan[c].queue
        task == queue[q][scan[c].pos]
    IN  /\ pc[c] = "scan"
        /\ scan[c].pos <= Len(queue[q])
        /\ Lockable(task)
        /\ pActiveEventTask' = [pActiveEventTask EXCEPT ![c] = task]
        /\ Dequeue(q, scan[c].pos)
        /\ queueLock' = [queueLock EXCEPT ![q] = Nil]
        /\ cur' = [cur EXCEPT ![c] = task]
        /\ scan' = [scan EXCEPT ![c] = NoScan]
        /\ Goto(c, "stack")
        /\ UNCHANGED <<poolVars, taskVars, eventVars, stackVars, emitVars,
                       exceptionActive, wake, budget>>

SkipLevel(c) ==
    LET q == scan[c].queue
        pos == scan[c].pos
    IN  /\ pc[c] = "scan"
        /\ pos <= Len(queue[q])
        /\ ~Lockable(queue[q][pos])
        /\ \E next \in pos + 1 .. Len(queue[q]) + 1 :
               /\ NextLevel(queue[q], pos, next)
               /\ scan' = [scan EXCEPT ![c].pos = next]
        /\ UNCHANGED <<poolVars, taskVars, queueVars, eventVars, stackVars,
                       pActiveEventTask, pc, cur, emitVars, exceptionActive,
                       wake, budget>>

(* Nothing found: unlock, go on with the global queue, then give up.       *)
EndOfQueue(c) ==
    LET q == scan[c].queue
    IN  /\ pc[c] = "scan"
        /\ scan[c].pos > Len(queue[q])
        /\ queueLock' = [queueLock EXCEPT ![q] = Nil]
        /\ IF q # Global
           THEN /\ scan' = [scan EXCEPT ![c] = [queue |-> Global, pos |-> 1]]
                /\ Goto(c, "lock")
           ELSE /\ scan' = [scan EXCEPT ![c] = NoScan]
                /\ Goto(c, "check")
        /\ UNCHANGED <<poolVars, taskVars, queue, eventVars, stackVars,
                       pActiveEventTask, cur, emitVars, exceptionActive, wake,
                       budget>>

(* The end of getEvent.  Without a free stack the task is enqueued again   *)
(* and getEvent returns nullptr, although its components stay locked.      *)
GetStack(c) ==
    LET task == cur[c]
        q == Affinity[trigger[task]]
    IN  /\ pc[c] = "stack"
        /\ IF FreeStacks = {}
           THEN /\ queueLock[q] = Nil
                /\ Enqueue(q, task, trigger)
                /\ cur' = [cur EXCEPT ![c] = Nil]
                /\ UNCHANGED <<mUsedStacks, pStackpointer>>
           ELSE /\ \E s \in FreeStacks :
                       /\ mUsedStacks' = mUsedStacks \cup {s}
                       /\ pStackpointer' = [pStackpointer EXCEPT ![task] = s]
                /\ UNCHANGED <<queue, cur>>
        /\ Goto(c, "check")
        /\ UNCHANGED <<poolVars, trigger, event, queueLock, eventVars,
                       pStackPointers, pActiveEventTask, scan, emitVars,
                       exceptionActive, wake, budget>>

(* "Trying to activate non locked task" hangs; no task: back to the loop   *)
(* with interrupts enabled; a task: activateOSC, dispatchOSCMemberEvent.   *)
Dispatch(c) ==
    /\ pc[c] = "check"
    /\ IF cur[c] # pActiveEventTask[c]
       THEN Goto(c, "hung") /\ UNCHANGED pStackPointers
       ELSE IF cur[c] = Nil
       THEN Goto(c, "idle") /\ UNCHANGED pStackPointers
       ELSE /\ pStackPointers' = [pStackPointers EXCEPT ![c] = pStackpointer[cur[c]]]
            /\ Goto(c, "running")
    /\ UNCHANGED <<poolVars, taskVars, queueVars, eventVars, mUsedStacks,
                   pActiveEventTask, cur, scan, emitVars, exceptionActive,
                   wake, budget>>

(* WAIT_EVENT: with WFE only when an event is registered, which it clears. *)
WaitEvent(c) ==
    /\ pc[c] = "idle" /\ emit[c] = NoEmission
    /\ ~X86 => wake[c]
    /\ wake' = [wake EXCEPT ![c] = FALSE]
    /\ Goto(c, "waiting")
    /\ UNCHANGED <<poolVars, taskVars, queueVars, eventVars, stackVars,
                   pActiveEventTask, cur, scan, emitVars, exceptionActive,
                   budget>>

(* The trigger function returns to finishEventHandler. *)
Return(c) ==
    /\ Executing(c)
    /\ Goto(c, "finish")
    /\ UNCHANGED <<poolVars, taskVars, queueVars, eventVars, stackVars,
                   pActiveEventTask, cur, scan, emitVars, exceptionActive,
                   wake, budget>>

(* The trigger function raises an exception; the core does not come back. *)
Trap(c) ==
    /\ c \in TrapCPU
    /\ Executing(c)
    /\ exceptionActive' = TRUE
    /\ Goto(c, "crashed")
    /\ UNCHANGED <<poolVars, taskVars, queueVars, eventVars, stackVars,
                   pActiveEventTask, cur, scan, emitVars, wake, budget>>

(* eventTaskFinished, up to the eviction of the component ... *)
FinishTask(c) ==
    /\ pc[c] = "finish"
    /\ pStackpointer' = [pStackpointer EXCEPT ![cur[c]] = Nil]
    /\ Goto(c, "unlock")
    /\ UNCHANGED <<poolVars, trigger, event, queueVars, eventVars, stackVars,
                   pActiveEventTask, cur, scan, emitVars, exceptionActive,
                   wake, budget>>

(* ... unlockTask, which wakes nobody ... *)
UnlockTask(c) ==
    /\ pc[c] = "unlock"
    /\ pActiveEventTask' = [pActiveEventTask EXCEPT ![c] = Nil]
    /\ Goto(c, "requeue")
    /\ UNCHANGED <<poolVars, taskVars, queueVars, eventVars, stackVars, cur,
                   scan, emitVars, exceptionActive, wake, budget>>

(* ... and the return of the task, and of a oneshot event, to their pools. *)
Requeue(task) ==
    IF event[task] \in InterruptEvent
    THEN /\ pInterruptTaskPoolQueue' = pInterruptTaskPoolQueue \cup {task}
         /\ UNCHANGED pEventTaskPoolQueue
    ELSE /\ pEventTaskPoolQueue' = pEventTaskPoolQueue \cup {task}
         /\ UNCHANGED pInterruptTaskPoolQueue

RequeueTask(c) ==
    LET task == cur[c]
        e == event[task]
    IN  /\ pc[c] = "requeue"
        /\ trigger' = [trigger EXCEPT ![task] = Nil]
        /\ event' = [event EXCEPT ![task] = Nil]
        /\ Requeue(task)
        /\ IF e \in OneshotEvent
           THEN /\ mOneshotPool' = mOneshotPool \cup {e}
                /\ subscribers' = [subscribers EXCEPT ![e] = <<>>]
           ELSE UNCHANGED <<mOneshotPool, subscribers>>
        /\ cur' = [cur EXCEPT ![c] = Nil]
        /\ Goto(c, "release")
        /\ UNCHANGED <<pStackpointer, queueVars, subscriberLock, armed,
                       stackVars, pActiveEventTask, scan, emitVars,
                       exceptionActive, wake, budget>>

Loop(c) ==
    \/ ReleaseStack(c) \/ StartLoop(c) \/ LockQueue(c) \/ TakeTask(c)
    \/ SkipLevel(c) \/ EndOfQueue(c) \/ GetStack(c) \/ Dispatch(c)
    \/ WaitEvent(c) \/ Return(c) \/ FinishTask(c) \/ UnlockTask(c)
    \/ RequeueTask(c)

Emit(c) == GetTask(c) \/ NoFreeTask(c) \/ ReadyTask(c) \/ FinishEmission(c)

TriggerFunction(c) ==
    \/ \E e \in SWEvent : TriggerEvent(c, e)
    \/ \E t \in Trigger : CallOSCTrigger(c, t)
    \/ \E e \in SWEvent, t \in Trigger :
          SubscribeEvent(c, e, t) \/ UnsubscribeEvent(c, e, t)
    \/ \E e \in OneshotEvent, t \in Trigger : SetOneshotEvent(c, e, t)
    \/ \E e \in OneshotEvent : FireOneshotEvent(c, e)
    \/ Trap(c)

Next ==
    \E c \in CPU :
        \/ Loop(c)
        \/ Emit(c)
        \/ TriggerFunction(c)
        \/ c \in InterruptCPU /\ \E e \in InterruptEvent : Interrupt(c, e)

Spec == Init /\ [][Next]_vars

(* Every core keeps executing, trigger functions and interrupt handlers    *)
(* return, and the timer keeps interrupting.                               *)
Fairness ==
    /\ \A c \in CPU : WF_vars(Loop(c)) /\ WF_vars(Emit(c))
    /\ \A c \in InterruptCPU : \A e \in InterruptEvent : WF_vars(Interrupt(c, e))

FairSpec == Spec /\ Fairness

----------------------------------------------------------------------------
(* Safety *)

(* The code of a task, from the jump into the trigger function to the      *)
(* eviction of its component, runs on core c.                              *)
InTask(c) == pc[c] \in {"running", "crashed", "finish", "unlock"}

(* "Only one processor at the time can access these dependencies"          *)
(* (Trigger.h): two cores never run triggers that share a component,       *)
(* whether as the trigger's own component or as a dependency.              *)
ComponentExclusive ==
    \A c, d \in CPU :
        c # d /\ InTask(c) /\ InTask(d) =>
            Uses(trigger[cur[c]]) \cap Uses(trigger[cur[d]]) = {}

(* Where a task can be: free, in a ready queue, or held by a core that     *)
(* emits it or runs it.                                                    *)
Free == pEventTaskPoolQueue \cup pInterruptTaskPoolQueue
IsQueued(t) == \E q \in Queue : \E i \in DOMAIN queue[q] : queue[q][i] = t
IsHeld(t) == \E c \in CPU : cur[c] = t \/ newCon[c] = t

QueuesDistinct ==
    \A p, q \in Queue : \A i \in DOMAIN queue[p], j \in DOMAIN queue[q] :
        queue[p][i] = queue[q][j] => p = q /\ i = j

(* No task is ever in two places: no task object is handed to two          *)
(* emitters, enqueued twice, or reused while it is queued or running.      *)
NoTaskShared ==
    /\ pEventTaskPoolQueue \cap pInterruptTaskPoolQueue = {}
    /\ \A t \in Free : ~IsQueued(t) /\ ~IsHeld(t)
    /\ \A t \in Task : IsQueued(t) => ~IsHeld(t)
    /\ QueuesDistinct
    /\ \A c, d \in CPU :
           /\ c # d /\ cur[c] # Nil => cur[c] # cur[d]
           /\ c # d /\ newCon[c] # Nil => newCon[c] # newCon[d]
           /\ cur[c] # Nil => cur[c] # newCon[d]

(* Nor is one ever lost: every task object is free, queued or held, so the *)
(* pools do not leak whatever the order of emissions and completions.      *)
NoTaskLost == \A t \in Task : t \in Free \/ IsQueued(t) \/ IsHeld(t)

(* The eight interrupt tasks stay reserved for interrupts: no mix of       *)
(* events and finished tasks moves a task from one pool to the other.      *)
PoolsSeparate ==
    pEventTaskPoolQueue \subseteq SWTask /\ pInterruptTaskPoolQueue \subseteq IntTask

(* The stack a core runs on is marked used and no other core runs on it,   *)
(* up to the moment the core is back on its own stack.                     *)
StackExclusive ==
    \A c \in CPU :
        pStackPointers[c] # Nil =>
            /\ pStackPointers[c] \in mUsedStacks
            /\ \A d \in CPU \ {c} : pStackPointers[d] # pStackPointers[c]

(* With one stack per core getFreeStack always finds one, so the loop's    *)
(* consistency check (task locked by this core) never hangs a core.        *)
NeverHung == \A c \in CPU : pc[c] # "hung"

(* A ready queue is sorted by priority at all times. *)
QueueSorted ==
    \A q \in Queue : \A i, j \in DOMAIN queue[q] :
        i < j => Priority[trigger[queue[q][i]]] >= Priority[trigger[queue[q][j]]]

(* In whatever order the cores enqueue and take tasks, a queue serves the  *)
(* tasks of one priority in the order of their arrival: no task gets in    *)
(* front of one that waits already, except by a higher priority.           *)
NoOvertaking ==
    [][\A q \in Queue : \A k, l \in DOMAIN queue'[q] : \A j \in DOMAIN queue[q] :
          k < l /\ queue'[q][l] = queue[q][j] =>
              \/ \E i \in 1 .. j - 1 : queue[q][i] = queue'[q][k]
              \/ /\ \A i \in DOMAIN queue[q] : queue[q][i] # queue'[q][k]
                 /\ Priority[trigger'[queue'[q][k]]] > Priority[trigger'[queue'[q][l]]]]_vars

----------------------------------------------------------------------------
(* Liveness *)

IsRunning(t) == \E c \in CPU : cur[c] = t /\ pc[c] = "running"

(* As long as the timer interrupts and no core crashes, a task made ready  *)
(* is run eventually, on whichever core and whatever the others hold.      *)
ReadyTaskRuns == \A t \in Task : IsQueued(t) ~> (IsRunning(t) \/ exceptionActive)

(* "If no events are available, it will sleep until woken again"           *)
(* (dispatching): the cores do not all sleep while a task is in a queue.   *)
SleepOnlyWithoutEvents ==
    ~((\A c \in CPU : Asleep(c)) /\ \E t \in Task : IsQueued(t))

(* After an exception on one core, the others stop dispatching for good.   *)
ExceptionStopsDispatching ==
    exceptionActive ~> [](\A c \in CPU : pc[c] \in {"stopped", "crashed", "idle"})
============================================================================
