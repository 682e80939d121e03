----------------------------- MODULE Scheduler ------------------------------
(***************************************************************************)
(* The four scheduling strategies that config.h chooses from, on top of    *)
(* their queues (an EventQueue or an EventPriorityQueue).  A scan holds    *)
(* the lock of its queue and calls tryTaskLock for one task per step:      *)
(* other cores use the other queues and finish tasks between two calls     *)
(* (unlockTask takes no queue lock), so a task that was found locked may   *)
(* be free when the next one is tried.  There is a stack for every core    *)
(* (module EventHandler), so no task is queued again for want of one.      *)
(*                                                                         *)
(* With the strategy "none" the module is a single queue used freely       *)
(* (modules Queue and EventPriorityQueue).                                 *)
(***************************************************************************)
EXTENDS EventPriorityQueue

CONSTANTS
    Core,
    All,         \* the index NR_CPUS of the queues that every core scans
    Priority,    \* of each task's trigger
    Affinity,    \* of each task's trigger, All if it is not a core
    Interrupts,  \* the tasks of interrupt events
    Components   \* destination and dependencies of each task's trigger

ASSUME SchedulerAssumption ==
    /\ All \notin Core
    /\ Priority \in [Element -> PriorityLevel] /\ Affinity \in [Element -> Core \cup {All}]

VARIABLES
    strategy,    \* never changes
    ready,       \* mFifoQueue and mFifoInterruptQueue of each core and of all
    active,      \* pActiveEventTask of each core
    scans,       \* the queues that each core's getEvent has still to scan
    place,       \* the place of the first of them that comes next, 0 while its lock is not held
    refused,     \* history: the tasks that each core's (last) getEvent has found locked
    open,        \* history: the ready tasks that were free ever since each core's getEvent began
    arrived      \* history: the ready tasks in the order in which they became ready

schedulerVars == <<strategy, ready, active, scans, place, refused, open, arrived>>

Strategy == {"fifo", "multififo", "single", "multi"}
Fifo == {"fifo", "multififo"}

Free(e) == \A c \in Core : active[c] # Nil => Components[active[c]] \cap Components[e] = {}

\* The kind of a task's queue, and the core whose queue it is.
QueueOf(e) ==
    <<IF strategy \in Fifo /\ e \in Interrupts THEN "interrupt" ELSE "normal",
      IF strategy \in {"fifo", "single"} THEN All ELSE Affinity[e]>>

\* The queues that getEvent scans, in order.
Scans(c) ==
    CASE strategy = "fifo"      -> << <<"interrupt", All>>, <<"normal", All>> >>
      [] strategy = "multififo" -> << <<"interrupt", c>>, <<"normal", c>>,
                                      <<"interrupt", All>>, <<"normal", All>> >>
      [] strategy = "single"    -> << <<"normal", All>>, <<"normal", All>> >>
      [] strategy = "multi"     -> << <<"normal", c>>, <<"normal", All>> >>

\* Some core holds the lock of the queue.
Scanned(q) == \E c \in Core : place[c] # 0 /\ Head(scans[c]) = q

\* The ready tasks that a core may take and whose components no task uses.
Within(c) == {e \in UNION {ToSet(ready[q]) : q \in ToSet(Scans(c))} : Free(e)}

\* The history ends with the call.
Follow == open' = [c \in Core |-> IF scans'[c] = <<>> THEN {} ELSE open[c] \cap Within(c)']

SchedulerInit ==
    /\ strategy \in Strategy \cup {"none"}
    /\ ready = [q \in {"interrupt", "normal"} \X (Core \cup {All}) |-> <<>>]
    /\ active = [c \in Core |-> Nil]
    /\ scans = [c \in Core |-> <<>>]
    /\ place = [c \in Core |-> 0]
    /\ refused = [c \in Core |-> {}]
    /\ open = [c \in Core |-> {}]
    /\ arrived = <<>>

\* Faulty variants, to check the properties: a task goes before its equals;
\* the skip of a level goes on over the lower ones.
EnqueuedBeforeEquals(list, e) ==
    LET others == {i \in DOMAIN list : Priority[list[i]] <= Priority[e]}
    IN  InsertAt(list, IF others = {} THEN Len(list) + 1 ELSE Min(others), e)

LevelAndBelow(list, i) ==
    Min({j \in i + 1 .. Len(list) : strategy \in Fifo \/ Priority[list[j]] > Priority[list[i]]}
            \cup {Len(list) + 1})

\* enqueue of an EventQueue and of an EventPriorityQueue
Enqueued(list, e) ==
    LET lower == {i \in DOMAIN list : strategy \notin Fifo /\ Priority[list[i]] < Priority[e]}
    IN  InsertAt(list, IF lower = {} THEN Len(list) + 1 ELSE Min(lower), e)

EnqueueEvent(e) ==
    /\ \A c \in Core : active[c] # e
    /\ ~Contains(arrived, e)
    /\ ~Scanned(QueueOf(e))
    /\ ready' = [ready EXCEPT ![QueueOf(e)] = Enqueued(@, e)]
    /\ arrived' = Append(arrived, e)
    /\ UNCHANGED <<strategy, active, scans, place, refused>>
    /\ Follow

StartGetEvent(c) ==
    /\ active[c] = Nil /\ scans[c] = <<>>
    /\ scans' = [scans EXCEPT ![c] = Scans(c)]
    /\ open' = [open EXCEPT ![c] = Within(c)]
    /\ refused' = [refused EXCEPT ![c] = {}]
    /\ UNCHANGED <<strategy, ready, active, place, arrived>>

\* getReadyEvent and getGlobalReadyEvent: the lock of the next queue
StartScan(c) ==
    /\ scans[c] # <<>> /\ place[c] = 0 /\ ~Scanned(Head(scans[c]))
    /\ place' = [place EXCEPT ![c] = 1]
    /\ UNCHANGED <<strategy, ready, active, scans, refused, open, arrived>>

\* Where a scan goes on when a task is locked: dequeueFirstLocked at the next
\* task, dequeueHighestPriority at the next level.
NextPlace(list, i) ==
    Min({j \in i + 1 .. Len(list) : strategy \in Fifo \/ Priority[list[j]] # Priority[list[i]]}
            \cup {Len(list) + 1})

\* tryTaskLock for the next task of the queue
TryTask(c) ==
    /\ place[c] # 0 /\ place[c] <= Len(ready[Head(scans[c])])
    /\ LET q == Head(scans[c])
           e == ready[q][place[c]]
       IN  \/ /\ Free(e)
              /\ active' = [active EXCEPT ![c] = e]
              /\ ready' = [ready EXCEPT ![q] = RemoveFirst(@, e)]
              /\ arrived' = RemoveFirst(arrived, e)
              /\ scans' = [scans EXCEPT ![c] = <<>>]
              /\ place' = [place EXCEPT ![c] = 0]
              /\ UNCHANGED refused
           \/ /\ ~Free(e)
              /\ place' = [place EXCEPT ![c] = NextPlace(ready[q], @)]
              /\ refused' = [refused EXCEPT ![c] = @ \cup {e}]
              /\ UNCHANGED <<ready, active, arrived, scans>>
    /\ UNCHANGED strategy
    /\ Follow

\* A scan that took no task: the search goes on in the next queue.
EndScan(c) ==
    /\ place[c] # 0 /\ place[c] > Len(ready[Head(scans[c])])
    /\ place' = [place EXCEPT ![c] = 0]
    /\ scans' = [scans EXCEPT ![c] = Tail(@)]
    /\ UNCHANGED <<strategy, ready, active, refused, arrived>>
    /\ Follow

\* unlockTask
FinishTask(c) ==
    /\ active[c] # Nil
    /\ active' = [active EXCEPT ![c] = Nil]
    /\ UNCHANGED <<strategy, ready, scans, place, refused, arrived>>
    /\ Follow

SchedulerNext ==
    \/ \E e \in Element : EnqueueEvent(e)
    \/ \E c \in Core : StartGetEvent(c) \/ StartScan(c) \/ TryTask(c) \/ EndScan(c) \/ FinishTask(c)

QueuesInit == Init /\ SchedulerInit /\ (strategy # "none" => ~sorted)

QueuesNext ==
    \/ strategy = "none" /\ Next /\ UNCHANGED schedulerVars
    \/ strategy # "none" /\ SchedulerNext /\ UNCHANGED vars

QueuesSpec == QueuesInit /\ [][QueuesNext]_<<vars, schedulerVars>>

----------------------------------------------------------------------------
\* The core that takes a task when a getEvent ends.
Taking(c) == active[c] = Nil /\ active'[c] # Nil

\* Tasks of one queue and one level start in the order in which they became
\* ready, whichever cores take them and whatever they need.  The FIFO
\* strategies let a later one go first only after this very search has found
\* the earlier one locked, which by now may be free (EventQueue and
\* EventPriorityQueue, their enqueue and dequeue functions).
StartedInOrder ==
    /\ FirstComeFirstServed
    /\ [][\A c \in Core : Taking(c) =>
            \A i, j \in DOMAIN arrived :
                i < j /\ arrived[j] = active'[c] /\ QueueOf(arrived[i]) = QueueOf(arrived[j]) =>
                    IF strategy \in Fifo THEN arrived[i] \in refused[c]
                    ELSE Priority[arrived[i]] # Priority[arrived[j]]]_schedulerVars

\* A task of its level and queue was found locked, and dequeueHighestPriority
\* went on at the next level without trying this one.
Skipped(c, e) ==
    strategy \notin Fifo /\ \E f \in refused[c] : QueueOf(f) = QueueOf(e) /\ Priority[f] = Priority[e]

\* A task that was free throughout a getEvent is not left behind: the call
\* does not come back empty, and what it takes from the queues of the same
\* core is of no lower priority or, for the FIFO strategies, an interrupt if
\* the task was one (getEvent).  Left behind are only tasks of a level that
\* was skipped, although EventPriorityQueue.h calls what is dequeued the
\* "highest priority element which is free and not locked by another core".
NoneBetterLeft ==
    /\ HighestLevelFirst
    /\ [][\A c \in Core : scans[c] # <<>> /\ scans'[c] = <<>> =>
            \A e \in open[c] : ~Skipped(c, e) =>
                /\ Taking(c)
                /\ QueueOf(e)[2] = QueueOf(active'[c])[2] =>
                      IF strategy \in Fifo THEN e \in Interrupts => active'[c] \in Interrupts
                      ELSE Priority[active'[c]] >= Priority[e]]_schedulerVars
=============================================================================
