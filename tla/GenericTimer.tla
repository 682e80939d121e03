---------------------------- MODULE GenericTimer ----------------------------
(***************************************************************************)
(* The software timer.  Oneshot events wait in a list that holds for each  *)
(* the ticks after the one before it; periodic events in another that is   *)
(* counted down one by one.  The trigger of the timer's interrupt runs     *)
(* handleTick on one core while other cores set and cancel events and end  *)
(* the tasks of events that have fired.                                    *)
(***************************************************************************)
EXTENDS Integers, FiniteSets, SequencesExt

CONSTANTS
    OneshotEvent, PeriodicEvent,  \* the two halves of mTimerConnections
    Trigger,                      \* what clients let the timer call
    Ticks,                        \* delay / mTimerInterval of the oneshot calls
    Intervals,                    \* interval / mTimerInterval of the periodic ones
    TaskLimit,                    \* EventTask objects left for timer events
    Modulus,                      \* mRemainingTicks is unsigned, of this range
    Nil

Event == OneshotEvent \cup PeriodicEvent

ASSUME TimerAssumption ==
    /\ OneshotEvent \cap PeriodicEvent = {}
    /\ Modulus \in Nat \ {0}
    /\ Ticks \cup Intervals \subseteq 0 .. Modulus - 1
    /\ TaskLimit \in Nat
    /\ Nil \notin Event \cup Trigger \cup Nat \cup [trigger : Trigger, ticks : Nat]

VARIABLES
    mOneshotQueue, mPeriodicQueue,
    mOneshotPool, mPeriodicPool,  \* the order of the pools does not matter
    mOneshotLock, mPeriodicLock,  \* TRUE while handleTick holds them
    mRemainingTicks, mInterval,
    mSubscribers,
    setting,                      \* the calls of set..Event that have an event
                                  \*   but not yet the lock of its list
    tasks,                        \* the EventTask objects by event and trigger
    pc, pos                       \* of handleTick; the periodic event it is at

listVars == <<mOneshotQueue, mPeriodicQueue, mRemainingTicks, mInterval>>
poolVars == <<mOneshotPool, mPeriodicPool, mSubscribers, setting>>
lockVars == <<mOneshotLock, mPeriodicLock>>
vars == <<listVars, poolVars, lockVars, tasks, pc, pos>>

Init ==
    /\ mOneshotQueue = <<>> /\ mPeriodicQueue = <<>>
    /\ mOneshotPool = OneshotEvent /\ mPeriodicPool = PeriodicEvent
    /\ mOneshotLock = FALSE /\ mPeriodicLock = FALSE
    /\ mRemainingTicks = [e \in Event |-> 0]
    /\ mInterval = [e \in Event |-> 0]
    /\ mSubscribers = [e \in Event |-> <<>>]
    /\ setting = [e \in Event |-> Nil]
    /\ tasks = [e \in Event |-> [t \in Trigger |-> 0]]
    /\ pc = "idle" /\ pos = 1

----------------------------------------------------------------------------
(* The ticks until the i-th oneshot event is due: sumDelay. *)
SumDelay(i) ==
    LET sum[k \in 0 .. i] ==
            IF k = 0 THEN 0
            ELSE (sum[k - 1] + mRemainingTicks[mOneshotQueue[k]]) % Modulus
    IN  sum[i]

(* The place of a new event: before the first one that is due later.       *)
Later(ticks, sum) == ticks < sum

InsertPosition(ticks) ==
    CHOOSE i \in 1 .. Len(mOneshotQueue) + 1 :
        /\ i <= Len(mOneshotQueue) => Later(ticks, SumDelay(i))
        /\ \A k \in 1 .. i - 1 : ~Later(ticks, SumDelay(k))

(* Faulty variants, to check the properties. *)

KeepDelay(e) == UNCHANGED mRemainingTicks

ReloadedLater(e, left) == left

NothingFired(e) == FALSE

StillListed(list, e) == list

(* The new event gets what remains after its predecessor, and its          *)
(* successor what remains after the new event.                             *)
SetDelta(e, i) ==
    LET own == (mRemainingTicks[e] - SumDelay(i - 1)) % Modulus
        next == IF i <= Len(mOneshotQueue) THEN {mOneshotQueue[i]} ELSE {}
    IN  mRemainingTicks' = [f \in Event |->
            CASE f = e -> own
              [] f \in next -> (mRemainingTicks[f] - own) % Modulus
              [] OTHER -> mRemainingTicks[f]]

(* The successor of a cancelled event inherits its ticks. *)
KeepDelta(e) ==
    LET i == SelectInSeq(mOneshotQueue, LAMBDA f : f = e)
    IN  mRemainingTicks' =
            IF i = Len(mOneshotQueue) THEN mRemainingTicks
            ELSE [mRemainingTicks EXCEPT ![mOneshotQueue[i + 1]] =
                     (@ + mRemainingTicks[e]) % Modulus]

(* The event leaves the list, in which it is once. *)
Without(list, e) == RemoveAt(list, CHOOSE i \in DOMAIN list : list[i] = e)

(* event->mSubscribers.clearList() and the event's way back to its pool.   *)
ReturnOneshot(e) ==
    /\ mSubscribers' = [mSubscribers EXCEPT ![e] = <<>>]
    /\ mOneshotPool' = mOneshotPool \cup {e}

ReturnPeriodic(e) ==
    /\ mSubscribers' = [mSubscribers EXCEPT ![e] = <<>>]
    /\ mPeriodicPool' = mPeriodicPool \cup {e}
----------------------------------------------------------------------------
getOneshotEventFromPool(e) == e \in mOneshotPool /\ mOneshotPool' = mOneshotPool \ {e}

getPeriodicEventFromPool(e) == e \in mPeriodicPool /\ mPeriodicPool' = mPeriodicPool \ {e}

(* set..Event: first an event of the pool, under the pool's lock, and the  *)
(* initialisation of the event ...                                         *)
GetOneshotEvent(e, t, n) ==
    /\ getOneshotEventFromPool(e)
    /\ mSubscribers' = [mSubscribers EXCEPT ![e] = Append(@, t)]
    /\ mRemainingTicks' = [mRemainingTicks EXCEPT ![e] = n]
    /\ setting' = [setting EXCEPT ![e] = [trigger |-> t, ticks |-> n]]
    /\ UNCHANGED <<mOneshotQueue, mPeriodicQueue, mInterval, mPeriodicPool,
                   lockVars, tasks, pc, pos>>

GetPeriodicEvent(e, t, n) ==
    /\ getPeriodicEventFromPool(e)
    /\ mSubscribers' = [mSubscribers EXCEPT ![e] = Append(@, t)]
    /\ mInterval' = [mInterval EXCEPT ![e] = n]
    /\ mRemainingTicks' = [mRemainingTicks EXCEPT ![e] = n]
    /\ setting' = [setting EXCEPT ![e] = [trigger |-> t, ticks |-> n]]
    /\ UNCHANGED <<mOneshotQueue, mPeriodicQueue, mOneshotPool, lockVars, tasks, pc, pos>>

(* ... then its place in the list, under the lock of the list.             *)
SetOneshotEvent(e) ==
    /\ e \in OneshotEvent /\ setting[e] # Nil /\ ~mOneshotLock
    /\ LET i == InsertPosition(mRemainingTicks[e])
       IN  /\ SetDelta(e, i)
           /\ mOneshotQueue' = InsertAt(mOneshotQueue, i, e)
    /\ setting' = [setting EXCEPT ![e] = Nil]
    /\ UNCHANGED <<mPeriodicQueue, mInterval, mOneshotPool, mPeriodicPool,
                   mSubscribers, lockVars, tasks, pc, pos>>

SetPeriodicEvent(e) ==
    /\ e \in PeriodicEvent /\ setting[e] # Nil /\ ~mPeriodicLock
    /\ mPeriodicQueue' = Append(mPeriodicQueue, e)
    /\ setting' = [setting EXCEPT ![e] = Nil]
    /\ UNCHANGED <<mOneshotQueue, mRemainingTicks, mInterval, mOneshotPool,
                   mPeriodicPool, mSubscribers, lockVars, tasks, pc, pos>>

(* The event must be in its list: the code follows nullptr otherwise.      *)
CancelOneshotTimerEvent(e) ==
    /\ ~mOneshotLock /\ Contains(mOneshotQueue, e)
    /\ KeepDelta(e)
    /\ mOneshotQueue' = Without(mOneshotQueue, e)
    /\ ReturnOneshot(e)
    /\ UNCHANGED <<mPeriodicQueue, mInterval, mPeriodicPool, setting, lockVars,
                   tasks, pc, pos>>

CancelPeriodicTimerEvent(e) ==
    /\ ~mPeriodicLock /\ Contains(mPeriodicQueue, e)
    /\ mPeriodicQueue' = Without(mPeriodicQueue, e)
    /\ ReturnPeriodic(e)
    /\ UNCHANGED <<mOneshotQueue, mRemainingTicks, mInterval, mOneshotPool,
                   setting, lockVars, tasks, pc, pos>>

(* eventTaskFinished: a task of a oneshot event returns it to the pool.    *)
FinishTask(e, t) ==
    /\ tasks[e][t] > 0
    /\ tasks' = [tasks EXCEPT ![e][t] = @ - 1]
    /\ IF e \in OneshotEvent
       THEN ReturnOneshot(e)
       ELSE UNCHANGED <<mOneshotPool, mSubscribers>>
    /\ UNCHANGED <<listVars, mPeriodicPool, setting, lockVars, pc, pos>>
----------------------------------------------------------------------------
(* handleTick.  eventTriggered finds a free task for the subscriber, or    *)
(* drops the call.                                                         *)
TasksInUse ==
    Cardinality({x \in Event \X Trigger \X (1 .. TaskLimit) : x[3] <= tasks[x[1]][x[2]]})

EventTriggered(e) ==
    tasks' = IF TasksInUse = TaskLimit THEN tasks
             ELSE [tasks EXCEPT ![e][Head(mSubscribers[e])] = @ + 1]

StartTick ==
    /\ pc = "idle"
    /\ mOneshotLock' = TRUE
    /\ mRemainingTicks' =
          IF mOneshotQueue = <<>> THEN mRemainingTicks
          ELSE [mRemainingTicks EXCEPT ![Head(mOneshotQueue)] = (@ - 1) % Modulus]
    /\ pc' = "oneshot"
    /\ UNCHANGED <<mOneshotQueue, mPeriodicQueue, mInterval, poolVars,
                   mPeriodicLock, tasks, pos>>

RunDown(e) == mRemainingTicks[e] = 0

FireOneshot ==
    /\ pc = "oneshot"
    /\ mOneshotQueue # <<>> /\ RunDown(Head(mOneshotQueue))
    /\ mOneshotQueue' = Tail(mOneshotQueue)
    /\ EventTriggered(Head(mOneshotQueue))
    /\ UNCHANGED <<mPeriodicQueue, mRemainingTicks, mInterval, poolVars,
                   lockVars, pc, pos>>

EndOneshot ==
    /\ pc = "oneshot"
    /\ mOneshotQueue # <<>> => ~RunDown(Head(mOneshotQueue))
    /\ mOneshotLock' = FALSE
    /\ pc' = "between"
    /\ UNCHANGED <<listVars, poolVars, mPeriodicLock, tasks, pos>>

StartPeriodic ==
    /\ pc = "between"
    /\ mPeriodicLock' = TRUE
    /\ pc' = "periodic" /\ pos' = 1
    /\ UNCHANGED <<listVars, poolVars, mOneshotLock, tasks>>

(* What an event is set to after it has been counted down to left.         *)
Reload(e, left) == IF left = 0 THEN mInterval[e] ELSE left

CountPeriodic ==
    /\ pc = "periodic" /\ pos <= Len(mPeriodicQueue)
    /\ LET e == mPeriodicQueue[pos]
           left == (mRemainingTicks[e] - 1) % Modulus
       IN  /\ mRemainingTicks' = [mRemainingTicks EXCEPT ![e] = Reload(e, left)]
           /\ IF left = 0 THEN EventTriggered(e) ELSE UNCHANGED tasks
    /\ pos' = pos + 1
    /\ UNCHANGED <<mOneshotQueue, mPeriodicQueue, mInterval, poolVars, lockVars, pc>>

EndTick ==
    /\ pc = "periodic" /\ pos > Len(mPeriodicQueue)
    /\ mPeriodicLock' = FALSE
    /\ pc' = "idle" /\ pos' = 1
    /\ UNCHANGED <<listVars, poolVars, mOneshotLock, tasks>>

HandleTick ==
    \/ StartTick \/ FireOneshot \/ EndOneshot
    \/ StartPeriodic \/ CountPeriodic \/ EndTick

Next ==
    \/ HandleTick
    \/ \E e \in OneshotEvent, t \in Trigger, n \in Ticks : GetOneshotEvent(e, t, n)
    \/ \E e \in PeriodicEvent, t \in Trigger, n \in Intervals : GetPeriodicEvent(e, t, n)
    \/ \E e \in OneshotEvent : SetOneshotEvent(e) \/ CancelOneshotTimerEvent(e)
    \/ \E e \in PeriodicEvent : SetPeriodicEvent(e) \/ CancelPeriodicTimerEvent(e)
    \/ \E e \in Event, t \in Trigger : FinishTask(e, t)

Spec == Init /\ [][Next]_vars

(* The timer keeps interrupting and handleTick runs. *)
FairSpec == Spec /\ WF_vars(HandleTick)
----------------------------------------------------------------------------
Places(e) ==
    <<e \in mOneshotPool \cup mPeriodicPool, setting[e] # Nil,
      Contains(mOneshotQueue \o mPeriodicQueue, e)>>

TypeOK ==
    /\ mOneshotPool \subseteq OneshotEvent /\ mPeriodicPool \subseteq PeriodicEvent
    /\ ToSet(mOneshotQueue) \subseteq OneshotEvent
    /\ ToSet(mPeriodicQueue) \subseteq PeriodicEvent
    /\ mOneshotLock \in BOOLEAN /\ mPeriodicLock \in BOOLEAN
    /\ mRemainingTicks \in [Event -> 0 .. Modulus - 1]
    /\ mInterval \in [Event -> 0 .. Modulus - 1]
    /\ \A e \in Event : mSubscribers[e] = <<>> \/ mSubscribers[e] \in [{1} -> Trigger]
    /\ tasks \in [Event -> [Trigger -> 0 .. TaskLimit]]
    /\ TasksInUse <= TaskLimit
    /\ pc \in {"idle", "oneshot", "between", "periodic"}
    /\ pos \in 1 .. Cardinality(PeriodicEvent) + 1

(* An event is handed to one caller at a time: in the pool, being set and  *)
(* in a list exclude each other, and a oneshot event that has fired is in  *)
(* none of them before its task has ended.                                 *)
EventsNotShared ==
    /\ IsInjective(mOneshotQueue) /\ IsInjective(mPeriodicQueue)
    /\ \A e \in Event : \A i, j \in 1 .. 3 : Places(e)[i] /\ Places(e)[j] => i = j
    /\ \A e \in OneshotEvent, t \in Trigger :
          tasks[e][t] > 0 => tasks[e][t] = 1 /\ Places(e) = <<FALSE, FALSE, FALSE>>

(* The list of differences, whatever is inserted, cancelled and fired in   *)
(* between, fires every oneshot event in the tick for which it was set and *)
(* calls the trigger of the client that set it.                            *)
Oneshot == INSTANCE TimerService WITH
    Event <- OneshotEvent,
    Recurs <- FALSE,
    request <- [e \in OneshotEvent |-> setting[e]],
    client <- [e \in OneshotEvent |->
                  IF Contains(mOneshotQueue, e) THEN Head(mSubscribers[e]) ELSE Nil],
    left <- [e \in OneshotEvent |->
                IF Contains(mOneshotQueue, e)
                THEN SumDelay(SelectInSeq(mOneshotQueue, LAMBDA f : f = e)) ELSE Nil],
    period <- [e \in OneshotEvent |-> Nil],
    calls <- [e \in OneshotEvent |-> tasks[e]]
FiresOnTime == Oneshot!Spec

(* And a periodic event fires in every mInterval-th tick, however the      *)
(* other events of the list come and go.  An interval of less than a tick  *)
(* is 0 ticks (the CAN talker asks for 1000 us of a tick of 1 s), and the  *)
(* unsigned count of such an event goes through its whole range: it fires  *)
(* in every Modulus-th tick.                                               *)
Wrapped(n) == IF n = 0 THEN Modulus ELSE n

Counted(e) ==
    \/ pc # "periodic"
    \/ \E i \in 1 .. pos - 1 : mPeriodicQueue[i] = e

Periodic == INSTANCE TimerService WITH
    Event <- PeriodicEvent,
    Recurs <- TRUE,
    request <- [e \in PeriodicEvent |->
                   IF setting[e] = Nil THEN Nil
                   ELSE [trigger |-> setting[e].trigger, ticks |-> Wrapped(setting[e].ticks)]],
    client <- [e \in PeriodicEvent |->
                  IF Contains(mPeriodicQueue, e) THEN Head(mSubscribers[e]) ELSE Nil],
    left <- [e \in PeriodicEvent |->
                IF ~Contains(mPeriodicQueue, e) THEN Nil
                ELSE IF Counted(e) THEN Wrapped(mRemainingTicks[e])
                     ELSE (mRemainingTicks[e] - 1) % Modulus],
    period <- [e \in PeriodicEvent |->
                  IF Contains(mPeriodicQueue, e) THEN Wrapped(mInterval[e]) ELSE Nil],
    calls <- [e \in PeriodicEvent |-> tasks[e]]
FiresPeriodically == Periodic!Spec

(* "Delay in us to trigger the event" (GenericTimer.h): as long as ticks   *)
(* come, an armed oneshot event does not wait forever.                     *)
OneshotEnds == \A e \in OneshotEvent : Contains(mOneshotQueue, e) ~> ~Contains(mOneshotQueue, e)

=============================================================================
