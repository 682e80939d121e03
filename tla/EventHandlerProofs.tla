------------------------- MODULE EventHandlerProofs -------------------------
(* Proofs about the dispatcher, for any number of cores, tasks, components *)
(* and triggers: types, the conservation of tasks and mutual exclusion of  *)
(* components; then what it keeps apart and in order, for any number of    *)
(* stacks: a stack has one user and returns, a ready queue stays sorted    *)
(* and serves equals in the order of arrival.                              *)
EXTENDS EventHandler, SequenceLemmas, FiniteSetTheorems

(* The task a core holds, by its position in the dispatch loop.            *)
LoopOK ==
    \A c \in CPU :
        /\ pc[c] \in {"stack", "running", "crashed", "finish", "unlock"} =>
              cur[c] # Nil /\ pActiveEventTask[c] = cur[c]
        /\ pc[c] = "check" /\ cur[c] # Nil => pActiveEventTask[c] = cur[c]
        /\ pc[c] = "requeue" => cur[c] # Nil
        /\ pc[c] \in {"release", "waiting", "lock", "scan", "idle", "stopped"} =>
              cur[c] = Nil

(* A core has locked the components of its task from TakeTask to UnlockTask. *)
HoldsLock(c) ==
    /\ pc[c] \in {"stack", "check", "running", "crashed", "finish", "unlock"}
    /\ cur[c] # Nil

LocksDisjoint ==
    \A c, d \in CPU :
        c # d /\ HoldsLock(c) /\ HoldsLock(d) =>
            Uses(trigger[cur[c]]) \cap Uses(trigger[cur[d]]) = {}

(* A task that is queued or run has a trigger and an event of its kind.    *)
InUse(t) == IsQueued(t) \/ \E c \in CPU : cur[c] = t

TasksOK ==
    /\ \A t \in Task : InUse(t) =>
          /\ trigger[t] # Nil /\ event[t] # Nil
          /\ event[t] \in InterruptEvent <=> t \in IntTask
    /\ \A c \in CPU : emit[c].event = Nil => emit[c].rest = <<>>
    /\ \A c \in CPU : newCon[c] # Nil =>
          /\ emit[c].rest # <<>>
          /\ emit[c].event \in InterruptEvent <=> newCon[c] \in IntTask

IInv ==
    /\ TypeOK
    /\ NoTaskShared
    /\ NoTaskLost
    /\ PoolsSeparate
    /\ LoopOK
    /\ LocksDisjoint
    /\ TasksOK

----------------------------------------------------------------------------
(* Types *)

(* Enqueueing inserts the task somewhere in one queue. *)
LEMMA EnqueueInserts ==
    ASSUME queue \in [Queue -> Seq(Task)], NEW q \in Queue, NEW task \in Task,
           NEW trg, Enqueue(q, task, trg)
    PROVE  \E i \in 1 .. Len(queue[q]) + 1 :
               /\ queue' = [queue EXCEPT ![q] = InsertAt(queue[q], i, task)]
               /\ queue' \in [Queue -> Seq(Task)]
  <1>1. PICK i \in 1 .. Len(queue[q]) + 1 :
            queue' = [queue EXCEPT ![q] = InsertAt(queue[q], i, task)]
    BY DEF Enqueue
  <1>2. InsertAt(queue[q], i, task) \in Seq(Task)
    BY InsertAtElements
  <1> QED
    BY <1>1, <1>2

(* The task that ReadyTask or GetStack enqueues and the queue it goes to.  *)
LEMMA Enqueued ==
    ASSUME TypeOK, LoopOK, TasksOK, NEW c \in CPU
    PROVE  /\ newCon[c] # Nil =>
                 /\ newCon[c] \in Task /\ emit[c].rest \in Seq(Trigger)
                 /\ Head(emit[c].rest) \in Trigger /\ Tail(emit[c].rest) \in Seq(Trigger)
                 /\ Affinity[Head(emit[c].rest)] \in Queue
           /\ pc[c] \in {"stack", "requeue"} => cur[c] \in Task
           /\ pc[c] = "stack" =>
                 trigger[cur[c]] \in Trigger /\ Affinity[trigger[cur[c]]] \in Queue
  <1>1. Affinity \in [Trigger -> Queue]
    BY ConstantsAssumption DEF ConstantsAssumption
  <1>2. emit[c].rest \in Seq(Trigger)
    BY DEF TypeOK
  <1>3. newCon[c] # Nil => newCon[c] \in Task /\ emit[c].rest # <<>>
    BY DEF TypeOK, TasksOK
  <1>4. newCon[c] # Nil => Head(emit[c].rest) \in Trigger /\ Tail(emit[c].rest) \in Seq(Trigger)
    BY <1>2, <1>3, HeadTailProperties
  <1>5. pc[c] \in {"stack", "requeue"} => cur[c] \in Task
    BY DEF TypeOK, LoopOK
  <1>6. pc[c] = "stack" => trigger[cur[c]] \in Trigger
    BY <1>5, SMTT(60) DEF TypeOK, TasksOK, InUse
  <1> QED
    BY <1>1, <1>2, <1>3, <1>4, <1>5, <1>6

(* Every step preserves the types. *)
LEMMA TypeInductive ==
    ASSUME TypeOK, LoopOK, TasksOK, [Next]_vars
    PROVE  TypeOK'
  <1>a. CPU \subseteq Queue /\ Global \in Queue
    BY DEF Queue
  <1>b. SWTask \subseteq Task /\ IntTask \subseteq Task
    BY DEF Task
  <1>c. SWEvent \subseteq Event /\ InterruptEvent \subseteq Event /\ OneshotEvent \subseteq Event
    BY DEF Event
  <1>d. Affinity \in [Trigger -> Queue] /\ Budget \in Nat
    BY ConstantsAssumption DEF ConstantsAssumption
  <1> USE <1>a, <1>b, <1>c, <1>d
  <1> USE DEF TypeOK, vars, poolVars, taskVars, queueVars, eventVars, stackVars,
              loopVars, emitVars, Goto, NoScan, NoEmission
  <1>1. CASE UNCHANGED vars
    BY <1>1
  <1> SUFFICES ASSUME NEW c \in CPU,
                      \/ Loop(c)
                      \/ Emit(c)
                      \/ TriggerFunction(c)
                      \/ c \in InterruptCPU /\ \E e \in InterruptEvent : Interrupt(c, e)
               PROVE  TypeOK'
    BY <1>1 DEF Next
  <1>2. CASE ReleaseStack(c)
    BY <1>2 DEF ReleaseStack, SetStackFree
  <1>3. CASE StartLoop(c)
    <2>1. scan' \in [CPU -> [queue : Queue, pos : Nat \ {0}]]
      <3>1. [queue |-> c, pos |-> 1] \in [queue : Queue, pos : Nat \ {0}]
        BY <1>a
      <3>2. CASE exceptionActive
        BY <1>3, <3>2 DEF StartLoop
      <3>3. CASE ~exceptionActive
        BY <1>3, <3>1, <3>3, ZenonT(60) DEF StartLoop
      <3> QED
        BY <3>2, <3>3
    <2> QED
      BY <1>3, <2>1 DEF StartLoop
  <1>4. CASE LockQueue(c)
    BY <1>4 DEF LockQueue
  <1>5. CASE TakeTask(c)
    <2> DEFINE q == scan[c].queue
               i == scan[c].pos
    <2>1. q \in Queue /\ queue[q] \in Seq(Task) /\ i \in 1 .. Len(queue[q])
      BY <1>5 DEF TakeTask
    <2>2. RemoveAt(queue[q], i) \in Seq(Task) /\ queue[q][i] \in Task
      BY <2>1, RemoveAtElements
    <2> HIDE DEF q, i
    <2>3. queue' \in [Queue -> Seq(Task)]
      BY <1>5, <2>1, <2>2 DEF TakeTask, Dequeue, q, i
    <2> QED
      BY <1>5, <2>1, <2>2, <2>3, SMTT(60) DEF TakeTask, Dequeue, q, i
  <1>6. CASE SkipLevel(c)
    <2>1. scan[c].pos \in Nat \ {0} /\ Len(queue[scan[c].queue]) \in Nat
      BY LenProperties
    <2>2. PICK next \in scan[c].pos + 1 .. Len(queue[scan[c].queue]) + 1 :
              scan' = [scan EXCEPT ![c].pos = next]
      BY <1>6 DEF SkipLevel
    <2>3. next \in Nat \ {0}
      BY <2>1
    <2>4. scan' \in [CPU -> [queue : Queue, pos : Nat \ {0}]]
      BY <2>2, <2>3, SMTT(60)
    <2> QED
      BY <1>6, <2>4 DEF SkipLevel
  <1>7. CASE EndOfQueue(c)
    <2>1. scan' \in [CPU -> [queue : Queue, pos : Nat \ {0}]]
      <3>1. [queue |-> Global, pos |-> 1] \in [queue : Queue, pos : Nat \ {0}]
        BY <1>a
      <3>2. scan' = [scan EXCEPT ![c] = [queue |-> Global, pos |-> 1]]
        BY <1>7 DEF EndOfQueue
      <3> QED
        BY <3>1, <3>2
    <2>2. queueLock' \in [Queue -> CPU \cup {Nil}]
      BY <1>7 DEF EndOfQueue
    <2>3. pc' = [pc EXCEPT ![c] = "lock"] \/ pc' = [pc EXCEPT ![c] = "check"]
      BY <1>7 DEF EndOfQueue
    <2> QED
      BY <1>7, <2>1, <2>2, <2>3, ZenonT(60) DEF EndOfQueue
  <1>8. CASE GetStack(c)
    <2>1. cur[c] \in Task /\ Affinity[trigger[cur[c]]] \in Queue
      BY <1>8, Enqueued DEF GetStack
    <2>2. queue' \in [Queue -> Seq(Task)]
      BY <1>8, <2>1, EnqueueInserts DEF GetStack
    <2>3. pStackpointer' \in [Task -> Stack \cup {Nil}] /\ mUsedStacks' \subseteq Stack
      <3>1. CASE FreeStacks = {}
        BY <1>8, <3>1 DEF GetStack
      <3>2. CASE FreeStacks # {}
        <4>1. PICK st \in FreeStacks :
                  /\ mUsedStacks' = mUsedStacks \cup {st}
                  /\ pStackpointer' = [pStackpointer EXCEPT ![cur[c]] = st]
          BY <1>8, <3>2 DEF GetStack
        <4> QED
          BY <2>1, <4>1 DEF FreeStacks
      <3> QED
        BY <3>1, <3>2
    <2>4. cur' \in [CPU -> Task \cup {Nil}]
      BY <1>8 DEF GetStack
    <2> QED
      BY <1>8, <2>2, <2>3, <2>4 DEF GetStack
  <1>9. CASE Dispatch(c)
    <2>1. pStackPointers' \in [CPU -> Stack \cup {Nil}]
      <3>1. CASE cur[c] = pActiveEventTask[c] /\ cur[c] # Nil
        <4>1. cur[c] \in Task /\ pStackpointer[cur[c]] \in Stack \cup {Nil}
          BY <3>1
        <4> QED
          BY <1>9, <3>1, <4>1 DEF Dispatch
      <3>2. CASE ~(cur[c] = pActiveEventTask[c] /\ cur[c] # Nil)
        BY <1>9, <3>2 DEF Dispatch
      <3> QED
        BY <3>1, <3>2
    <2> QED
      BY <1>9, <2>1 DEF Dispatch
  <1>10. CASE WaitEvent(c)
    BY <1>10 DEF WaitEvent
  <1>11. CASE Return(c)
    BY <1>11 DEF Return
  <1>12. CASE FinishTask(c)
    BY <1>12 DEF FinishTask
  <1>13. CASE UnlockTask(c)
    BY <1>13 DEF UnlockTask
  <1>14. CASE RequeueTask(c)
    <2>0. cur[c] \in Task
      BY <1>14, Enqueued DEF RequeueTask
    <2>1. subscribers' \in [Event -> Seq(Trigger)] /\ mOneshotPool' \subseteq OneshotEvent
      <3>1. CASE event[cur[c]] \in OneshotEvent
        <4>1. subscribers' = [subscribers EXCEPT ![event[cur[c]]] = <<>>]
              /\ mOneshotPool' = mOneshotPool \cup {event[cur[c]]}
          BY <1>14, <3>1 DEF RequeueTask
        <4>2. <<>> \in Seq(Trigger)
          OBVIOUS
        <4> QED
          BY <3>1, <4>1, <4>2
      <3>2. CASE event[cur[c]] \notin OneshotEvent
        BY <1>14, <3>2 DEF RequeueTask
      <3> QED
        BY <3>1, <3>2
    <2>2. trigger' \in [Task -> Trigger \cup {Nil}]
      BY <1>14 DEF RequeueTask
    <2>3. event' \in [Task -> Event \cup {DummyEvent, Nil}]
      BY <1>14 DEF RequeueTask
    <2> QED
      BY <1>14, <2>0, <2>1, <2>2, <2>3, SMTT(30) DEF RequeueTask, Requeue
  <1>15. CASE GetTask(c)
    BY <1>15, SMTT(60) DEF GetTask, FreeTasks
  <1>16. CASE NoFreeTask(c)
    BY <1>16, SMTT(60) DEF NoFreeTask, EndEmission, ClearException
  <1>17. CASE ReadyTask(c)
    <2> DEFINE h == Head(emit[c].rest)
    <2>1. newCon[c] \in Task /\ h \in Trigger /\ Tail(emit[c].rest) \in Seq(Trigger)
            /\ Affinity[h] \in Queue
      BY <1>17, Enqueued DEF ReadyTask
    <2>2. queue' \in [Queue -> Seq(Task)]
      BY <1>17, <2>1, EnqueueInserts DEF ReadyTask
    <2>3. trigger' = [trigger EXCEPT ![newCon[c]] = h]
      BY <1>17 DEF ReadyTask
    <2>4. trigger' \in [Task -> Trigger \cup {Nil}]
      BY <2>1, <2>3
    <2>5. event' \in [Task -> Event \cup {DummyEvent, Nil}]
      BY <1>17, <2>1 DEF ReadyTask
    <2>6. emit' \in [CPU -> [event : Event \cup {DummyEvent, Nil}, rest : Seq(Trigger)]]
      <3>1. emit' = [emit EXCEPT ![c].rest = Tail(emit[c].rest)]
        BY <1>17 DEF ReadyTask
      <3> QED
        BY <2>1, <3>1, ZenonT(60)
    <2> QED
      BY <1>17, <2>2, <2>4, <2>5, <2>6 DEF ReadyTask, SendWake
  <1>18. CASE FinishEmission(c)
    BY <1>18 DEF FinishEmission, EndEmission, ClearException
  <1>19. ASSUME NEW e \in SWEvent, TriggerEvent(c, e)
         PROVE  TypeOK'
    BY <1>19, SMTT(60) DEF TriggerEvent, StartEmission, Spend
  <1>20. ASSUME NEW t \in Trigger, CallOSCTrigger(c, t)
         PROVE  TypeOK'
    BY <1>20, SMTT(60) DEF CallOSCTrigger, Spend
  <1>21. ASSUME NEW e \in SWEvent, NEW t \in Trigger, SubscribeEvent(c, e, t)
         PROVE  TypeOK'
    BY <1>21, SMTT(60) DEF SubscribeEvent, Spend
  <1>22. ASSUME NEW e \in SWEvent, NEW t \in Trigger, UnsubscribeEvent(c, e, t)
         PROVE  TypeOK'
    <2>1. e \in Event /\ subscribers[e] \in Seq(Trigger)
      OBVIOUS
    <2>2. PICK i \in 1 .. Len(subscribers[e]) :
              subscribers' = [subscribers EXCEPT ![e] = RemoveAt(subscribers[e], i)]
      BY <1>22, <2>1, LenProperties, ZenonT(60) DEF UnsubscribeEvent
    <2>3. RemoveAt(subscribers[e], i) \in Seq(Trigger)
      BY <2>1, RemoveAtElements
    <2>4. subscribers' \in [Event -> Seq(Trigger)]
      BY <2>2, <2>3
    <2>5. budget' \in Nat
      BY <1>22 DEF UnsubscribeEvent, Spend
    <2>6. UNCHANGED <<poolVars, taskVars, queueVars, subscriberLock, mOneshotPool,
                      armed, stackVars, pActiveEventTask, loopVars, emitVars,
                      exceptionActive, wake>>
      BY <1>22 DEF UnsubscribeEvent
    <2> QED
      BY <2>4, <2>5, <2>6
  <1>23. ASSUME NEW e \in OneshotEvent, NEW t \in Trigger, SetOneshotEvent(c, e, t)
         PROVE  TypeOK'
    BY <1>23 DEF SetOneshotEvent, Spend
  <1>24. ASSUME NEW e \in OneshotEvent, FireOneshotEvent(c, e)
         PROVE  TypeOK'
    BY <1>24 DEF FireOneshotEvent, StartEmission
  <1>25. CASE Trap(c)
    BY <1>25 DEF Trap
  <1>26. ASSUME NEW e \in InterruptEvent, Interrupt(c, e)
         PROVE  TypeOK'
    BY <1>26, SMTT(60) DEF Interrupt, StartEmission, Spend
  <1> QED
    BY <1>2, <1>3, <1>4, <1>5, <1>6, <1>7, <1>8, <1>9, <1>10, <1>11, <1>12, <1>13,
       <1>14, <1>15, <1>16, <1>17, <1>18, <1>19, <1>20, <1>21, <1>22, <1>23, <1>24,
       <1>25, <1>26
       DEF Loop, Emit, TriggerFunction

----------------------------------------------------------------------------
(* Where the tasks are *)

(* Enqueueing a task that is in no queue adds it to the queued tasks, once. *)
LEMMA EnqueuePlaces ==
    ASSUME queue \in [Queue -> Seq(Task)], NEW q \in Queue, NEW task \in Task,
           NEW trg, Enqueue(q, task, trg), QueuesDistinct, ~IsQueued(task)
    PROVE  /\ \A t \in Task : IsQueued(t)' <=> IsQueued(t) \/ t = task
           /\ QueuesDistinct'
  <1>1. PICK i \in 1 .. Len(queue[q]) + 1 :
            queue' = [queue EXCEPT ![q] = InsertAt(queue[q], i, task)]
    BY EnqueueInserts
  <1> DEFINE s == queue[q]
             r == InsertAt(s, i, task)
  <1>2. /\ s \in Seq(Task) /\ Len(s) \in Nat /\ DOMAIN s = 1 .. Len(s)
        /\ i \in Nat /\ 1 <= i /\ i <= Len(s) + 1
    BY LenProperties
  <1>3. /\ r \in Seq(Task) /\ Len(r) = Len(s) + 1
        /\ \A k \in 1 .. Len(s) + 1 :
              r[k] = IF k < i THEN s[k] ELSE IF k = i THEN task ELSE s[k - 1]
    <2>1. r \in Seq(Task)
      BY <1>2, InsertAtElements
    <2>2. Len(r) = Len(s) + 1
      BY <1>2, InsertAtElements
    <2>3. \A k \in 1 .. Len(s) + 1 :
              r[k] = IF k < i THEN s[k] ELSE IF k = i THEN task ELSE s[k - 1]
      BY <1>2, InsertAtElements
    <2> QED
      BY <2>1, <2>2, <2>3, Zenon
  <1>4. DOMAIN r = 1 .. Len(s) + 1
    BY <1>3, LenProperties
  <1>5. queue'[q] = r /\ \A p \in Queue : p # q => queue'[p] = queue[p]
    BY <1>1
  <1> HIDE DEF r, s
  <1>6. r[i] = task /\ i \in DOMAIN r
    BY <1>2, <1>3, <1>4
  <1>7. \A k \in DOMAIN r : k # i => \E j \in DOMAIN s : r[k] = s[j] /\ j = IF k < i THEN k ELSE k - 1
    BY <1>2, <1>3, <1>4
  <1>8. \A j \in DOMAIN s : \E k \in DOMAIN r : r[k] = s[j] /\ k # i
    <2> TAKE j \in DOMAIN s
    <2>1. CASE j < i
      BY <2>1, <1>2, <1>3, <1>4
    <2>2. CASE ~(j < i)
      <3>1. j + 1 \in DOMAIN r /\ j + 1 # i /\ r[j + 1] = s[j]
        BY <2>2, <1>2, <1>3, <1>4
      <3> QED
        BY <3>1
    <2> QED
      BY <2>1, <2>2
  <1>9. \A t \in Task : IsQueued(t)' <=> IsQueued(t) \/ t = task
    <2> TAKE t \in Task
    <2>1. ASSUME IsQueued(t)'
          PROVE  IsQueued(t) \/ t = task
      <3>1. PICK p \in Queue : \E k \in DOMAIN queue'[p] : queue'[p][k] = t
        BY <2>1 DEF IsQueued
      <3>2. CASE p = q
        BY <3>1, <3>2, <1>5, <1>6, <1>7 DEF IsQueued, s
      <3>3. CASE p # q
        BY <3>1, <3>3, <1>5 DEF IsQueued
      <3> QED
        BY <3>2, <3>3
    <2>2. ASSUME IsQueued(t)
          PROVE  IsQueued(t)'
      BY <2>2, <1>5, <1>8 DEF IsQueued, s
    <2>3. IsQueued(task)'
      BY <1>5, <1>6 DEF IsQueued
    <2> QED
      BY <2>1, <2>2, <2>3
  <1>10. QueuesDistinct'
    <2> SUFFICES ASSUME NEW p \in Queue, NEW u \in Queue,
                        NEW k \in DOMAIN queue'[p], NEW l \in DOMAIN queue'[u],
                        queue'[p][k] = queue'[u][l]
                 PROVE  p = u /\ k = l
      BY DEF QueuesDistinct
    <2>1. \A v \in Queue : \A j \in DOMAIN queue[v] : queue[v][j] # task
      BY DEF IsQueued
    <2>2. CASE p = q /\ u = q
      <3>1. CASE k = i \/ l = i
        BY <2>1, <2>2, <3>1, <1>5, <1>6, <1>7 DEF s
      <3>2. CASE k # i /\ l # i
        <4>1. PICK j \in DOMAIN s : r[k] = s[j] /\ j = IF k < i THEN k ELSE k - 1
          BY <1>5, <1>7, <2>2, <3>2
        <4>2. PICK m \in DOMAIN s : r[l] = s[m] /\ m = IF l < i THEN l ELSE l - 1
          BY <1>5, <1>7, <2>2, <3>2
        <4>3. j = m
          BY <4>1, <4>2, <1>5, <2>2 DEF QueuesDistinct, s
        <4>4. k \in Int /\ l \in Int /\ i \in Int
          BY <1>2, <1>4, <1>5, <2>2
        <4> QED
          BY <2>2, <3>2, <4>1, <4>2, <4>3, <4>4
      <3> QED
        BY <3>1, <3>2
    <2>3. CASE p # q /\ u # q
      BY <2>3, <1>5 DEF QueuesDistinct
    <2>4. CASE p = q /\ u # q
      BY <2>1, <2>4, <1>5, <1>6, <1>7 DEF QueuesDistinct, s
    <2>5. CASE p # q /\ u = q
      BY <2>1, <2>5, <1>5, <1>6, <1>7 DEF QueuesDistinct, s
    <2> QED
      BY <2>2, <2>3, <2>4, <2>5
  <1> QED
    BY <1>9, <1>10

(* Taking a task out of its queue leaves every other task where it was.    *)
LEMMA DequeuePlaces ==
    ASSUME queue \in [Queue -> Seq(Task)], NEW q \in Queue,
           NEW i \in 1 .. Len(queue[q]), QueuesDistinct,
           queue' = [queue EXCEPT ![q] = RemoveAt(queue[q], i)]
    PROVE  /\ \A t \in Task : IsQueued(t)' <=> IsQueued(t) /\ t # queue[q][i]
           /\ QueuesDistinct'
  <1> DEFINE s == queue[q]
             r == RemoveAt(s, i)
  <1>1. s \in Seq(Task)
    BY ONLY queue \in [Queue -> Seq(Task)], q \in Queue
  <1>2. /\ s \in Seq(Task) /\ Len(s) \in Nat /\ DOMAIN s = 1 .. Len(s)
        /\ i \in Nat /\ 1 <= i /\ i <= Len(s)
    <2>1. Len(s) \in Nat /\ DOMAIN s = 1 .. Len(s)
      BY <1>1, LenProperties, Zenon
    <2> HIDE DEF s
    <2>2. i \in 1 .. Len(s)
      BY DEF s
    <2> QED
      BY <1>1, <2>1, <2>2
  <1>3. /\ r \in Seq(Task) /\ Len(r) = Len(s) - 1
        /\ \A k \in 1 .. Len(s) - 1 : r[k] = IF k < i THEN s[k] ELSE s[k + 1]
    BY <1>2, RemoveAtElements, ZenonT(60)
  <1>4. DOMAIN r = 1 .. Len(s) - 1
    BY <1>3, LenProperties
  <1>5. queue'[q] = r /\ \A p \in Queue : p # q => queue'[p] = queue[p]
    OBVIOUS
  <1> HIDE DEF r, s
  <1>6. \A k \in DOMAIN r : \E j \in DOMAIN s :
           r[k] = s[j] /\ j # i /\ j = IF k < i THEN k ELSE k + 1
    BY <1>2, <1>3, <1>4
  <1>7. \A j \in DOMAIN s : j # i => \E k \in DOMAIN r : r[k] = s[j]
    <2> SUFFICES ASSUME NEW j \in DOMAIN s, j # i
                 PROVE  \E k \in DOMAIN r : r[k] = s[j]
      OBVIOUS
    <2>1. CASE j < i
      BY <2>1, <1>2, <1>3, <1>4
    <2>2. CASE ~(j < i)
      <3>1. j - 1 \in DOMAIN r /\ r[j - 1] = s[j]
        BY <2>2, <1>2, <1>3, <1>4
      <3> QED
        BY <3>1
    <2> QED
      BY <2>1, <2>2
  <1>8. i \in DOMAIN queue[q] /\ s = queue[q]
    BY <1>2 DEF s
  <1>9. \A t \in Task : IsQueued(t)' <=> IsQueued(t) /\ t # queue[q][i]
    <2> TAKE t \in Task
    <2>1. ASSUME IsQueued(t)'
          PROVE  IsQueued(t) /\ t # queue[q][i]
      <3>1. PICK p \in Queue : \E k \in DOMAIN queue'[p] : queue'[p][k] = t
        BY <2>1 DEF IsQueued
      <3>2. CASE p = q
        BY <3>1, <3>2, <1>5, <1>6, <1>8 DEF IsQueued, QueuesDistinct
      <3>3. CASE p # q
        BY <3>1, <3>3, <1>5, <1>8 DEF IsQueued, QueuesDistinct
      <3> QED
        BY <3>2, <3>3
    <2>2. ASSUME IsQueued(t), t # queue[q][i]
          PROVE  IsQueued(t)'
      BY <2>2, <1>5, <1>7, <1>8 DEF IsQueued
    <2> QED
      BY <2>1, <2>2
  <1>10. QueuesDistinct'
    <2> SUFFICES ASSUME NEW p \in Queue, NEW u \in Queue,
                        NEW k \in DOMAIN queue'[p], NEW l \in DOMAIN queue'[u],
                        queue'[p][k] = queue'[u][l]
                 PROVE  p = u /\ k = l
      BY DEF QueuesDistinct
    <2>2. CASE p = q /\ u = q
      <3>1. PICK j \in DOMAIN s : r[k] = s[j] /\ j = IF k < i THEN k ELSE k + 1
        BY <1>5, <1>6, <2>2
      <3>2. PICK m \in DOMAIN s : r[l] = s[m] /\ m = IF l < i THEN l ELSE l + 1
        BY <1>5, <1>6, <2>2
      <3>3. j = m
        BY <3>1, <3>2, <1>5, <1>8, <2>2 DEF QueuesDistinct
      <3>4. k \in Int /\ l \in Int /\ i \in Int
        BY <1>2, <1>4, <1>5, <1>8, <2>2
      <3> QED
        BY <2>2, <3>1, <3>2, <3>3, <3>4
    <2>3. CASE p # q /\ u # q
      BY <2>3, <1>5 DEF QueuesDistinct
    <2>4. CASE p = q /\ u # q
      BY <2>4, <1>5, <1>6, <1>8 DEF QueuesDistinct
    <2>5. CASE p # q /\ u = q
      BY <2>5, <1>5, <1>6, <1>8 DEF QueuesDistinct
    <2> QED
      BY <2>2, <2>3, <2>4, <2>5
  <1> QED
    BY <1>9, <1>10

(* The steps that do not move a task. *)
NoMove == UNCHANGED <<poolVars, queue, cur, newCon>>

(* Every step moves one task, or none. *)
LEMMA MovingSteps ==
    ASSUME [Next]_vars
    PROVE  \/ NoMove
           \/ \E c \in CPU : \/ GetTask(c) \/ ReadyTask(c) \/ TakeTask(c)
                             \/ GetStack(c) \/ RequeueTask(c)
  <1> USE DEF NoMove, vars, poolVars, taskVars, queueVars, eventVars, stackVars,
              loopVars, emitVars
  <1>1. CASE UNCHANGED vars
    BY <1>1
  <1>2. ASSUME NEW c \in CPU, Loop(c)
        PROVE  NoMove \/ TakeTask(c) \/ GetStack(c) \/ RequeueTask(c)
    BY <1>2 DEF Loop, ReleaseStack, StartLoop, LockQueue, SkipLevel, EndOfQueue,
                Dispatch, WaitEvent, Return, FinishTask, UnlockTask
  <1>3. ASSUME NEW c \in CPU, Emit(c)
        PROVE  NoMove \/ GetTask(c) \/ ReadyTask(c)
    BY <1>3 DEF Emit, NoFreeTask, FinishEmission
  <1>4. ASSUME NEW c \in CPU, TriggerFunction(c)
        PROVE  NoMove
    BY <1>4 DEF TriggerFunction, TriggerEvent, CallOSCTrigger, SubscribeEvent,
                UnsubscribeEvent, SetOneshotEvent, FireOneshotEvent, Trap
  <1>5. ASSUME NEW c \in CPU, NEW e \in InterruptEvent, Interrupt(c, e)
        PROVE  NoMove
    BY <1>5 DEF Interrupt
  <1> QED
    BY <1>1, <1>2, <1>3, <1>4, <1>5 DEF Next

(* No step loses a task or puts it in a second place. *)
LEMMA PlacementInductive ==
    ASSUME IInv, [Next]_vars
    PROVE  NoTaskShared' /\ NoTaskLost'
  <1> USE DEF IInv
  <1>n. Nil \notin Task
    BY ConstantsAssumption DEF ConstantsAssumption
  <1>t. /\ queue \in [Queue -> Seq(Task)]
        /\ cur \in [CPU -> Task \cup {Nil}]
        /\ newCon \in [CPU -> Task \cup {Nil}]
        /\ Free \subseteq Task
    BY DEF TypeOK, Free
  <1>q. /\ QueuesDistinct
        /\ pEventTaskPoolQueue \cap pInterruptTaskPoolQueue = {}
        /\ \A t \in Free : ~IsQueued(t) /\ ~IsHeld(t)
        /\ \A t \in Task : IsQueued(t) => ~IsHeld(t)
        /\ \A c, d \in CPU :
              /\ c # d /\ cur[c] # Nil => cur[c] # cur[d]
              /\ c # d /\ newCon[c] # Nil => newCon[c] # newCon[d]
              /\ cur[c] # Nil => cur[c] # newCon[d]
    BY DEF NoTaskShared
  <1>l. \A t \in Task : t \in Free \/ IsQueued(t) \/ IsHeld(t)
    BY DEF NoTaskLost
  <1>1. CASE NoMove
    BY <1>1 DEF NoMove, poolVars, NoTaskShared, NoTaskLost, Free, IsQueued, IsHeld,
                QueuesDistinct
  <1>2. ASSUME NEW c \in CPU, GetTask(c)
        PROVE  NoTaskShared' /\ NoTaskLost'
    <2>1. PICK t \in Free :
              /\ newCon' = [newCon EXCEPT ![c] = t]
              /\ Free' = Free \ {t}
              /\ (pEventTaskPoolQueue \cap pInterruptTaskPoolQueue)' = {}
      BY <1>2, <1>q DEF GetTask, FreeTasks, Free
    <2>2. newCon[c] = Nil /\ cur' = cur /\ queue' = queue
      BY <1>2 DEF GetTask, queueVars, loopVars
    <2>3. \A u : IsQueued(u)' <=> IsQueued(u)
      BY <2>2 DEF IsQueued
    <2>4. \A u \in Task : IsHeld(u)' <=> IsHeld(u) \/ u = t
      BY <2>1, <2>2, <1>t, <1>n DEF IsHeld
    <2>5. t \in Task /\ ~IsQueued(t) /\ \A d \in CPU : cur[d] # t /\ newCon[d] # t
      BY <1>q, <1>t DEF IsHeld
    <2>6. NoTaskLost'
      BY <2>1, <2>3, <2>4, <1>l DEF NoTaskLost
    <2>7. QueuesDistinct'
      BY <2>2, <1>q DEF QueuesDistinct
    <2>8. \A a, d \in CPU :
              /\ a # d /\ cur'[a] # Nil => cur'[a] # cur'[d]
              /\ a # d /\ newCon'[a] # Nil => newCon'[a] # newCon'[d]
              /\ cur'[a] # Nil => cur'[a] # newCon'[d]
      BY <2>1, <2>2, <2>5, <1>q, <1>t
    <2> QED
      BY <2>1, <2>3, <2>4, <2>5, <2>6, <2>7, <2>8, <1>q, <1>t DEF NoTaskShared
  <1>3. ASSUME NEW c \in CPU, ReadyTask(c)
        PROVE  NoTaskShared' /\ NoTaskLost'
    <2> DEFINE t == newCon[c]
               q == Affinity[Head(emit[c].rest)]
    <2>1. /\ t \in Task /\ q \in Queue /\ Enqueue(q, t, trigger')
          /\ newCon' = [newCon EXCEPT ![c] = Nil] /\ cur' = cur
          /\ UNCHANGED poolVars
      BY <1>3, Enqueued DEF ReadyTask, loopVars
    <2>2. Free' = Free
      BY <2>1 DEF Free, poolVars
    <2>3. ~IsQueued(t) /\ t \notin Free /\ \A d \in CPU : cur[d] # t /\ (d # c => newCon[d] # t)
      BY <2>1, <1>q, <1>t, <1>n DEF IsHeld
    <2>4. /\ \A u \in Task : IsQueued(u)' <=> IsQueued(u) \/ u = t
          /\ QueuesDistinct'
      BY <2>1, <2>3, <1>q, <1>t, EnqueuePlaces
    <2> HIDE DEF q
    <2>5. \A u \in Task : IsHeld(u)' <=> IsHeld(u) /\ u # t
      BY <2>1, <2>3, <1>t, <1>n DEF IsHeld
    <2>6. NoTaskLost'
      BY <2>2, <2>4, <2>5, <1>l DEF NoTaskLost
    <2>7. \A a, d \in CPU :
              /\ a # d /\ cur'[a] # Nil => cur'[a] # cur'[d]
              /\ a # d /\ newCon'[a] # Nil => newCon'[a] # newCon'[d]
              /\ cur'[a] # Nil => cur'[a] # newCon'[d]
      BY <2>1, <1>q, <1>t
    <2>8. (pEventTaskPoolQueue \cap pInterruptTaskPoolQueue)' = {}
      BY <2>1, <1>q DEF poolVars
    <2> QED
      BY <2>2, <2>3, <2>4, <2>5, <2>6, <2>7, <2>8, <1>q, <1>t DEF NoTaskShared
  <1>4. ASSUME NEW c \in CPU, TakeTask(c)
        PROVE  NoTaskShared' /\ NoTaskLost'
    <2> DEFINE q == scan[c].queue
               i == scan[c].pos
               t == queue[q][i]
    <2>1. q \in Queue /\ i \in 1 .. Len(queue[q]) /\ Len(queue[q]) \in Nat
      <3>1. q \in Queue /\ i \in Nat \ {0} /\ i <= Len(queue[q])
        BY <1>4 DEF TypeOK, TakeTask
      <3> QED
        BY <3>1, <1>t, LenProperties
    <2>2. /\ queue' = [queue EXCEPT ![q] = RemoveAt(queue[q], i)]
          /\ cur' = [cur EXCEPT ![c] = t] /\ newCon' = newCon
          /\ UNCHANGED poolVars
      BY <1>4 DEF TakeTask, Dequeue, emitVars
    <2>3. Free' = Free
      BY <2>2 DEF Free, poolVars
    <2>4. t \in Task /\ IsQueued(t)
      BY <2>1, <1>t, LenProperties DEF IsQueued
    <2>5. cur[c] = Nil
      BY <1>4 DEF TakeTask, LoopOK
    <2>6. /\ \A u \in Task : IsQueued(u)' <=> IsQueued(u) /\ u # t
          /\ QueuesDistinct'
      BY <2>1, <2>2, <1>q, <1>t, DequeuePlaces
    <2> HIDE DEF q, i, t
    <2>7. t \notin Free /\ \A d \in CPU : cur[d] # t /\ newCon[d] # t
      BY <2>4, <1>q DEF IsHeld
    <2>8. \A u \in Task : IsHeld(u)' <=> IsHeld(u) \/ u = t
      BY <2>2, <2>5, <1>t, <1>n DEF IsHeld
    <2>9. NoTaskLost'
      BY <2>3, <2>6, <2>8, <1>l DEF NoTaskLost
    <2>10. \A a, d \in CPU :
              /\ a # d /\ cur'[a] # Nil => cur'[a] # cur'[d]
              /\ a # d /\ newCon'[a] # Nil => newCon'[a] # newCon'[d]
              /\ cur'[a] # Nil => cur'[a] # newCon'[d]
      BY <2>2, <2>7, <1>q, <1>t
    <2>11. (pEventTaskPoolQueue \cap pInterruptTaskPoolQueue)' = {}
      BY <2>2, <1>q DEF poolVars
    <2> QED
      BY <2>3, <2>6, <2>7, <2>8, <2>9, <2>10, <2>11, <1>q, <1>t DEF NoTaskShared
  <1>5. ASSUME NEW c \in CPU, GetStack(c)
        PROVE  NoTaskShared' /\ NoTaskLost'
    <2> DEFINE t == cur[c]
               q == Affinity[trigger[t]]
    <2>1. CASE UNCHANGED <<queue, cur>>
      <3>1. NoMove
        BY <1>5, <2>1 DEF NoMove, GetStack, poolVars, emitVars
      <3> QED
        BY <3>1, <1>1
    <2>2. CASE Enqueue(q, t, trigger) /\ cur' = [cur EXCEPT ![c] = Nil]
      <3>1. /\ t \in Task /\ q \in Queue
            /\ newCon' = newCon /\ UNCHANGED poolVars
        BY <1>5, Enqueued DEF GetStack, emitVars
      <3>2. Free' = Free
        BY <3>1 DEF Free, poolVars
      <3>3. ~IsQueued(t) /\ t \notin Free /\ \A d \in CPU : newCon[d] # t /\ (d # c => cur[d] # t)
        BY <3>1, <1>q, <1>t, <1>n DEF IsHeld
      <3>4. /\ \A u \in Task : IsQueued(u)' <=> IsQueued(u) \/ u = t
            /\ QueuesDistinct'
        BY <2>2, <3>1, <3>3, <1>q, <1>t, EnqueuePlaces
      <3> HIDE DEF q
      <3>5. \A u \in Task : IsHeld(u)' <=> IsHeld(u) /\ u # t
        BY <2>2, <3>1, <3>3, <1>t, <1>n DEF IsHeld
      <3>6. NoTaskLost'
        BY <3>2, <3>4, <3>5, <1>l DEF NoTaskLost
      <3>7. \A a, d \in CPU :
                /\ a # d /\ cur'[a] # Nil => cur'[a] # cur'[d]
                /\ a # d /\ newCon'[a] # Nil => newCon'[a] # newCon'[d]
                /\ cur'[a] # Nil => cur'[a] # newCon'[d]
        BY <2>2, <3>1, <1>q, <1>t
      <3>8. (pEventTaskPoolQueue \cap pInterruptTaskPoolQueue)' = {}
        BY <3>1, <1>q DEF poolVars
      <3> QED
        BY <3>2, <3>3, <3>4, <3>5, <3>6, <3>7, <3>8, <1>q, <1>t DEF NoTaskShared
    <2> QED
      BY <1>5, <2>1, <2>2 DEF GetStack
  <1>6. ASSUME NEW c \in CPU, RequeueTask(c)
        PROVE  NoTaskShared' /\ NoTaskLost'
    <2> DEFINE t == cur[c]
    <2>1. /\ t \in Task
          /\ cur' = [cur EXCEPT ![c] = Nil] /\ newCon' = newCon /\ queue' = queue
      BY <1>6, Enqueued DEF RequeueTask, emitVars, queueVars
    <2>2. ~IsQueued(t) /\ t \notin Free /\ \A d \in CPU : newCon[d] # t /\ (d # c => cur[d] # t)
      BY <2>1, <1>q, <1>t, <1>n DEF IsHeld
    <2>3. Free' = Free \cup {t} /\ (pEventTaskPoolQueue \cap pInterruptTaskPoolQueue)' = {}
      BY <1>6, <2>2, <1>q DEF RequeueTask, Requeue, Free
    <2>4. \A u : IsQueued(u)' <=> IsQueued(u)
      BY <2>1 DEF IsQueued
    <2>5. \A u \in Task : IsHeld(u)' <=> IsHeld(u) /\ u # t
      BY <2>1, <2>2, <1>t, <1>n DEF IsHeld
    <2>6. NoTaskLost'
      BY <2>3, <2>4, <2>5, <1>l DEF NoTaskLost
    <2>7. QueuesDistinct'
      BY <2>1, <1>q DEF QueuesDistinct
    <2>8. \A a, d \in CPU :
              /\ a # d /\ cur'[a] # Nil => cur'[a] # cur'[d]
              /\ a # d /\ newCon'[a] # Nil => newCon'[a] # newCon'[d]
              /\ cur'[a] # Nil => cur'[a] # newCon'[d]
      BY <2>1, <1>q, <1>t
    <2> QED
      BY <2>1, <2>2, <2>3, <2>4, <2>5, <2>6, <2>7, <2>8, <1>q, <1>t DEF NoTaskShared
  <1> QED
    BY <1>1, <1>2, <1>3, <1>4, <1>5, <1>6, MovingSteps

(* The interrupt tasks return to their own pool. *)
LEMMA PoolsInductive ==
    ASSUME IInv, [Next]_vars
    PROVE  PoolsSeparate'
  <1> USE DEF IInv
  <1>1. CASE UNCHANGED poolVars
    BY <1>1 DEF poolVars, PoolsSeparate
  <1>2. ASSUME NEW c \in CPU, GetTask(c)
        PROVE  PoolsSeparate'
    BY <1>2 DEF GetTask, PoolsSeparate
  <1>3. ASSUME NEW c \in CPU, RequeueTask(c)
        PROVE  PoolsSeparate'
    <2>1. cur[c] \in Task /\ (event[cur[c]] \in InterruptEvent <=> cur[c] \in IntTask)
      BY <1>3, Enqueued DEF RequeueTask, TasksOK, InUse
    <2> QED
      BY <1>3, <2>1 DEF RequeueTask, Requeue, PoolsSeparate, Task
  <1>4. ASSUME NEW c \in CPU, ReadyTask(c) \/ TakeTask(c) \/ GetStack(c)
        PROVE  UNCHANGED poolVars
    BY <1>4 DEF ReadyTask, TakeTask, GetStack, poolVars
  <1> QED
    BY <1>1, <1>2, <1>3, <1>4, MovingSteps DEF NoMove

----------------------------------------------------------------------------
(* The dispatch loop *)

(* The dispatch loop holds a task exactly where its code assumes one. *)
LEMMA LoopInductive ==
    ASSUME IInv, [Next]_vars
    PROVE  LoopOK'
  <1>t. /\ pc \in [CPU -> {"release", "waiting", "lock", "scan", "stack", "check",
                           "running", "finish", "unlock", "requeue", "idle",
                           "stopped", "crashed", "hung"}]
        /\ cur \in [CPU -> Task \cup {Nil}]
        /\ pActiveEventTask \in [CPU -> Task \cup {Nil}]
        /\ LoopOK
    BY DEF IInv, TypeOK
  <1>n. Nil \notin Task
    BY ConstantsAssumption DEF ConstantsAssumption
  <1> USE DEF LoopOK, Goto
  <1>1. CASE UNCHANGED <<pc, cur, pActiveEventTask>>
    BY <1>1, <1>t
  <1>2. ASSUME NEW c \in CPU, Loop(c)
        PROVE  LoopOK'
    <2>1. CASE ReleaseStack(c) \/ StartLoop(c) \/ LockQueue(c) \/ EndOfQueue(c) \/ WaitEvent(c)
      BY <2>1, <1>t DEF ReleaseStack, StartLoop, LockQueue, EndOfQueue, WaitEvent
    <2>2. CASE TakeTask(c)
      <3>1. scan[c].queue \in Queue /\ scan[c].pos \in Nat \ {0}
              /\ queue[scan[c].queue] \in Seq(Task)
        BY DEF IInv, TypeOK
      <3>2. queue[scan[c].queue][scan[c].pos] \in Task
        BY <2>2, <3>1, LenProperties DEF TakeTask
      <3> QED
        BY <2>2, <3>2, <1>t, <1>n DEF TakeTask
    <2>3. CASE SkipLevel(c)
      BY <2>3, <1>1 DEF SkipLevel
    <2>4. CASE GetStack(c)
      BY <2>4, <1>t DEF GetStack
    <2>5. CASE Dispatch(c)
      BY <2>5, <1>t DEF Dispatch
    <2>6. CASE Return(c) \/ FinishTask(c) \/ UnlockTask(c)
      BY <2>6, <1>t DEF Return, FinishTask, UnlockTask, Executing
    <2>7. CASE RequeueTask(c)
      BY <2>7, <1>t DEF RequeueTask
    <2> QED
      BY <1>2, <2>1, <2>2, <2>3, <2>4, <2>5, <2>6, <2>7 DEF Loop
  <1>3. ASSUME NEW c \in CPU, Emit(c)
        PROVE  LoopOK'
    BY <1>3, <1>1 DEF Emit, GetTask, NoFreeTask, ReadyTask, FinishEmission, loopVars
  <1>4. ASSUME NEW c \in CPU, Trap(c)
        PROVE  LoopOK'
    BY <1>4, <1>t DEF Trap, Executing
  <1>5. ASSUME NEW c \in CPU, TriggerFunction(c), ~Trap(c)
        PROVE  LoopOK'
    BY <1>5, <1>1 DEF TriggerFunction, TriggerEvent, CallOSCTrigger, SubscribeEvent,
                UnsubscribeEvent, SetOneshotEvent, FireOneshotEvent, loopVars
  <1>6. ASSUME NEW c \in CPU, NEW e \in InterruptEvent, Interrupt(c, e)
        PROVE  LoopOK'
    BY <1>6, <1>1 DEF Interrupt, loopVars
  <1>7. CASE UNCHANGED vars
    BY <1>7, <1>1 DEF vars, loopVars
  <1> QED
    BY <1>2, <1>3, <1>4, <1>5, <1>6, <1>7 DEF Next

(* The cores that hold tasks hold disjoint sets of components. *)
LEMMA LocksInductive ==
    ASSUME IInv, [Next]_vars
    PROVE  LocksDisjoint'
  <1>t. /\ pc \in [CPU -> {"release", "waiting", "lock", "scan", "stack", "check",
                           "running", "finish", "unlock", "requeue", "idle",
                           "stopped", "crashed", "hung"}]
        /\ cur \in [CPU -> Task \cup {Nil}]
        /\ newCon \in [CPU -> Task \cup {Nil}]
        /\ trigger \in [Task -> Trigger \cup {Nil}]
    BY DEF IInv, TypeOK
  <1>n. Nil \notin Task
    BY ConstantsAssumption DEF ConstantsAssumption
  <1>d. LocksDisjoint
    BY DEF IInv
  <1>s. ASSUME \A a \in CPU : HoldsLock(a)' =>
                   HoldsLock(a) /\ cur'[a] = cur[a] /\ trigger'[cur[a]] = trigger[cur[a]]
        PROVE  LocksDisjoint'
    BY <1>s, <1>d DEF LocksDisjoint, Uses
  <1>1. CASE UNCHANGED <<pc, cur, trigger>>
    BY <1>1, <1>s DEF HoldsLock
  <1>2. ASSUME NEW c \in CPU, Loop(c)
        PROVE  LocksDisjoint'
    <2>1. CASE ReleaseStack(c) \/ StartLoop(c) \/ LockQueue(c) \/ EndOfQueue(c) \/ WaitEvent(c)
      <3>1. cur[c] = Nil /\ cur' = cur /\ trigger' = trigger /\ \A a \in CPU : a # c => pc'[a] = pc[a]
        BY <2>1, <1>t DEF ReleaseStack, StartLoop, LockQueue, EndOfQueue, WaitEvent, IInv,
                          LoopOK, Goto, taskVars
      <3> QED
        BY <3>1, <1>s DEF HoldsLock
    <2>2. CASE TakeTask(c)
      <3> DEFINE task == queue[scan[c].queue][scan[c].pos]
      <3>1. Lockable(task) /\ cur'[c] = task /\ trigger' = trigger
            /\ \A a \in CPU : a # c => cur'[a] = cur[a] /\ pc'[a] = pc[a]
        BY <2>2, <1>t DEF TakeTask, Goto, taskVars
      <3>2. \A a \in CPU : HoldsLock(a) => pActiveEventTask[a] = cur[a] /\ cur[a] # Nil
        BY DEF IInv, LoopOK, HoldsLock
      <3> HIDE DEF task
      <3>3. \A a \in CPU : HoldsLock(a) => Uses(trigger[task]) \cap Uses(trigger[cur[a]]) = {}
        BY <3>1, <3>2 DEF Lockable
      <3>4. \A a \in CPU : a # c /\ HoldsLock(a)' => HoldsLock(a)
        BY <3>1 DEF HoldsLock
      <3>5. \A a \in CPU : a # c => Uses(trigger[cur[a]])' = Uses(trigger[cur[a]])
        BY <3>1 DEF Uses
      <3>6. Uses(trigger[cur[c]])' = Uses(trigger[task])
        BY <3>1 DEF Uses
      <3>7. SUFFICES ASSUME NEW a \in CPU, NEW b \in CPU, a # b, HoldsLock(a)', HoldsLock(b)'
                     PROVE  Uses(trigger[cur[a]])' \cap Uses(trigger[cur[b]])' = {}
        BY DEF LocksDisjoint
      <3>8. CASE a = c
        BY <3>3, <3>4, <3>5, <3>6, <3>7, <3>8
      <3>9. CASE b = c
        BY <3>3, <3>4, <3>5, <3>6, <3>7, <3>9
      <3>10. CASE a # c /\ b # c
        BY <3>4, <3>5, <3>7, <3>10, <1>d DEF LocksDisjoint
      <3> QED
        BY <3>8, <3>9, <3>10
    <2>3. CASE SkipLevel(c)
      BY <2>3, <1>1 DEF SkipLevel, taskVars
    <2>4. CASE GetStack(c)
      <3>1. /\ pc[c] = "stack" /\ trigger' = trigger
            /\ \A a \in CPU : a # c => cur'[a] = cur[a] /\ pc'[a] = pc[a]
            /\ cur'[c] = Nil \/ cur'[c] = cur[c]
        BY <2>4, <1>t DEF GetStack, Goto
      <3> QED
        BY <3>1, <1>s DEF HoldsLock
    <2>5. CASE Dispatch(c)
      <3>1. pc[c] = "check" /\ cur' = cur /\ trigger' = trigger /\ \A a \in CPU : a # c => pc'[a] = pc[a]
        BY <2>5, <1>t DEF Dispatch, Goto, taskVars
      <3> QED
        BY <3>1, <1>s DEF HoldsLock
    <2>6. CASE Return(c) \/ FinishTask(c) \/ UnlockTask(c)
      <3>1. /\ pc[c] \in {"running", "finish", "unlock"} /\ cur' = cur /\ trigger' = trigger
            /\ \A a \in CPU : a # c => pc'[a] = pc[a]
        BY <2>6, <1>t DEF Return, FinishTask, UnlockTask, Executing, Goto, taskVars
      <3> QED
        BY <3>1, <1>s DEF HoldsLock
    <2>7. CASE RequeueTask(c)
      <3>1. /\ cur[c] \in Task /\ cur' = [cur EXCEPT ![c] = Nil]
            /\ trigger' = [trigger EXCEPT ![cur[c]] = Nil]
            /\ \A a \in CPU : a # c => pc'[a] = pc[a]
        BY <2>7, <1>t, Enqueued DEF RequeueTask, Goto, IInv
      <3>2. \A a \in CPU : a # c => cur[a] # cur[c]
        BY <3>1, <1>n DEF IInv, NoTaskShared
      <3>3. \A a \in CPU : HoldsLock(a)' => HoldsLock(a) /\ a # c
        BY <3>1, <1>t DEF HoldsLock
      <3>4. \A a \in CPU : HoldsLock(a) => cur[a] \in Task
        BY <1>t DEF HoldsLock
      <3> QED
        BY <3>1, <3>2, <3>3, <3>4, <1>s, <1>t
    <2> QED
      BY <1>2, <2>1, <2>2, <2>3, <2>4, <2>5, <2>6, <2>7 DEF Loop
  <1>3. ASSUME NEW c \in CPU, GetTask(c) \/ NoFreeTask(c) \/ FinishEmission(c)
        PROVE  LocksDisjoint'
    BY <1>3, <1>1 DEF GetTask, NoFreeTask, FinishEmission, loopVars, taskVars
  <1>4. ASSUME NEW c \in CPU, ReadyTask(c)
        PROVE  LocksDisjoint'
    <2>1. newCon[c] \in Task /\ pc' = pc /\ cur' = cur
            /\ trigger' = [trigger EXCEPT ![newCon[c]] = Head(emit[c].rest)]
      BY <1>4, <1>t DEF ReadyTask, loopVars
    <2>2. \A a \in CPU : HoldsLock(a) => cur[a] # newCon[c]
      BY DEF IInv, NoTaskShared, HoldsLock
    <2> QED
      BY <2>1, <2>2, <1>s, <1>t DEF HoldsLock
  <1>5. ASSUME NEW c \in CPU, Trap(c)
        PROVE  LocksDisjoint'
    <2>1. /\ pc[c] = "running" /\ cur' = cur /\ trigger' = trigger
          /\ \A a \in CPU : a # c => pc'[a] = pc[a]
      BY <1>5, <1>t DEF Trap, Executing, Goto, taskVars
    <2> QED
      BY <2>1, <1>s DEF HoldsLock
  <1>6. ASSUME NEW c \in CPU, TriggerFunction(c), ~Trap(c)
        PROVE  LocksDisjoint'
    BY <1>6, <1>1 DEF TriggerFunction, TriggerEvent, CallOSCTrigger, SubscribeEvent,
                UnsubscribeEvent, SetOneshotEvent, FireOneshotEvent, loopVars, taskVars
  <1>7. ASSUME NEW c \in CPU, NEW e \in InterruptEvent, Interrupt(c, e)
        PROVE  LocksDisjoint'
    BY <1>7, <1>1 DEF Interrupt, loopVars, taskVars
  <1>8. CASE UNCHANGED vars
    BY <1>8, <1>1 DEF vars, loopVars, taskVars
  <1> QED
    BY <1>2, <1>3, <1>4, <1>5, <1>6, <1>7, <1>8 DEF Next, Emit

(* A task in use keeps its trigger and the event that chose its pool. *)
LEMMA TasksInductive ==
    ASSUME IInv, [Next]_vars
    PROVE  TasksOK'
  <1>t. /\ queue \in [Queue -> Seq(Task)]
        /\ cur \in [CPU -> Task \cup {Nil}]
        /\ newCon \in [CPU -> Task \cup {Nil}]
        /\ trigger \in [Task -> Trigger \cup {Nil}]
        /\ event \in [Task -> Event \cup {DummyEvent, Nil}]
        /\ emit \in [CPU -> [event : Event \cup {DummyEvent, Nil}, rest : Seq(Trigger)]]
    BY DEF IInv, TypeOK
  <1>n. Nil \notin Task /\ Nil \notin Trigger /\ Nil \notin Event \cup {DummyEvent}
    BY ConstantsAssumption DEF ConstantsAssumption
  <1>e. SWEvent \cup OneshotEvent \cup {DummyEvent} \subseteq (Event \cup {DummyEvent}) \ InterruptEvent
          /\ InterruptEvent \subseteq Event /\ Nil \notin InterruptEvent
    BY ConstantsAssumption DEF ConstantsAssumption, Event
  <1>k. TasksOK
    BY DEF IInv
  <1>u. ASSUME UNCHANGED <<queue, cur, trigger, event>>
        PROVE  \A t \in Task : InUse(t)' =>
                  /\ trigger'[t] # Nil /\ event'[t] # Nil
                  /\ event'[t] \in InterruptEvent <=> t \in IntTask
    BY <1>u, <1>k DEF TasksOK, InUse, IsQueued
  <1>1. ASSUME UNCHANGED <<queue, cur, trigger, event, emit, newCon>>
        PROVE  TasksOK'
    BY <1>1, <1>u, <1>k DEF TasksOK
  <1>2. ASSUME NEW c \in CPU, Loop(c)
        PROVE  TasksOK'
    <2>1. CASE \/ ReleaseStack(c) \/ StartLoop(c) \/ LockQueue(c) \/ SkipLevel(c)
               \/ EndOfQueue(c) \/ WaitEvent(c) \/ Dispatch(c) \/ Return(c)
               \/ FinishTask(c) \/ UnlockTask(c)
      BY <2>1, <1>1 DEF ReleaseStack, StartLoop, LockQueue, SkipLevel, EndOfQueue,
                WaitEvent, Dispatch, Return, FinishTask, UnlockTask, taskVars, queueVars,
                loopVars, emitVars
    <2>2. CASE TakeTask(c)
      <3> DEFINE q == scan[c].queue
                 i == scan[c].pos
                 task == queue[q][i]
      <3>1. q \in Queue /\ i \in Nat \ {0} /\ i <= Len(queue[q]) /\ queue[q] \in Seq(Task)
        BY <2>2 DEF TakeTask, IInv, TypeOK
      <3>2. i \in 1 .. Len(queue[q]) /\ DOMAIN queue[q] = 1 .. Len(queue[q])
        BY <3>1, LenProperties
      <3>3. /\ queue' = [queue EXCEPT ![q] = RemoveAt(queue[q], i)]
            /\ cur' = [cur EXCEPT ![c] = task]
            /\ UNCHANGED <<trigger, event, emit, newCon>>
        BY <2>2 DEF TakeTask, Dequeue, taskVars, emitVars
      <3>4. \A t \in Task : IsQueued(t)' => IsQueued(t)
        <4>1. QueuesDistinct
          BY DEF IInv, NoTaskShared
        <4> QED
          BY <3>1, <3>2, <3>3, <4>1, <1>t, DequeuePlaces
      <3>5. IsQueued(task)
        BY <3>1, <3>2 DEF IsQueued
      <3> HIDE DEF q, i, task
      <3>6. \A t \in Task : InUse(t)' => InUse(t)
        BY <3>3, <3>4, <3>5, <1>t DEF InUse
      <3> QED
        BY <3>3, <3>6, <1>k DEF TasksOK
    <2>3. CASE GetStack(c)
      <3>1. CASE UNCHANGED <<queue, cur>>
        BY <2>3, <3>1, <1>1 DEF GetStack, emitVars
      <3>2. CASE ~UNCHANGED <<queue, cur>>
        <4> DEFINE task == cur[c]
                   q == Affinity[trigger[task]]
        <4>1. /\ Enqueue(q, task, trigger) /\ cur' = [cur EXCEPT ![c] = Nil]
              /\ UNCHANGED <<trigger, event, emit, newCon>>
          BY <2>3, <3>2 DEF GetStack, emitVars
        <4>2. task \in Task /\ q \in Queue
          BY <2>3, Enqueued DEF GetStack, IInv
        <4>3. QueuesDistinct /\ ~IsQueued(task)
          BY <4>2, <1>n DEF IInv, NoTaskShared, IsHeld
        <4>4. \A t \in Task : IsQueued(t)' => IsQueued(t) \/ t = task
          BY <4>1, <4>2, <4>3, <1>t, EnqueuePlaces
        <4>5. \A t \in Task : InUse(t)' => InUse(t)
          BY <4>1, <4>2, <4>4, <1>t, <1>n DEF InUse
        <4> QED
          BY <4>1, <4>5, <1>k DEF TasksOK
      <3> QED
        BY <3>1, <3>2
    <2>4. CASE RequeueTask(c)
      <3> DEFINE task == cur[c]
      <3>1. /\ task \in Task
            /\ cur' = [cur EXCEPT ![c] = Nil]
            /\ trigger' = [trigger EXCEPT ![task] = Nil]
            /\ event' = [event EXCEPT ![task] = Nil]
            /\ UNCHANGED <<queue, emit, newCon>>
        BY <2>4, Enqueued DEF RequeueTask, IInv, queueVars, emitVars
      <3>2. ~IsQueued(task) /\ \A d \in CPU : d # c => cur[d] # task
        BY <3>1, <1>n DEF IInv, NoTaskShared, IsHeld
      <3>3. \A t \in Task : IsQueued(t)' => IsQueued(t)
        BY <3>1 DEF IsQueued
      <3>4. \A t \in Task : InUse(t)' => InUse(t) /\ t # task
        BY <3>1, <3>2, <3>3, <1>t, <1>n DEF InUse, IsQueued
      <3> QED
        BY <3>1, <3>4, <1>k, <1>t DEF TasksOK
    <2> QED
      BY <1>2, <2>1, <2>2, <2>3, <2>4 DEF Loop
  <1>3. ASSUME NEW c \in CPU, GetTask(c)
        PROVE  TasksOK'
    <2>1. PICK t \in FreeTasks(emit[c].event) : newCon' = [newCon EXCEPT ![c] = t]
      BY <1>3 DEF GetTask
    <2>2. UNCHANGED <<queue, cur, trigger, event, emit>> /\ emit[c].rest # <<>>
      BY <1>3 DEF GetTask, taskVars, queueVars, loopVars
    <2>3. emit[c].event \in InterruptEvent <=> t \in IntTask
      BY <2>1, ConstantsAssumption DEF FreeTasks, IInv, PoolsSeparate, ConstantsAssumption
    <2>4. \A d \in CPU : newCon'[d] # Nil =>
             emit[d].rest # <<>> /\ (emit[d].event \in InterruptEvent <=> newCon'[d] \in IntTask)
      BY <2>1, <2>2, <2>3, <1>k, <1>t DEF TasksOK
    <2> QED
      BY <2>2, <2>4, <1>u, <1>k DEF TasksOK
  <1>4. ASSUME NEW c \in CPU, NoFreeTask(c) \/ FinishEmission(c)
        PROVE  TasksOK'
    <2>1. /\ emit' = [emit EXCEPT ![c] = [event |-> Nil, rest |-> <<>>]] /\ newCon[c] = Nil
          /\ UNCHANGED <<queue, cur, trigger, event, newCon>>
      BY <1>4 DEF NoFreeTask, FinishEmission, EndEmission, NoEmission, taskVars, queueVars,
                  loopVars
    <2> QED
      BY <2>1, <1>u, <1>k, <1>t DEF TasksOK
  <1>5. ASSUME NEW c \in CPU, ReadyTask(c)
        PROVE  TasksOK'
    <2> DEFINE task == newCon[c]
               h == Head(emit[c].rest)
               q == Affinity[h]
    <2>1. /\ task \in Task /\ h \in Trigger /\ q \in Queue /\ Enqueue(q, task, trigger')
      BY <1>5, Enqueued DEF ReadyTask, IInv
    <2>2. /\ trigger' = [trigger EXCEPT ![task] = h]
          /\ event' = [event EXCEPT ![task] = emit[c].event]
          /\ emit' = [emit EXCEPT ![c].rest = Tail(emit[c].rest)]
          /\ newCon' = [newCon EXCEPT ![c] = Nil]
          /\ cur' = cur
      BY <1>5 DEF ReadyTask, loopVars
    <2>3. QueuesDistinct /\ ~IsQueued(task)
      BY <2>1, <1>n DEF IInv, NoTaskShared, IsHeld
    <2>4. \A t \in Task : IsQueued(t)' => IsQueued(t) \/ t = task
      BY <2>1, <2>3, <1>t, EnqueuePlaces
    <2>5. /\ emit[c].event \in InterruptEvent <=> task \in IntTask
          /\ emit[c].event # Nil
      BY <2>1, <1>k, <1>n DEF TasksOK
    <2> HIDE DEF q
    <2>6. \A t \in Task : InUse(t)' => InUse(t) \/ t = task
      BY <2>2, <2>4 DEF InUse
    <2>7. \A t \in Task : InUse(t)' =>
             /\ trigger'[t] # Nil /\ event'[t] # Nil
             /\ event'[t] \in InterruptEvent <=> t \in IntTask
      BY <2>1, <2>2, <2>5, <2>6, <1>k, <1>t, <1>n DEF TasksOK
    <2>8. \A d \in CPU : emit'[d].event = emit[d].event /\ (d # c => emit'[d] = emit[d])
      BY <2>2, <1>t
    <2>9. \A d \in CPU : emit'[d].event = Nil => emit'[d].rest = <<>>
      BY <2>5, <2>8, <1>k DEF TasksOK
    <2> QED
      BY <2>2, <2>7, <2>8, <2>9, <1>k, <1>t DEF TasksOK
  <1>6. ASSUME NEW c \in CPU, TriggerFunction(c)
        PROVE  TasksOK'
    <2>1. CASE Trap(c) \/ \E e \in SWEvent, t \in Trigger : SubscribeEvent(c, e, t) \/ UnsubscribeEvent(c, e, t)
      BY <2>1, <1>1 DEF Trap, SubscribeEvent, UnsubscribeEvent, taskVars, queueVars, loopVars, emitVars
    <2>2. CASE \E e \in OneshotEvent, t \in Trigger : SetOneshotEvent(c, e, t)
      BY <2>2, <1>1 DEF SetOneshotEvent, taskVars, queueVars, loopVars, emitVars
    <2>3. ASSUME NEW e \in SWEvent, TriggerEvent(c, e)
          PROVE  TasksOK'
      <3>1. /\ emit' = [emit EXCEPT ![c] = [event |-> e, rest |-> subscribers[e]]]
            /\ emit[c] = NoEmission
            /\ UNCHANGED <<queue, cur, trigger, event, newCon>>
        BY <2>3 DEF TriggerEvent, Executing, StartEmission, taskVars, queueVars, loopVars
      <3> QED
        BY <3>1, <1>u, <1>k, <1>t, <1>n, <1>e DEF TasksOK, NoEmission
    <2>4. ASSUME NEW t \in Trigger, CallOSCTrigger(c, t)
          PROVE  TasksOK'
      <3>1. /\ emit' = [emit EXCEPT ![c] = [event |-> DummyEvent, rest |-> <<t>>]]
            /\ emit[c] = NoEmission
            /\ UNCHANGED <<queue, cur, trigger, event, newCon>>
        BY <2>4 DEF CallOSCTrigger, Executing, taskVars, queueVars, loopVars, emitVars
      <3> QED
        BY <3>1, <1>u, <1>k, <1>t, <1>n, <1>e DEF TasksOK, NoEmission
    <2>5. ASSUME NEW e \in OneshotEvent, FireOneshotEvent(c, e)
          PROVE  TasksOK'
      <3>1. /\ emit' = [emit EXCEPT ![c] = [event |-> e, rest |-> subscribers[e]]]
            /\ emit[c] = NoEmission
            /\ UNCHANGED <<queue, cur, trigger, event, newCon>>
        BY <2>5 DEF FireOneshotEvent, Executing, StartEmission, taskVars, queueVars, loopVars
      <3> QED
        BY <3>1, <1>u, <1>k, <1>t, <1>n, <1>e DEF TasksOK, NoEmission
    <2> QED
      BY <1>6, <2>1, <2>2, <2>3, <2>4, <2>5 DEF TriggerFunction
  <1>7. ASSUME NEW c \in CPU, NEW e \in InterruptEvent, Interrupt(c, e)
        PROVE  TasksOK'
    <2>1. /\ emit' = [emit EXCEPT ![c] = [event |-> e, rest |-> subscribers[e]]]
          /\ emit[c] = NoEmission
          /\ UNCHANGED <<queue, cur, trigger, event, newCon>>
      BY <1>7 DEF Interrupt, StartEmission, taskVars, queueVars, loopVars
    <2> QED
      BY <2>1, <1>u, <1>k, <1>t, <1>n, <1>e DEF TasksOK, NoEmission
  <1>8. CASE UNCHANGED vars
    BY <1>8, <1>1 DEF vars, taskVars, queueVars, loopVars, emitVars
  <1> QED
    BY <1>2, <1>3, <1>4, <1>5, <1>6, <1>7, <1>8 DEF Next, Emit

----------------------------------------------------------------------------
(* Theorems *)

(* Dispatching starts with all tasks free and no component locked. *)
LEMMA InitIInv ==
    ASSUME Init
    PROVE  IInv
  <1> USE ConstantsAssumption DEF ConstantsAssumption, Init
  <1>1. \A q \in Queue : queue[q] = <<>> /\ DOMAIN queue[q] = {}
    OBVIOUS
  <1>2. \A t \in Task : ~IsQueued(t) /\ ~IsHeld(t) /\ ~InUse(t)
    BY <1>1 DEF IsQueued, IsHeld, InUse, Task
  <1>3. QueuesDistinct
    BY <1>1 DEF QueuesDistinct
  <1>4. NoTaskShared /\ NoTaskLost
    BY <1>2, <1>3 DEF NoTaskShared, NoTaskLost, Free, Task
  <1>5. PoolsSeparate /\ LoopOK /\ LocksDisjoint
    BY DEF PoolsSeparate, LoopOK, LocksDisjoint, HoldsLock
  <1>6. TasksOK
    BY <1>2 DEF TasksOK, NoEmission
  <1>7. TypeOK
    <2>1. Global \in Queue /\ <<>> \in Seq(Task) /\ <<>> \in Seq(Trigger)
      BY DEF Queue
    <2>2. scan \in [CPU -> [queue : Queue, pos : Nat \ {0}]]
      BY <2>1 DEF NoScan
    <2>3. emit \in [CPU -> [event : Event \cup {DummyEvent, Nil}, rest : Seq(Trigger)]]
      BY <2>1 DEF NoEmission
    <2>4. queue \in [Queue -> Seq(Task)]
      BY <2>1
    <2> QED
      BY <2>2, <2>3, <2>4 DEF TypeOK, Task
  <1> QED
    BY <1>4, <1>5, <1>6, <1>7 DEF IInv

(* The invariant on which the theorems rest. *)
LEMMA InvariantHolds == Spec => []IInv
  <1>1. Init => IInv
    BY InitIInv
  <1>2. IInv /\ [Next]_vars => IInv'
    BY TypeInductive, PlacementInductive, PoolsInductive, LoopInductive, LocksInductive,
       TasksInductive DEF IInv
  <1> QED
    BY <1>1, <1>2, PTL DEF Spec

(* The variables keep their types in every reachable state, for any        *)
(* number of cores, tasks, triggers and events.                            *)
THEOREM TypeCorrect == Spec => []TypeOK
  <1>1. IInv => TypeOK
    BY DEF IInv
  <1> QED
    BY <1>1, InvariantHolds, PTL

(* Mutual exclusion of components: tryTaskLock and unlockTask never let    *)
(* two cores run triggers that share a component.                          *)
THEOREM Exclusion == Spec => []ComponentExclusive
  <1>1. ASSUME IInv
        PROVE  ComponentExclusive
    <2>1. \A c \in CPU : InTask(c) => HoldsLock(c)
      BY <1>1 DEF IInv, LoopOK, InTask, HoldsLock
    <2> QED
      BY <1>1, <2>1 DEF IInv, LocksDisjoint, ComponentExclusive
  <1> QED
    BY <1>1, InvariantHolds, PTL

(* No task object is ever in two places: getTask, readyTask, getEvent and  *)
(* eventTaskFinished hand each from one owner to the next.                 *)
THEOREM TasksNotShared == Spec => []NoTaskShared
  <1>1. IInv => NoTaskShared
    BY DEF IInv
  <1> QED
    BY <1>1, InvariantHolds, PTL

(* No task object is ever lost on its way from the pool through a queue to *)
(* a core and back.                                                        *)
THEOREM TasksNotLost == Spec => []NoTaskLost
  <1>1. IInv => NoTaskLost
    BY DEF IInv
  <1> QED
    BY <1>1, InvariantHolds, PTL

(* requeueTask and requeueInterruptTask return each task to the pool it    *)
(* came from, although they choose the pool by the task's event.           *)
THEOREM PoolsStaySeparate == Spec => []PoolsSeparate
  <1>1. IInv => PoolsSeparate
    BY DEF IInv
  <1> QED
    BY <1>1, InvariantHolds, PTL

----------------------------------------------------------------------------
(* Stacks *)

(* The stack a core is about to use, uses, or has to return. *)
CoreStack(c) ==
    IF pc[c] = "check" /\ cur[c] # Nil THEN pStackpointer[cur[c]] ELSE pStackPointers[c]

(* On its own stack, with no other to return. *)
OwnStack(c) == pc[c] \in {"waiting", "lock", "scan", "stack", "check", "idle", "stopped"}

StacksOK ==
    /\ \A c \in CPU : OwnStack(c) => pStackPointers[c] = Nil
    /\ \A c \in CPU : CoreStack(c) # Nil => CoreStack(c) \in mUsedStacks
    /\ \A c, d \in CPU : c # d /\ CoreStack(c) # Nil => CoreStack(c) # CoreStack(d)

(* A step that leaves every core's stack as it is. *)
StacksKept ==
    /\ mUsedStacks' = mUsedStacks
    /\ pStackPointers' = pStackPointers
    /\ \A c \in CPU : CoreStack(c)' = CoreStack(c) /\ (OwnStack(c)' => OwnStack(c))

LEMMA StackSteps ==
    ASSUME IInv, [Next]_vars
    PROVE  \/ StacksKept
           \/ \E c \in CPU : \/ ReleaseStack(c) \/ GetStack(c) \/ Dispatch(c)
                             \/ FinishTask(c)
  <1> USE DEF vars, poolVars, taskVars, queueVars, eventVars, stackVars, loopVars, emitVars
  <1>t. pc \in [CPU -> {"release", "waiting", "lock", "scan", "stack", "check",
                        "running", "finish", "unlock", "requeue", "idle",
                        "stopped", "crashed", "hung"}]
        /\ cur \in [CPU -> Task \cup {Nil}]
    BY DEF IInv, TypeOK
  <1>l. LoopOK
    BY DEF IInv
  <1>u. UNCHANGED <<pc, cur, stackVars, pStackpointer>> => StacksKept
    BY DEF StacksKept, CoreStack, OwnStack
  <1>1. CASE UNCHANGED vars
    BY <1>1, <1>u
  <1>2. ASSUME NEW c \in CPU, Emit(c)
        PROVE  StacksKept
    BY <1>2, <1>u DEF Emit, GetTask, NoFreeTask, ReadyTask, FinishEmission
  <1>3. ASSUME NEW c \in CPU, NEW e \in InterruptEvent, Interrupt(c, e)
        PROVE  StacksKept
    BY <1>3, <1>u DEF Interrupt
  <1>4. ASSUME NEW c \in CPU, TriggerFunction(c)
        PROVE  StacksKept
    <2>1. CASE Trap(c)
      BY <2>1, <1>t DEF Trap, Executing, Goto, StacksKept, CoreStack, OwnStack
    <2>2. CASE ~Trap(c)
      BY <1>4, <2>2, <1>u DEF TriggerFunction, TriggerEvent, CallOSCTrigger, SubscribeEvent,
         UnsubscribeEvent, SetOneshotEvent, FireOneshotEvent
    <2> QED
      BY <2>1, <2>2
  <1>5. ASSUME NEW c \in CPU, Loop(c), ~ReleaseStack(c), ~GetStack(c), ~Dispatch(c), ~FinishTask(c)
        PROVE  StacksKept
    <2>0. UNCHANGED <<stackVars, pStackpointer>>
      BY <1>5 DEF Loop, StartLoop, LockQueue, TakeTask, SkipLevel, EndOfQueue, WaitEvent, Return,
         UnlockTask, RequeueTask
    <2>1. CASE SkipLevel(c)
      BY <2>1, <1>u DEF SkipLevel
    <2>2. CASE StartLoop(c) \/ LockQueue(c) \/ WaitEvent(c) \/ Return(c) \/ UnlockTask(c)
      BY <2>0, <2>2, <1>t DEF StartLoop, LockQueue, WaitEvent, Return, Executing, UnlockTask, Goto,
         StacksKept, CoreStack, OwnStack
    <2>3. CASE EndOfQueue(c)
      <3>1. cur[c] = Nil
        BY <2>3, <1>l, SMTT(60) DEF EndOfQueue, LoopOK
      <3> QED
        BY <2>0, <2>3, <3>1, <1>t DEF EndOfQueue, Goto, StacksKept, CoreStack, OwnStack
    <2>4. CASE TakeTask(c)
      BY <2>0, <2>4, <1>t DEF TakeTask, Goto, StacksKept, CoreStack, OwnStack
    <2>5. CASE RequeueTask(c)
      BY <2>0, <2>5, <1>t DEF RequeueTask, Goto, StacksKept, CoreStack, OwnStack
    <2> QED
      BY <1>5, <2>1, <2>2, <2>3, <2>4, <2>5 DEF Loop
  <1> QED
    BY <1>1, <1>2, <1>3, <1>4, <1>5 DEF Next, Loop

LEMMA StacksInductive ==
    ASSUME IInv, StacksOK, [Next]_vars
    PROVE  StacksOK'
  <1>t. /\ pc \in [CPU -> {"release", "waiting", "lock", "scan", "stack", "check",
                           "running", "finish", "unlock", "requeue", "idle",
                           "stopped", "crashed", "hung"}]
        /\ cur \in [CPU -> Task \cup {Nil}]
        /\ pStackPointers \in [CPU -> Stack \cup {Nil}]
        /\ pStackpointer \in [Task -> Stack \cup {Nil}]
        /\ Nil \notin Stack \cup Task
    BY ConstantsAssumption DEF IInv, TypeOK, ConstantsAssumption
  <1>l. LoopOK
    BY DEF IInv
  <1>s. \A c, d \in CPU : c # d /\ cur[c] # Nil => cur[c] # cur[d]
    BY DEF IInv, NoTaskShared
  <1>1. CASE StacksKept
    BY <1>1 DEF StacksKept, StacksOK
  <1>2. ASSUME NEW c \in CPU, ReleaseStack(c)
        PROVE  StacksOK'
    <2>1. CoreStack(c) = pStackPointers[c] /\ CoreStack(c)' = Nil
      BY <1>2, <1>t DEF ReleaseStack, Goto, CoreStack
    <2>2. \A d \in CPU \ {c} : CoreStack(d)' = CoreStack(d) /\ OwnStack(d)' = OwnStack(d)
                                /\ pStackPointers'[d] = pStackPointers[d]
      BY <1>2, <1>t DEF ReleaseStack, Goto, CoreStack, OwnStack, taskVars
    <2>3. pStackPointers'[c] = Nil /\ mUsedStacks' = mUsedStacks \ {pStackPointers[c]}
      BY <1>2, <1>t DEF ReleaseStack, SetStackFree
    <2> QED
      BY <2>1, <2>2, <2>3 DEF StacksOK
  <1>3. ASSUME NEW c \in CPU, GetStack(c)
        PROVE  StacksOK'
    <2>0. cur[c] \in Task /\ pc[c] = "stack" /\ pc' = [pc EXCEPT ![c] = "check"]
      BY <1>3, <1>t, <1>l DEF GetStack, Goto, LoopOK
    <2>1. pStackPointers' = pStackPointers /\ pStackPointers[c] = Nil
      BY <1>3, <2>0 DEF GetStack, StacksOK, OwnStack
    <2>2. \A d \in CPU \ {c} : OwnStack(d)' = OwnStack(d) /\ pc'[d] = pc[d] /\ cur'[d] = cur[d]
      BY <1>3, <2>0, <1>t DEF GetStack, OwnStack
    <2>3. CASE FreeStacks = {}
      <3>1. mUsedStacks' = mUsedStacks /\ pStackpointer' = pStackpointer /\ cur'[c] = Nil
        BY <1>3, <2>3, <1>t DEF GetStack
      <3>2. CoreStack(c)' = Nil
        BY <2>0, <2>1, <3>1, <1>t DEF CoreStack
      <3>3. \A d \in CPU \ {c} : CoreStack(d)' = CoreStack(d)
        BY <2>1, <2>2, <3>1 DEF CoreStack
      <3> QED
        BY <2>1, <2>2, <3>1, <3>2, <3>3 DEF StacksOK
    <2>4. CASE FreeStacks # {}
      <3>1. PICK s \in FreeStacks : /\ mUsedStacks' = mUsedStacks \cup {s}
                                    /\ pStackpointer' = [pStackpointer EXCEPT ![cur[c]] = s]
                                    /\ cur' = cur
        BY <1>3, <2>4 DEF GetStack
      <3>2. CoreStack(c)' = s /\ s # Nil /\ s \notin mUsedStacks
        BY <2>0, <3>1, <1>t DEF CoreStack, FreeStacks
      <3>3. \A d \in CPU \ {c} : CoreStack(d)' = CoreStack(d)
        BY <2>0, <2>1, <2>2, <3>1, <1>s, <1>t DEF CoreStack
      <3>4. \A d \in CPU \ {c} : CoreStack(d) # s
        BY <3>2 DEF StacksOK
      <3> QED
        BY <2>1, <2>2, <3>1, <3>2, <3>3, <3>4 DEF StacksOK
    <2> QED
      BY <2>3, <2>4
  <1>4. ASSUME NEW c \in CPU, Dispatch(c)
        PROVE  StacksOK'
    <2>0. /\ pc[c] = "check" /\ pStackPointers[c] = Nil
          /\ mUsedStacks' = mUsedStacks /\ cur' = cur /\ pStackpointer' = pStackpointer
      BY <1>4 DEF Dispatch, StacksOK, OwnStack, taskVars
    <2>1. \A d \in CPU \ {c} : /\ pc'[d] = pc[d] /\ pStackPointers'[d] = pStackPointers[d]
                                /\ CoreStack(d)' = CoreStack(d) /\ OwnStack(d)' = OwnStack(d)
      BY <1>4, <2>0, <1>t DEF Dispatch, Goto, CoreStack, OwnStack
    <2>2. CASE pc'[c] = "running"
      <3>1. CoreStack(c)' = CoreStack(c) /\ ~OwnStack(c)'
        BY <1>4, <2>0, <2>2, <1>t DEF Dispatch, Goto, CoreStack, OwnStack
      <3> QED
        BY <2>0, <2>1, <3>1 DEF StacksOK
    <2>3. CASE pc'[c] # "running"
      <3>1. CoreStack(c)' = Nil /\ pStackPointers'[c] = Nil
        BY <1>4, <2>0, <2>3, <1>t DEF Dispatch, Goto, CoreStack
      <3> QED
        BY <2>0, <2>1, <3>1 DEF StacksOK
    <2> QED
      BY <2>2, <2>3
  <1>5. ASSUME NEW c \in CPU, FinishTask(c)
        PROVE  StacksOK'
    <2>0. /\ cur[c] \in Task /\ pc[c] = "finish" /\ pc' = [pc EXCEPT ![c] = "unlock"]
          /\ UNCHANGED <<cur, mUsedStacks, pStackPointers>>
          /\ pStackpointer' = [pStackpointer EXCEPT ![cur[c]] = Nil]
      BY <1>5, <1>t, <1>l DEF FinishTask, Goto, LoopOK, stackVars
    <2>1. \A d \in CPU : CoreStack(d)' = CoreStack(d) /\ (OwnStack(d)' => OwnStack(d))
      BY <2>0, <1>s, <1>t DEF CoreStack, OwnStack
    <2> QED
      BY <2>0, <2>1 DEF StacksOK
  <1> QED
    BY <1>1, <1>2, <1>3, <1>4, <1>5, StackSteps

(* StackPool and the deferred release in dispatching() never give a core a *)
(* stack on which another core still runs.                                 *)
THEOREM StacksNotShared == Spec => []StackExclusive
  <1>1. Init => StacksOK
    BY DEF Init, StacksOK, CoreStack
  <1>2. IInv /\ StacksOK /\ [Next]_vars => StacksOK'
    BY StacksInductive
  <1>3. StacksOK => StackExclusive
    <2>1. ASSUME StacksOK, NEW c \in CPU, pStackPointers[c] # Nil
          PROVE  CoreStack(c) = pStackPointers[c]
      BY <2>1 DEF StacksOK, CoreStack, OwnStack
    <2> QED
      BY <2>1 DEF StacksOK, StackExclusive
  <1> QED
    BY <1>1, <1>2, <1>3, InvariantHolds, PTL DEF Spec

----------------------------------------------------------------------------
(* Enough stacks *)

(* The loop's consistency check: outside of a task a core has none locked. *)
NoneActive ==
    \A c \in CPU :
        \/ pc[c] \in {"release", "waiting", "lock", "scan", "idle", "stopped", "requeue"}
        \/ pc[c] = "check" /\ cur[c] = Nil
        => pActiveEventTask[c] = Nil

(* No stack leaks: a used one is some core's. *)
StacksReturned == \A s \in mUsedStacks : \E c \in CPU : CoreStack(c) = s

EnoughStacks ==
    IsFiniteSet(CPU) /\ IsFiniteSet(Stack) /\ Cardinality(CPU) <= Cardinality(Stack)

(* A core that is about to take a stack has none, so the others cannot     *)
(* have them all.                                                          *)
LEMMA StackLeft ==
    ASSUME EnoughStacks, TypeOK, StacksOK, StacksReturned, NEW c \in CPU, pc[c] = "stack"
    PROVE  FreeStacks # {}
  <1> SUFFICES ASSUME FreeStacks = {} PROVE FALSE
    OBVIOUS
  <1> DEFINE Others == CPU \ {c}
             f == [d \in Others |-> CoreStack(d)]
             T == {f[d] : d \in Others}
  <1>1. CoreStack(c) = Nil
    BY DEF CoreStack, StacksOK, OwnStack
  <1>2. Stack \subseteq T
    <2>1. ASSUME NEW s \in Stack
          PROVE  s \in T
      <3>1. s \in mUsedStacks /\ s # Nil
        BY ConstantsAssumption DEF FreeStacks, ConstantsAssumption
      <3>2. PICK d \in CPU : CoreStack(d) = s
        BY <3>1 DEF StacksReturned
      <3>3. d \in Others
        BY <1>1, <3>1, <3>2
      <3> QED
        BY <3>2, <3>3
    <2> QED
      BY <2>1
  <1>3. f \in Surjection(Others, T)
    BY DEF Surjection
  <1>4. IsFiniteSet(Others) /\ Cardinality(Others) = Cardinality(CPU) - 1
    BY FS_RemoveElement DEF EnoughStacks
  <1> HIDE DEF f, T, Others
  <1>5. IsFiniteSet(T) /\ Cardinality(T) <= Cardinality(Others)
    BY <1>3, <1>4, FS_Surjection
  <1>6. Cardinality(Stack) <= Cardinality(T)
    BY <1>2, <1>5, FS_Subset
  <1>7. /\ Cardinality(CPU) \in Nat /\ Cardinality(Stack) \in Nat /\ Cardinality(T) \in Nat
        /\ Cardinality(CPU) <= Cardinality(Stack)
    BY <1>5, FS_CardinalityType DEF EnoughStacks
  <1> QED
    BY <1>4, <1>5, <1>6, <1>7

LEMMA StacksReturnedInductive ==
    ASSUME EnoughStacks, IInv, StacksOK, StacksReturned, NeverHung, NoneActive, [Next]_vars
    PROVE  StacksReturned'
  <1>t. /\ pc \in [CPU -> {"release", "waiting", "lock", "scan", "stack", "check",
                           "running", "finish", "unlock", "requeue", "idle",
                           "stopped", "crashed", "hung"}]
        /\ cur \in [CPU -> Task \cup {Nil}]
        /\ pStackPointers \in [CPU -> Stack \cup {Nil}]
        /\ pStackpointer \in [Task -> Stack \cup {Nil}]
        /\ mUsedStacks \subseteq Stack
        /\ Nil \notin Stack \cup Task
    BY ConstantsAssumption DEF IInv, TypeOK, ConstantsAssumption
  <1>l. LoopOK
    BY DEF IInv
  <1>s. \A c, d \in CPU : c # d /\ cur[c] # Nil => cur[c] # cur[d]
    BY DEF IInv, NoTaskShared
  <1>1. CASE StacksKept
    BY <1>1 DEF StacksKept, StacksReturned
  <1>2. ASSUME NEW c \in CPU, ReleaseStack(c)
        PROVE  StacksReturned'
    <2>1. CoreStack(c) = pStackPointers[c] /\ mUsedStacks' = mUsedStacks \ {pStackPointers[c]}
      BY <1>2, <1>t DEF ReleaseStack, Goto, CoreStack, SetStackFree
    <2>2. \A d \in CPU \ {c} : CoreStack(d)' = CoreStack(d)
      BY <1>2, <1>t DEF ReleaseStack, Goto, CoreStack, taskVars
    <2> QED
      BY <2>1, <2>2 DEF StacksReturned
  <1>3. ASSUME NEW c \in CPU, GetStack(c)
        PROVE  StacksReturned'
    <2>0. cur[c] \in Task /\ pc[c] = "stack" /\ pc' = [pc EXCEPT ![c] = "check"]
          /\ pStackPointers' = pStackPointers
      BY <1>3, <1>t, <1>l DEF GetStack, Goto, LoopOK
    <2>1. FreeStacks # {}
      BY <2>0, StackLeft DEF IInv
    <2>2. PICK s \in FreeStacks : /\ mUsedStacks' = mUsedStacks \cup {s}
                                  /\ pStackpointer' = [pStackpointer EXCEPT ![cur[c]] = s]
                                  /\ cur' = cur
      BY <1>3, <2>1 DEF GetStack
    <2>3. CoreStack(c)' = s
      BY <2>0, <2>2, <1>t DEF CoreStack
    <2>4. \A d \in CPU \ {c} : CoreStack(d)' = CoreStack(d)
      BY <2>0, <2>2, <1>s, <1>t DEF CoreStack
    <2>5. CoreStack(c) = Nil
      BY <2>0 DEF CoreStack, StacksOK, OwnStack
    <2> QED
      BY <2>2, <2>3, <2>4, <2>5, <1>t DEF StacksReturned
  <1>4. ASSUME NEW c \in CPU, Dispatch(c)
        PROVE  StacksReturned'
    <2>0. /\ pc[c] = "check" /\ pStackPointers[c] = Nil
          /\ mUsedStacks' = mUsedStacks /\ cur' = cur /\ pStackpointer' = pStackpointer
      BY <1>4 DEF Dispatch, StacksOK, OwnStack, taskVars
    <2>1. cur[c] = pActiveEventTask[c]
      BY <2>0, <1>l DEF LoopOK, NoneActive
    <2>2. \A d \in CPU \ {c} : CoreStack(d)' = CoreStack(d)
      BY <1>4, <2>0, <1>t DEF Dispatch, Goto, CoreStack
    <2>3. CoreStack(c)' = CoreStack(c)
      BY <1>4, <2>0, <2>1, <1>t DEF Dispatch, Goto, CoreStack
    <2> QED
      BY <2>0, <2>2, <2>3 DEF StacksReturned
  <1>5. ASSUME NEW c \in CPU, FinishTask(c)
        PROVE  StacksReturned'
    <2>0. /\ cur[c] \in Task /\ pc[c] = "finish" /\ pc' = [pc EXCEPT ![c] = "unlock"]
          /\ UNCHANGED <<cur, mUsedStacks, pStackPointers>>
          /\ pStackpointer' = [pStackpointer EXCEPT ![cur[c]] = Nil]
      BY <1>5, <1>t, <1>l DEF FinishTask, Goto, LoopOK, stackVars
    <2>1. \A d \in CPU : CoreStack(d)' = CoreStack(d)
      BY <2>0, <1>s, <1>t DEF CoreStack
    <2> QED
      BY <2>0, <2>1 DEF StacksReturned
  <1> QED
    BY <1>1, <1>2, <1>3, <1>4, <1>5, StackSteps

LEMMA HangInductive ==
    ASSUME EnoughStacks, IInv, StacksOK, StacksReturned, NeverHung, NoneActive, [Next]_vars
    PROVE  NeverHung' /\ NoneActive'
  <1> USE DEF vars, poolVars, taskVars, queueVars, eventVars, stackVars, loopVars, emitVars
  <1>t. /\ pc \in [CPU -> {"release", "waiting", "lock", "scan", "stack", "check",
                           "running", "finish", "unlock", "requeue", "idle",
                           "stopped", "crashed", "hung"}]
        /\ cur \in [CPU -> Task \cup {Nil}]
        /\ pActiveEventTask \in [CPU -> Task \cup {Nil}]
        /\ Nil \notin Task
    BY ConstantsAssumption DEF IInv, TypeOK, ConstantsAssumption
  <1>l. LoopOK
    BY DEF IInv
  <1>u. UNCHANGED <<pc, cur, pActiveEventTask>> => NeverHung' /\ NoneActive'
    BY DEF NeverHung, NoneActive
  <1>1. CASE UNCHANGED vars
    BY <1>1, <1>u
  <1>2. ASSUME NEW c \in CPU, Emit(c)
        PROVE  NeverHung' /\ NoneActive'
    BY <1>2, <1>u DEF Emit, GetTask, NoFreeTask, ReadyTask, FinishEmission
  <1>3. ASSUME NEW c \in CPU, NEW e \in InterruptEvent, Interrupt(c, e)
        PROVE  NeverHung' /\ NoneActive'
    BY <1>3, <1>u DEF Interrupt
  <1>4. ASSUME NEW c \in CPU, TriggerFunction(c)
        PROVE  NeverHung' /\ NoneActive'
    <2>1. CASE Trap(c)
      BY <2>1, <1>t DEF Trap, Goto, NeverHung, NoneActive
    <2>2. CASE ~Trap(c)
      BY <1>4, <2>2, <1>u DEF TriggerFunction, TriggerEvent, CallOSCTrigger, SubscribeEvent,
         UnsubscribeEvent, SetOneshotEvent, FireOneshotEvent
    <2> QED
      BY <2>1, <2>2
  <1>5. ASSUME NEW c \in CPU, Loop(c)
        PROVE  NeverHung' /\ NoneActive'
    <2> USE DEF Goto, NeverHung, NoneActive
    <2>1. CASE ReleaseStack(c) \/ StartLoop(c) \/ LockQueue(c) \/ SkipLevel(c) \/ WaitEvent(c)
      BY <2>1, <1>t DEF ReleaseStack, StartLoop, LockQueue, SkipLevel, WaitEvent
    <2>2. CASE EndOfQueue(c)
      BY <2>2, <1>t, <1>l DEF EndOfQueue, LoopOK
    <2>3. CASE TakeTask(c)
      BY <2>3, <1>t DEF TakeTask
    <2>4. CASE GetStack(c)
      <3>1. FreeStacks # {} /\ cur[c] # Nil
        BY <2>4, <1>l, StackLeft DEF GetStack, IInv, LoopOK
      <3>2. cur' = cur /\ pActiveEventTask' = pActiveEventTask /\ pc' = [pc EXCEPT ![c] = "check"]
        BY <2>4, <3>1 DEF GetStack
      <3> QED
        BY <3>1, <3>2, <1>t
    <2>5. CASE Dispatch(c)
      <3>1. cur[c] = pActiveEventTask[c]
        BY <2>5, <1>l DEF Dispatch, LoopOK
      <3> QED
        BY <2>5, <3>1, <1>t DEF Dispatch
    <2>6. CASE Return(c) \/ FinishTask(c) \/ UnlockTask(c)
      BY <2>6, <1>t DEF Return, FinishTask, UnlockTask
    <2>7. CASE RequeueTask(c)
      BY <2>7, <1>t DEF RequeueTask
    <2> QED
      BY <1>5, <2>1, <2>2, <2>3, <2>4, <2>5, <2>6, <2>7 DEF Loop
  <1> QED
    BY <1>1, <1>2, <1>3, <1>4, <1>5 DEF Next

(* With a stack for every core getFreeStack always finds one, so getEvent  *)
(* never enqueues a task whose components it has locked, and "Trying to    *)
(* activate non locked task" in dispatching() never hangs a core.          *)
THEOREM DispatchNeverHangs ==
    ASSUME EnoughStacks
    PROVE  Spec => []NeverHung
  <1>1. Init => StacksOK /\ StacksReturned /\ NeverHung /\ NoneActive
    BY DEF Init, StacksOK, CoreStack, StacksReturned, NeverHung, NoneActive
  <1>2. IInv /\ StacksOK /\ StacksReturned /\ NeverHung /\ NoneActive /\ [Next]_vars
        => (StacksOK /\ StacksReturned /\ NeverHung /\ NoneActive)'
    BY StacksInductive, StacksReturnedInductive, HangInductive
  <1> QED
    BY <1>1, <1>2, InvariantHolds, PTL DEF Spec

----------------------------------------------------------------------------
(* Ready queues *)

(* Inserting e before the first element of lower rank keeps the order. *)
LEMMA InsertAtSorted ==
    ASSUME NEW S, NEW s \in Seq(S), NEW e \in S, NEW i \in 1 .. Len(s) + 1,
           NEW Rank, Rank[e] \in Nat, \A k \in 1 .. Len(s) : Rank[s[k]] \in Nat,
           \A k, l \in 1 .. Len(s) : k < l => Rank[s[k]] >= Rank[s[l]],
           \A k \in 1 .. i - 1 : Rank[s[k]] >= Rank[e],
           i <= Len(s) => Rank[s[i]] < Rank[e]
    PROVE  \A k, l \in 1 .. Len(s) + 1 :
               k < l => Rank[InsertAt(s, i, e)[k]] >= Rank[InsertAt(s, i, e)[l]]
  <1> DEFINE r == InsertAt(s, i, e)
  <1>1. \A k \in 1 .. Len(s) + 1 : r[k] = IF k < i THEN s[k] ELSE IF k = i THEN e ELSE s[k - 1]
    BY InsertAtElements
  <1>2. Len(s) \in Nat /\ i \in Nat
    BY LenProperties
  <1>3. \A k \in i .. Len(s) : Rank[s[k]] < Rank[e]
    <2>1. ASSUME NEW k \in i .. Len(s)
          PROVE  Rank[s[k]] < Rank[e]
      <3>1. i \in 1 .. Len(s) /\ k \in 1 .. Len(s) /\ Rank[s[i]] < Rank[e]
        BY <1>2
      <3>2. k = i \/ i < k
        BY <1>2
      <3>3. Rank[s[i]] >= Rank[s[k]]
        BY <3>1, <3>2
      <3> QED
        BY <3>1, <3>3
    <2> QED
      BY <2>1
  <1> HIDE DEF r
  <1>4. ASSUME NEW k \in 1 .. Len(s) + 1, NEW l \in 1 .. Len(s) + 1, k < l
        PROVE  Rank[r[k]] >= Rank[r[l]]
    <2>1. CASE l < i
      <3>1. k \in 1 .. Len(s) /\ l \in 1 .. Len(s) /\ r[k] = s[k] /\ r[l] = s[l]
        BY <1>1, <1>2, <1>4, <2>1
      <3> QED
        BY <1>4, <3>1
    <2>2. CASE l = i
      <3>1. k \in 1 .. i - 1 /\ r[k] = s[k] /\ r[l] = e
        BY <1>1, <1>2, <1>4, <2>2
      <3> QED
        BY <3>1
    <2>3. CASE l > i
      <3>1. l - 1 \in i .. Len(s) /\ l - 1 \in 1 .. Len(s) /\ r[l] = s[l - 1]
        BY <1>1, <1>2, <2>3
      <3>2. CASE k < i
        <4>1. k \in 1 .. Len(s) /\ k < l - 1 /\ r[k] = s[k]
          BY <1>1, <1>2, <2>3, <3>2
        <4> QED
          BY <3>1, <4>1
      <3>3. CASE k = i
        BY <1>1, <1>3, <3>1, <3>3, SMTT(60)
      <3>4. CASE k > i
        <4>1. k - 1 \in 1 .. Len(s) /\ k - 1 < l - 1 /\ r[k] = s[k - 1]
          BY <1>1, <1>2, <1>4, <3>4
        <4> QED
          BY <3>1, <4>1
      <3> QED
        BY <1>2, <3>2, <3>3, <3>4
    <2> QED
      BY <1>2, <2>1, <2>2, <2>3
  <1> QED
    BY <1>4 DEF r

(* So does removing an element. *)
LEMMA RemoveAtSorted ==
    ASSUME NEW S, NEW s \in Seq(S), NEW i \in 1 .. Len(s), NEW Rank,
           \A k, l \in 1 .. Len(s) : k < l => Rank[s[k]] >= Rank[s[l]]
    PROVE  \A k, l \in 1 .. Len(s) - 1 :
               k < l => Rank[RemoveAt(s, i)[k]] >= Rank[RemoveAt(s, i)[l]]
  <1> DEFINE r == RemoveAt(s, i)
             Old(k) == IF k < i THEN k ELSE k + 1
  <1>1. \A k \in 1 .. Len(s) - 1 : r[k] = s[Old(k)]
    BY RemoveAtElements
  <1>2. Len(s) \in Nat /\ i \in Nat
    BY LenProperties
  <1> HIDE DEF r
  <1>3. ASSUME NEW k \in 1 .. Len(s) - 1, NEW l \in 1 .. Len(s) - 1, k < l
        PROVE  Rank[r[k]] >= Rank[r[l]]
    <2>1. Old(k) \in 1 .. Len(s) /\ Old(l) \in 1 .. Len(s) /\ Old(k) < Old(l)
      BY <1>2, <1>3
    <2> HIDE DEF Old
    <2> QED
      BY <1>1, <2>1
  <1> QED
    BY <1>3 DEF r

(* The rank by which the queues are sorted. *)
Ranks(trg) == [t \in Task |-> Priority[trg[t]]]

SortedBy(Rank, s) == \A k, l \in 1 .. Len(s) : k < l => Rank[s[k]] >= Rank[s[l]]

LEMMA SortedQueues ==
    ASSUME queue \in [Queue -> Seq(Task)]
    PROVE  QueueSorted <=> \A q \in Queue : SortedBy(Ranks(trigger), queue[q])
  <1>1. \A q \in Queue : DOMAIN queue[q] = 1 .. Len(queue[q])
                          /\ \A i \in 1 .. Len(queue[q]) : queue[q][i] \in Task
    BY LenProperties, ElementOfSeq
  <1>2. \A t \in Task : Ranks(trigger)[t] = Priority[trigger[t]]
    BY DEF Ranks
  <1> QED
    BY <1>1, <1>2, SMTT(30) DEF QueueSorted, SortedBy

LEMMA SortedQueuesNext ==
    ASSUME queue' \in [Queue -> Seq(Task)],
           \A q \in Queue : SortedBy(Ranks(trigger'), queue'[q])
    PROVE  QueueSorted'
  <1>1. ASSUME NEW q \in Queue, NEW i \in DOMAIN queue'[q], NEW j \in DOMAIN queue'[q], i < j
        PROVE  Priority[trigger'[queue'[q][i]]] >= Priority[trigger'[queue'[q][j]]]
    <2>1. i \in 1 .. Len(queue'[q]) /\ j \in 1 .. Len(queue'[q])
      BY LenProperties
    <2>2. queue'[q][i] \in Task /\ queue'[q][j] \in Task
      BY <2>1, ElementOfSeq
    <2>3. Ranks(trigger')[queue'[q][i]] >= Ranks(trigger')[queue'[q][j]]
      BY <1>1, <2>1 DEF SortedBy
    <2> QED
      BY <2>2, <2>3 DEF Ranks
  <1> QED
    BY <1>1 DEF QueueSorted

(* The step that enqueues a task that is not queued, with its new trigger. *)
LEMMA EnqueueSorted ==
    ASSUME IInv, QueueSorted, TypeOK', NEW q \in Queue, NEW task \in Task, ~IsQueued(task),
           Enqueue(q, task, trigger'), trigger'[task] \in Trigger,
           \A t \in Task \ {task} : trigger'[t] = trigger[t]
    PROVE  QueueSorted'
  <1> DEFINE Rank == Ranks(trigger')
             s == queue[q]
  <1>t. /\ queue \in [Queue -> Seq(Task)] /\ queue' \in [Queue -> Seq(Task)]
        /\ trigger \in [Task -> Trigger \cup {Nil}]
    BY DEF IInv, TypeOK
  <1>1. PICK i \in 1 .. Len(s) + 1 :
            /\ \A k \in 1 .. i - 1 : Priority[trigger'[s[k]]] >= Priority[trigger'[task]]
            /\ i <= Len(s) => Priority[trigger'[s[i]]] < Priority[trigger'[task]]
            /\ queue' = [queue EXCEPT ![q] = InsertAt(s, i, task)]
    BY DEF Enqueue
  <1>2. \A p \in Queue : \A k \in 1 .. Len(queue[p]) :
            /\ queue[p][k] \in Task \ {task}
            /\ Rank[queue[p][k]] = Ranks(trigger)[queue[p][k]]
            /\ Rank[queue[p][k]] = Priority[trigger'[queue[p][k]]]
            /\ Rank[queue[p][k]] \in Nat
    <2>1. ASSUME NEW p \in Queue, NEW k \in 1 .. Len(queue[p])
          PROVE  /\ queue[p][k] \in Task \ {task}
                 /\ trigger[queue[p][k]] \in Trigger
      <3>1. k \in DOMAIN queue[p] /\ queue[p][k] \in Task
        BY <1>t, LenProperties, ElementOfSeq
      <3>2. IsQueued(queue[p][k])
        BY <3>1 DEF IsQueued
      <3>3. trigger[queue[p][k]] # Nil
        BY <3>1, <3>2 DEF IInv, TasksOK, InUse
      <3> QED
        BY <3>1, <3>2, <3>3, <1>t
    <2> QED
      BY <2>1, ConstantsAssumption DEF Ranks, ConstantsAssumption
  <1>3. Rank[task] = Priority[trigger'[task]] /\ Rank[task] \in Nat
    BY ConstantsAssumption DEF Ranks, ConstantsAssumption
  <1>4. \A p \in Queue : SortedBy(Ranks(trigger), queue[p])
    BY <1>t, SortedQueues
  <1>5. \A p \in Queue : SortedBy(Rank, queue[p])
    BY <1>2, <1>4 DEF SortedBy
  <1>6. s \in Seq(Task) /\ Len(s) \in Nat
    BY <1>t, LenProperties
  <1> HIDE DEF Rank, s
  <1>7. SortedBy(Rank, InsertAt(s, i, task))
    <2>1. /\ \A k \in 1 .. Len(s) : Rank[s[k]] \in Nat
          /\ \A k, l \in 1 .. Len(s) : k < l => Rank[s[k]] >= Rank[s[l]]
      BY <1>2, <1>5 DEF SortedBy, s
    <2>2. /\ \A k \in 1 .. i - 1 : Rank[s[k]] >= Rank[task]
          /\ i <= Len(s) => Rank[s[i]] < Rank[task]
      <3>1. \A k \in 1 .. Len(s) : Rank[s[k]] = Priority[trigger'[s[k]]]
        BY <1>2 DEF s
      <3>2. \A k \in 1 .. i - 1 : k \in 1 .. Len(s)
        BY <1>6
      <3>3. i <= Len(s) => i \in 1 .. Len(s)
        BY <1>6
      <3> QED
        BY <1>1, <1>3, <3>1, <3>2, <3>3
    <2>3. \A k, l \in 1 .. Len(s) + 1 :
              k < l => Rank[InsertAt(s, i, task)[k]] >= Rank[InsertAt(s, i, task)[l]]
      BY <1>3, <1>6, <2>1, <2>2, InsertAtSorted
    <2>4. Len(InsertAt(s, i, task)) = Len(s) + 1
      BY ONLY <1>6, task \in Task, i \in 1 .. Len(s) + 1, InsertAtElements
    <2> QED
      BY <2>3, <2>4 DEF SortedBy
  <1>8. \A p \in Queue : SortedBy(Rank, queue'[p])
    BY <1>1, <1>5, <1>7, <1>t DEF s
  <1> QED
    BY <1>8, <1>t, SortedQueuesNext DEF Rank

(* A step that leaves the queues and the rank of every queued task alone.  *)
QueuesKept ==
    /\ queue' = queue
    /\ \A t \in Task : IsQueued(t) => trigger'[t] = trigger[t]

(* The steps that touch a queue put in a task that is in none, or take one *)
(* out.                                                                    *)
Enqueues ==
    \E q \in Queue, t \in Task :
        /\ ~IsQueued(t)
        /\ Enqueue(q, t, trigger')
        /\ trigger'[t] \in Trigger
        /\ \A u \in Task \ {t} : trigger'[u] = trigger[u]

Dequeues ==
    \E q \in Queue : \E i \in 1 .. Len(queue[q]) : Dequeue(q, i) /\ trigger' = trigger

LEMMA QueueSteps ==
    ASSUME IInv, [Next]_vars
    PROVE  QueuesKept \/ Enqueues \/ Dequeues
  <1> USE DEF vars, poolVars, taskVars, queueVars, eventVars, stackVars, loopVars, emitVars
  <1>t. /\ queue \in [Queue -> Seq(Task)]
        /\ trigger \in [Task -> Trigger \cup {Nil}]
        /\ TypeOK /\ LoopOK /\ TasksOK
    BY DEF IInv, TypeOK
  <1>q. \A t \in Task, c \in CPU : t = cur[c] \/ t = newCon[c] => ~IsQueued(t)
    BY DEF IInv, NoTaskShared, IsHeld
  <1>u. UNCHANGED <<queue, trigger>> => QueuesKept
    BY DEF QueuesKept
  <1>1. CASE UNCHANGED vars
    BY <1>1, <1>u
  <1>2. ASSUME NEW c \in CPU, Emit(c), ~ReadyTask(c)
        PROVE  QueuesKept
    BY <1>2, <1>u DEF Emit, GetTask, NoFreeTask, FinishEmission
  <1>3. ASSUME NEW c \in CPU, NEW e \in InterruptEvent, Interrupt(c, e)
        PROVE  QueuesKept
    BY <1>3, <1>u DEF Interrupt
  <1>4. ASSUME NEW c \in CPU, TriggerFunction(c)
        PROVE  QueuesKept
    BY <1>4, <1>u DEF TriggerFunction, TriggerEvent, CallOSCTrigger, SubscribeEvent,
       UnsubscribeEvent, SetOneshotEvent, FireOneshotEvent, Trap
  <1>5. ASSUME NEW c \in CPU, Loop(c), ~TakeTask(c), ~GetStack(c), ~RequeueTask(c)
        PROVE  QueuesKept
    BY <1>5, <1>u DEF Loop, ReleaseStack, StartLoop, LockQueue, SkipLevel, EndOfQueue,
       Dispatch, WaitEvent, Return, FinishTask, UnlockTask
  <1>6. ASSUME NEW c \in CPU, ReadyTask(c)
        PROVE  Enqueues
    <2> DEFINE t == newCon[c]
               q == Affinity[Head(emit[c].rest)]
    <2>1. /\ t \in Task /\ q \in Queue /\ Head(emit[c].rest) \in Trigger
          /\ Enqueue(q, t, trigger')
          /\ trigger' = [trigger EXCEPT ![t] = Head(emit[c].rest)]
      BY <1>6, <1>t, Enqueued DEF ReadyTask
    <2>2. ~IsQueued(t)
      BY <2>1, <1>q
    <2> HIDE DEF t, q
    <2>3. trigger'[t] \in Trigger /\ \A u \in Task \ {t} : trigger'[u] = trigger[u]
      BY <2>1, <1>t
    <2> QED
      BY <2>1, <2>2, <2>3 DEF Enqueues
  <1>7. ASSUME NEW c \in CPU, TakeTask(c)
        PROVE  Dequeues
    <2>1. scan[c].queue \in Queue /\ scan[c].pos \in Nat \ {0}
      BY <1>t DEF TypeOK
    <2>2. scan[c].pos \in 1 .. Len(queue[scan[c].queue])
      BY <2>1, <1>7, <1>t, LenProperties DEF TakeTask
    <2>3. Dequeue(scan[c].queue, scan[c].pos) /\ trigger' = trigger
      BY <1>7 DEF TakeTask
    <2> QED
      BY <2>1, <2>2, <2>3 DEF Dequeues
  <1>8. ASSUME NEW c \in CPU, GetStack(c)
        PROVE  QueuesKept \/ Enqueues
    <2> DEFINE q == Affinity[trigger[cur[c]]]
    <2>1. /\ trigger' = trigger
          /\ queue' = queue \/ Enqueue(q, cur[c], trigger)
      BY <1>8 DEF GetStack
    <2>2. CASE queue' = queue
      BY <2>1, <2>2, <1>u
    <2>3. CASE Enqueue(q, cur[c], trigger)
      <3>1. cur[c] \in Task /\ q \in Queue /\ trigger[cur[c]] \in Trigger
        BY <1>8, <1>t, Enqueued DEF GetStack
      <3>2. ~IsQueued(cur[c])
        BY <3>1, <1>q, Zenon
      <3>3. Enqueue(q, cur[c], trigger')
        BY <2>1, <2>3, Zenon
      <3> HIDE DEF q
      <3> QED
        BY <2>1, <3>1, <3>2, <3>3 DEF Enqueues
    <2> QED
      BY <2>1, <2>2, <2>3
  <1>9. ASSUME NEW c \in CPU, RequeueTask(c)
        PROVE  QueuesKept
    <2>1. /\ cur[c] \in Task /\ queue' = queue
          /\ trigger' = [trigger EXCEPT ![cur[c]] = Nil]
      BY <1>9, <1>t, Enqueued DEF RequeueTask
    <2>2. ~IsQueued(cur[c])
      BY <2>1, <1>q
    <2>3. \A t \in Task : IsQueued(t) => trigger'[t] = trigger[t]
      BY <2>1, <2>2, <1>t
    <2> QED
      BY <2>1, <2>3 DEF QueuesKept
  <1> QED
    BY <1>1, <1>2, <1>3, <1>4, <1>5, <1>6, <1>7, <1>8, <1>9 DEF Next, Loop

LEMMA SortedInductive ==
    ASSUME IInv, QueueSorted, [Next]_vars
    PROVE  QueueSorted'
  <1>t. queue \in [Queue -> Seq(Task)] /\ trigger \in [Task -> Trigger \cup {Nil}]
    BY DEF IInv, TypeOK
  <1>i. \A q \in Queue : \A k \in DOMAIN queue[q] :
            queue[q][k] \in Task /\ IsQueued(queue[q][k])
    BY <1>t, LenProperties, ElementOfSeq DEF IsQueued
  <1>1. CASE QueuesKept
    <2>1. queue' = queue /\ \A q \in Queue : \A k \in DOMAIN queue[q] :
              trigger'[queue[q][k]] = trigger[queue[q][k]]
      BY <1>1, <1>i DEF QueuesKept
    <2> QED
      BY <2>1 DEF QueueSorted
  <1>2. CASE Enqueues
    <2>1. TypeOK'
      BY TypeInductive DEF IInv
    <2>2. PICK q \in Queue, t \in Task :
              /\ ~IsQueued(t)
              /\ Enqueue(q, t, trigger')
              /\ trigger'[t] \in Trigger
              /\ \A u \in Task \ {t} : trigger'[u] = trigger[u]
      BY <1>2 DEF Enqueues
    <2> QED
      BY <2>1, <2>2, EnqueueSorted
  <1>3. CASE Dequeues
    <2>1. PICK q \in Queue : \E i \in 1 .. Len(queue[q]) : Dequeue(q, i) /\ trigger' = trigger
      BY <1>3 DEF Dequeues
    <2>2. PICK i \in 1 .. Len(queue[q]) :
              queue' = [queue EXCEPT ![q] = RemoveAt(queue[q], i)] /\ trigger' = trigger
      BY <2>1 DEF Dequeue
    <2> DEFINE Rank == Ranks(trigger)
    <2>3. \A p \in Queue : SortedBy(Rank, queue[p])
      BY <1>t, SortedQueues
    <2>4. queue[q] \in Seq(Task)
      BY <1>t
    <2> HIDE DEF Rank
    <2>5. SortedBy(Rank, RemoveAt(queue[q], i))
      <3>1. Len(RemoveAt(queue[q], i)) = Len(queue[q]) - 1
        BY <2>4, RemoveAtElements
      <3>2. \A k, l \in 1 .. Len(queue[q]) : k < l => Rank[queue[q][k]] >= Rank[queue[q][l]]
        BY <2>3 DEF SortedBy
      <3>3. \A k, l \in 1 .. Len(queue[q]) - 1 :
                k < l => Rank[RemoveAt(queue[q], i)[k]] >= Rank[RemoveAt(queue[q], i)[l]]
        BY <2>4, <3>2, RemoveAtSorted
      <3> QED
        BY <3>1, <3>3 DEF SortedBy
    <2>6. \A p \in Queue : SortedBy(Rank, queue'[p])
      BY <2>2, <2>3, <2>5, <1>t
    <2>7. queue' \in [Queue -> Seq(Task)]
      BY <2>2, <2>4, <1>t, RemoveAtElements
    <2>8. \A p \in Queue : SortedBy(Ranks(trigger'), queue'[p])
      BY <2>2, <2>6 DEF Rank
    <2> QED
      BY <2>7, <2>8, SortedQueuesNext
  <1> QED
    BY <1>1, <1>2, <1>3, QueueSteps

(* EventPriorityQueue::enqueue and the removal of a task from the middle   *)
(* of a queue keep every ready queue sorted by priority, also while the    *)
(* task that is enqueued gets the trigger that decides its rank.           *)
THEOREM QueuesSorted == Spec => []QueueSorted
  <1>1. Init => QueueSorted
    BY DEF Init, QueueSorted
  <1>2. IInv /\ QueueSorted /\ [Next]_vars => QueueSorted'
    BY SortedInductive
  <1> QED
    BY <1>1, <1>2, InvariantHolds, PTL DEF Spec

----------------------------------------------------------------------------
(* Order of arrival *)

(* In one queue, no task of the new state gets in front of one of the old. *)
InOrder(q) ==
    \A k, l \in DOMAIN queue'[q] : \A j \in DOMAIN queue[q] :
        k < l /\ queue'[q][l] = queue[q][j] =>
            \/ \E i \in 1 .. j - 1 : queue[q][i] = queue'[q][k]
            \/ /\ \A i \in DOMAIN queue[q] : queue[q][i] # queue'[q][k]
               /\ Priority[trigger'[queue'[q][k]]] > Priority[trigger'[queue'[q][l]]]

LEMMA KeptInOrder ==
    ASSUME IInv, NEW q \in Queue, queue'[q] = queue[q]
    PROVE  InOrder(q)
  <1>1. queue[q] \in Seq(Task) /\ DOMAIN queue[q] = 1 .. Len(queue[q]) /\ Len(queue[q]) \in Nat
    BY LenProperties DEF IInv, TypeOK
  <1>2. ASSUME NEW k \in DOMAIN queue[q], NEW l \in DOMAIN queue[q], NEW j \in DOMAIN queue[q],
               k < l, queue[q][l] = queue[q][j]
        PROVE  \E i \in 1 .. j - 1 : queue[q][i] = queue[q][k]
    <2>1. l = j
      BY <1>2 DEF IInv, NoTaskShared, QueuesDistinct
    <2>2. k \in 1 .. j - 1
      BY <1>1, <1>2, <2>1
    <2> QED
      BY <2>2
  <1> QED
    BY <1>2 DEF InOrder

(* All the tasks behind the one that is put in have a lower priority. *)
LEMMA EnqueueInOrder ==
    ASSUME IInv, QueueSorted, NEW q \in Queue, NEW task \in Task, ~IsQueued(task),
           Enqueue(q, task, trigger'), trigger'[task] \in Trigger,
           \A t \in Task \ {task} : trigger'[t] = trigger[t]
    PROVE  InOrder(q)
  <1> DEFINE s == queue[q]
             Rank(t) == Priority[trigger'[t]]
  <1>t. queue \in [Queue -> Seq(Task)] /\ trigger \in [Task -> Trigger \cup {Nil}]
    BY DEF IInv, TypeOK
  <1>1. PICK i \in 1 .. Len(s) + 1 :
            /\ i <= Len(s) => Rank(s[i]) < Rank(task)
            /\ queue' = [queue EXCEPT ![q] = InsertAt(s, i, task)]
    BY DEF Enqueue
  <1>2. s \in Seq(Task) /\ DOMAIN s = 1 .. Len(s) /\ Len(s) \in Nat /\ i \in Nat
    BY <1>t, LenProperties
  <1>3. \A k \in 1 .. Len(s) : s[k] \in Task /\ s[k] # task /\ Rank(s[k]) = Priority[trigger[s[k]]]
                                /\ Rank(s[k]) \in Nat
    <2>1. ASSUME NEW k \in 1 .. Len(s)
          PROVE  s[k] \in Task /\ s[k] # task /\ trigger[s[k]] \in Trigger
      <3>1. s[k] \in Task /\ IsQueued(s[k])
        BY <1>2, ElementOfSeq DEF IsQueued
      <3>2. trigger[s[k]] # Nil
        BY <3>1 DEF IInv, TasksOK, InUse
      <3> QED
        BY <3>1, <3>2, <1>t
    <2> QED
      BY <2>1, ConstantsAssumption DEF ConstantsAssumption
  <1>4. \A k, l \in 1 .. Len(s) : k < l => Rank(s[k]) >= Rank(s[l])
    BY <1>2, <1>3 DEF QueueSorted
  <1>5. \A k, l \in 1 .. Len(s) : s[k] = s[l] => k = l
    BY <1>2 DEF IInv, NoTaskShared, QueuesDistinct
  <1>6. Rank(task) \in Nat
    BY ConstantsAssumption DEF ConstantsAssumption
  <1> HIDE DEF s, Rank
  <1> DEFINE r == InsertAt(s, i, task)
  <1>7. /\ r \in Seq(Task) /\ Len(r) = Len(s) + 1
        /\ \A k \in 1 .. Len(s) + 1 :
              r[k] = IF k < i THEN s[k] ELSE IF k = i THEN task ELSE s[k - 1]
    BY ONLY <1>2, task \in Task, i \in 1 .. Len(s) + 1, InsertAtElements, SMTT(60)
  <1>8. DOMAIN r = 1 .. Len(s) + 1 /\ queue'[q] = r
    BY <1>1, <1>7, <1>t, LenProperties DEF s
  <1> HIDE DEF r
  <1>9. \A k \in i .. Len(s) : Rank(s[k]) < Rank(task)
    <2>1. ASSUME NEW k \in i .. Len(s)
          PROVE  Rank(s[k]) < Rank(task)
      <3>1. i \in 1 .. Len(s) /\ k \in 1 .. Len(s) /\ Rank(s[i]) < Rank(task)
        BY <1>1, <1>2
      <3>2. k = i \/ i < k
        BY <1>2
      <3>3. Rank(s[i]) \in Nat /\ Rank(s[k]) \in Nat
        BY <1>3, <3>1
      <3>4. k # i => Rank(s[i]) >= Rank(s[k])
        BY <1>4, <3>1, <3>2
      <3> QED
        BY <1>6, <3>1, <3>3, <3>4
    <2> QED
      BY <2>1
  <1>10. ASSUME NEW k \in 1 .. Len(s) + 1, NEW l \in 1 .. Len(s) + 1, NEW j \in 1 .. Len(s),
                k < l, r[l] = s[j]
         PROVE  \/ \E m \in 1 .. j - 1 : s[m] = r[k]
                \/ /\ \A m \in 1 .. Len(s) : s[m] # r[k]
                   /\ Rank(r[k]) > Rank(r[l])
    <2>1. l # i
      BY <1>3, <1>7, <1>10
    <2>2. j = IF l < i THEN l ELSE l - 1
      <3>1. CASE l < i
        BY <1>2, <1>5, <1>7, <1>10, <3>1
      <3>2. CASE l > i
        <4>1. r[l] = s[l - 1] /\ l - 1 \in 1 .. Len(s)
          BY <1>2, <1>7, <3>2
        <4>2. s[l - 1] = s[j]
          BY <1>10, <4>1
        <4>3. l - 1 = j
          BY ONLY <1>5, <4>1, <4>2, j \in 1 .. Len(s)
        <4> QED
          BY <1>2, <3>2, <4>3
      <3> QED
        BY <1>2, <2>1, <3>1, <3>2
    <2>3. CASE k < i
      <3>1. r[k] = s[k] /\ k \in 1 .. j - 1
        BY <1>2, <1>7, <1>10, <2>1, <2>2, <2>3
      <3> QED
        BY <3>1
    <2>4. CASE k > i
      <3>1. r[k] = s[k - 1] /\ k - 1 \in 1 .. j - 1
        BY <1>2, <1>7, <1>10, <2>1, <2>2, <2>4
      <3> QED
        BY <3>1
    <2>5. CASE k = i
      <3>1. r[k] = task /\ j \in i .. Len(s)
        BY <1>2, <1>7, <1>10, <2>2, <2>5
      <3>2. Rank(r[l]) < Rank(task)
        BY <1>9, <1>10, <3>1
      <3>3. Rank(r[l]) \in Nat
        BY <1>3, <1>10
      <3> QED
        BY <1>3, <1>6, <3>1, <3>2, <3>3
    <2> QED
      BY <1>2, <2>3, <2>4, <2>5
  <1> QED
    BY <1>2, <1>8, <1>10, ZenonT(60) DEF InOrder, s, Rank

LEMMA DequeueInOrder ==
    ASSUME IInv, NEW q \in Queue, NEW i \in 1 .. Len(queue[q]), Dequeue(q, i)
    PROVE  InOrder(q)
  <1> DEFINE s == queue[q]
             r == RemoveAt(s, i)
             Old(k) == IF k < i THEN k ELSE k + 1
  <1>t. queue \in [Queue -> Seq(Task)]
    BY DEF IInv, TypeOK
  <1>1. s \in Seq(Task) /\ DOMAIN s = 1 .. Len(s) /\ Len(s) \in Nat /\ i \in Nat
    BY <1>t, LenProperties
  <1>2. r \in Seq(Task) /\ Len(r) = Len(s) - 1 /\ \A k \in 1 .. Len(s) - 1 : r[k] = s[Old(k)]
    BY <1>1, RemoveAtElements
  <1>3. DOMAIN r = 1 .. Len(s) - 1 /\ queue'[q] = r
    BY <1>2, <1>t, LenProperties DEF Dequeue
  <1>4. \A k, l \in 1 .. Len(s) : s[k] = s[l] => k = l
    BY <1>1 DEF IInv, NoTaskShared, QueuesDistinct
  <1> HIDE DEF s, r
  <1>5. ASSUME NEW k \in 1 .. Len(s) - 1, NEW l \in 1 .. Len(s) - 1, NEW j \in 1 .. Len(s),
               k < l, r[l] = s[j]
        PROVE  \E m \in 1 .. j - 1 : s[m] = r[k]
    <2>1. Old(k) \in 1 .. Len(s) /\ Old(l) \in 1 .. Len(s) /\ Old(k) < Old(l)
      BY <1>1, <1>5
    <2> HIDE DEF Old
    <2>2. r[k] = s[Old(k)] /\ Old(l) = j
      BY <1>2, <1>4, <1>5, <2>1
    <2>3. Old(k) \in 1 .. j - 1
      BY <1>1, <2>1, <2>2
    <2> QED
      BY <2>2, <2>3
  <1> QED
    BY <1>1, <1>3, <1>5 DEF InOrder, s

(* Tasks of one priority are served in the order of their arrival: a step  *)
(* never puts a task in front of one that waits already, except for a      *)
(* higher priority, whichever cores enqueue and take tasks.                *)
THEOREM ServedInOrder == Spec => NoOvertaking
  <1>1. ASSUME IInv, QueueSorted, [Next]_vars, NEW q \in Queue
        PROVE  InOrder(q)
    <2>t. queue \in [Queue -> Seq(Task)]
      BY <1>1 DEF IInv, TypeOK
    <2>1. CASE QueuesKept
      BY <1>1, <2>1, KeptInOrder DEF QueuesKept
    <2>2. CASE Enqueues
      <3>1. PICK p \in Queue, t \in Task :
                /\ ~IsQueued(t)
                /\ Enqueue(p, t, trigger')
                /\ trigger'[t] \in Trigger
                /\ \A u \in Task \ {t} : trigger'[u] = trigger[u]
        BY <2>2 DEF Enqueues
      <3>2. CASE p = q
        BY <1>1, <3>1, <3>2, EnqueueInOrder
      <3>3. CASE p # q
        <4>1. queue'[q] = queue[q]
          BY <2>t, <3>1, <3>3, EnqueueInserts
        <4> QED
          BY <1>1, <4>1, KeptInOrder
      <3> QED
        BY <3>2, <3>3
    <2>3. CASE Dequeues
      <3>1. PICK p \in Queue : \E i \in 1 .. Len(queue[p]) : Dequeue(p, i)
        BY <2>3 DEF Dequeues
      <3>2. PICK i \in 1 .. Len(queue[p]) : Dequeue(p, i)
        BY <3>1
      <3>3. CASE p = q
        BY <1>1, <3>2, <3>3, DequeueInOrder
      <3>4. CASE p # q
        <4>1. queue'[q] = queue[q]
          BY <2>t, <3>2, <3>4 DEF Dequeue
        <4> QED
          BY <1>1, <4>1, KeptInOrder
      <3> QED
        BY <3>3, <3>4
    <2> QED
      BY <1>1, <2>1, <2>2, <2>3, QueueSteps
  <1>2. IInv /\ QueueSorted /\ [Next]_vars =>
            [\A q \in Queue : \A k, l \in DOMAIN queue'[q] : \A j \in DOMAIN queue[q] :
                k < l /\ queue'[q][l] = queue[q][j] =>
                    \/ \E i \in 1 .. j - 1 : queue[q][i] = queue'[q][k]
                    \/ /\ \A i \in DOMAIN queue[q] : queue[q][i] # queue'[q][k]
                       /\ Priority[trigger'[queue'[q][k]]] > Priority[trigger'[queue'[q][l]]]]_vars
    BY <1>1 DEF InOrder
  <1> QED
    BY <1>2, InvariantHolds, QueuesSorted, PTL DEF Spec, NoOvertaking
=============================================================================
