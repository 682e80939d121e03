------------------------- MODULE EventPriorityQueue -------------------------
(***************************************************************************)
(* EventPriorityQueue: the ready queue of the priority schedulers, a Queue *)
(* of tasks kept in the order of their triggers' priorities.  A call holds *)
(* the queue's spinlock; what tryTaskLock answers for each task during one *)
(* scan is a parameter of that scan (module EventHandler has the scan step *)
(* by step, with the other cores running).  It is a Queue itself: its      *)
(* users see a Queue's enqueueBefore, enqueue and remove.                  *)
(***************************************************************************)
EXTENDS Queue

CONSTANT PriorityLevel

ASSUME PriorityAssumption == PriorityLevel \subseteq Nat

VARIABLES sorted,     \* the object is an EventPriorityQueue (fixed)
          pPriority   \* the priority of the trigger of each queued task

vars == <<queueVars, sorted, pPriority>>

Init == QueueInit /\ sorted \in BOOLEAN /\ pPriority = [e \in Element |-> Nil]

(* enqueue stops at the first task of lower priority ... *)
Lower(p) == {i \in 1 .. pSize : pPriority[Elements[i]] < p}

(* ... and links the new one before it, or at the end. *)
Enqueue(e, p) ==
    /\ ~Listed(e)
    /\ pPriority' = [pPriority EXCEPT ![e] = p]
    /\ IF Lower(p) = {} THEN LinkLast(e) /\ ret' = <<"enqueue", e>>
       ELSE LET i == CHOOSE i \in Lower(p) : \A j \in Lower(p) : i <= j
            IN  LinkBefore(e, Elements[i]) /\ ret' = <<"enqueueBefore", e>>
    /\ UNCHANGED sorted

(* The positions at which dequeueHighestPriority calls tryTaskLock if all  *)
(* calls fail: after a failure it skips the rest of the priority level.    *)
Tried == {i \in 1 .. pSize : i = 1 \/ pPriority[Elements[i - 1]] # pPriority[Elements[i]]}

DequeueHighestPriority(free) ==
    LET candidates == {i \in Tried : Elements[i] \in free}
    IN  IF candidates = {}
        THEN ret' = <<"dequeue", Nil>> /\ UNCHANGED <<linkVars, pPriority, sorted>>
        ELSE LET e == Elements[CHOOSE i \in candidates : \A j \in candidates : i <= j]
             IN  /\ ret' = <<"remove", e>>
                 /\ Unlink(e)
                 /\ pPriority' = [pPriority EXCEPT ![e] = Nil]
                 /\ UNCHANGED sorted

PriorityNext ==
    \/ \E e \in Element, p \in PriorityLevel : Enqueue(e, p)
    \/ \E free \in SUBSET Element : DequeueHighestPriority(free)

Next == \/ sorted /\ PriorityNext
        \/ ~sorted /\ QueueNext /\ UNCHANGED <<sorted, pPriority>>

----------------------------------------------------------------------------
(* Tasks of one priority leave in the order of their arrival, whatever the *)
(* scans found locked: no later task is linked in front of one that waits, *)
(* and none is taken while an older one of its priority waits.             *)
FirstComeFirstServed ==
    [][sorted => LET list == Elements
                     after == Elements'
       IN  /\ \A i, j \in 1 .. pSize' :
                 /\ i < j
                 /\ pPriority'[after[i]] = pPriority'[after[j]]
                 /\ Contains(list, after[j])
                 => \E k, l \in 1 .. pSize : k < l /\ list[k] = after[i] /\ list[l] = after[j]
           /\ \A i, j \in 1 .. pSize :
                 i < j /\ ret' = <<"remove", list[j]>> =>
                     pPriority[list[i]] > pPriority[list[j]]]_vars

(* The first task of the highest level is taken whenever it is free, and   *)
(* no scan comes back empty while the first task of some level is free.    *)
HighestLevelFirst ==
    [][\A free \in SUBSET Element : sorted /\ DequeueHighestPriority(free) =>
          \A i \in 1 .. pSize :
              /\ Elements[i] \in free
              /\ \A j \in 1 .. i - 1 : pPriority[Elements[j]] > pPriority[Elements[i]]
              => /\ ret'[2] # Nil
                 /\ pPriority[ret'[2]] >= pPriority[Elements[i]]]_vars
============================================================================
