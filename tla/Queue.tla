------------------------------- MODULE Queue --------------------------------
(***************************************************************************)
(* Queue<Objtype>: the intrusive doubly linked list under every queue and  *)
(* pool of CyPhOS.  An element carries its own links, so it can be in one  *)
(* list at a time.  Callers hold a spinlock around each operation, which   *)
(* is therefore one step.                                                  *)
(***************************************************************************)
EXTENDS Integers, FiniteSets, SequencesExt

CONSTANTS Element, Nil

ASSUME NilAssumption == Nil \notin Element

VARIABLES pHead, pTail, pSize,   \* the list
          pNext, pPrevious,      \* the links in the elements
          ret                    \* the last call: its name and the element that
                                 \*   it was given or returned

linkVars == <<pHead, pTail, pSize, pNext, pPrevious>>
queueVars == <<linkVars, ret>>

(* The list as its users see it: the elements on the way along pNext.      *)
Elements ==
    LET path[i \in 1 .. pSize] ==
            IF i = 1 THEN pHead ELSE IF path[i - 1] = Nil THEN Nil ELSE pNext[path[i - 1]]
    IN  [i \in 1 .. pSize |-> path[i]]

Listed(e) == Contains(Elements, e)

QueueInit ==
    /\ pHead = Nil /\ pTail = Nil /\ pSize = 0
    /\ pNext = [e \in Element |-> Nil]
    /\ pPrevious = [e \in Element |-> Nil]
    /\ ret = <<"constructor", Nil>>

----------------------------------------------------------------------------
(* Faulty variants of the next operations, to check the properties.    *)
LinkedAfterOnly(e, before) ==
    /\ pHead' = IF pPrevious[before] = Nil THEN e ELSE pHead
    /\ pNext' = [x \in Element |->
           IF x = e THEN before ELSE IF x = pPrevious[before] THEN e ELSE pNext[x]]
    /\ pPrevious' = [pPrevious EXCEPT ![e] = pPrevious[before]]
    /\ pSize' = pSize + 1
    /\ UNCHANGED pTail

UnlinkedInside(e) ==
    /\ pHead' = IF pHead = e THEN pNext[e] ELSE pHead
    /\ pNext' = [x \in Element |->
           IF x = e THEN Nil ELSE IF x = pPrevious[e] THEN pNext[e] ELSE pNext[x]]
    /\ pPrevious' = [x \in Element |->
           IF x = e THEN Nil ELSE IF x = pNext[e] THEN pPrevious[e] ELSE pPrevious[x]]
    /\ pSize' = pSize - 1
    /\ UNCHANGED pTail

(* enqueue, enqueueFast: at the end.  (enqueue walks the list and returns  *)
(* if the element is in it; enqueueFast is called for others only.)        *)
LinkLast(e) ==
    /\ pHead' = IF pHead = Nil /\ pTail = Nil THEN e ELSE pHead
    /\ pTail' = e
    /\ pNext' = [x \in Element |-> IF x = e THEN Nil ELSE IF x = pTail THEN e ELSE pNext[x]]
    /\ pPrevious' = [pPrevious EXCEPT ![e] = pTail]
    /\ pSize' = pSize + 1

(* enqueueBefore *)
LinkBefore(e, before) ==
    /\ pHead' = IF pPrevious[before] = Nil THEN e ELSE pHead
    /\ pNext' = [x \in Element |->
           IF x = e THEN before ELSE IF x = pPrevious[before] THEN e ELSE pNext[x]]
    /\ pPrevious' = [pPrevious EXCEPT ![e] = pPrevious[before], ![before] = e]
    /\ pSize' = pSize + 1
    /\ UNCHANGED pTail

(* removeElementFromList *)
Unlink(e) ==
    /\ pHead' = IF pHead = e THEN pNext[e] ELSE pHead
    /\ pTail' = IF pTail = e THEN pPrevious[e] ELSE pTail
    /\ pNext' = [x \in Element |->
           IF x = e THEN Nil ELSE IF x = pPrevious[e] THEN pNext[e] ELSE pNext[x]]
    /\ pPrevious' = [x \in Element |->
           IF x = e THEN Nil ELSE IF x = pNext[e] THEN pPrevious[e] ELSE pPrevious[x]]
    /\ pSize' = pSize - 1

(* enqueue and enqueueFast of an element that is in no list *)
EnqueueNew(e) == ~Listed(e) /\ LinkLast(e) /\ ret' = <<"enqueue", e>>

(* enqueue of an element that is in the list already *)
EnqueueAgain(e) == Listed(e) /\ ret' = <<"enqueue", e>> /\ UNCHANGED linkVars

EnqueueBefore(e, before) ==
    /\ ~Listed(e) /\ Listed(before)
    /\ LinkBefore(e, before)
    /\ ret' = <<"enqueueBefore", e>>

DequeueFirst ==
    /\ ret' = <<"dequeueFirst", pHead>>
    /\ IF pHead = Nil THEN UNCHANGED linkVars
       ELSE IF pHead = pTail
       THEN /\ pHead' = Nil /\ pTail' = Nil /\ pSize' = pSize - 1
            /\ pNext' = [pNext EXCEPT ![pHead] = Nil]
            /\ pPrevious' = [pPrevious EXCEPT ![pHead] = Nil]
       ELSE /\ pHead' = pNext[pHead] /\ pSize' = pSize - 1
            /\ pNext' = [pNext EXCEPT ![pHead] = Nil]
            /\ pPrevious' = [pPrevious EXCEPT ![pHead] = Nil, ![pNext[pHead]] = Nil]
            /\ UNCHANGED pTail

(* dequeue(pos), which counts from 0 *)
DequeueAt(pos) ==
    IF pos >= pSize THEN ret' = <<"dequeue", Nil>> /\ UNCHANGED linkVars
    ELSE LET e == Elements[pos + 1] IN ret' = <<"dequeue", e>> /\ Unlink(e)

RemoveElement(e) ==
    /\ ret' = <<"remove", e>>
    /\ IF Listed(e) THEN Unlink(e) ELSE UNCHANGED linkVars

(* clearList dequeues the first element until there is none. *)
ClearList ==
    /\ pHead' = Nil /\ pTail' = Nil /\ pSize' = 0
    /\ pNext' = [e \in Element |-> IF Listed(e) THEN Nil ELSE pNext[e]]
    /\ pPrevious' = [e \in Element |-> IF Listed(e) THEN Nil ELSE pPrevious[e]]
    /\ ret' = <<"clearList", Nil>>

QueueNext ==
    \/ \E e \in Element : EnqueueNew(e) \/ EnqueueAgain(e) \/ RemoveElement(e)
    \/ \E e, before \in Element : EnqueueBefore(e, before)
    \/ \E pos \in 0 .. Cardinality(Element) : DequeueAt(pos)
    \/ DequeueFirst
    \/ ClearList

----------------------------------------------------------------------------
(* The links agree after any sequence of operations: pPrevious reverses    *)
(* pNext, the tail is the last element that a walk from the head reaches,  *)
(* and an element that is in no list has no links, so that getNext() of a  *)
(* removed element ends a walk.                                            *)
LinksAgree ==
    LET list == Elements
    IN  /\ \A i \in 1 .. pSize : list[i] # Nil
        /\ IF pSize = 0 THEN pHead = Nil /\ pTail = Nil
           ELSE pTail = list[pSize] /\ pNext[pTail] = Nil /\ pPrevious[pHead] = Nil
        /\ \A i \in 2 .. pSize : pPrevious[list[i]] = list[i - 1]
        /\ \A e \in Element : ~Listed(e) => pNext[e] = Nil /\ pPrevious[e] = Nil

(* The list behaves as the sequence its users take it for. *)
Sequence == INSTANCE List WITH list <- Elements
ImplementsList == Sequence!Spec
============================================================================
