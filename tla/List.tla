-------------------------------- MODULE List --------------------------------
(* What Queue<Objtype> promises: a sequence without duplicates.  Its users *)
(* enqueue at the end or before an element, and take from the front, from  *)
(* a position, or a given element.                                         *)
EXTENDS Integers, SequencesExt

CONSTANTS Element, Nil
VARIABLES list, ret

vars == <<list, ret>>

Init == list = <<>> /\ ret = <<"constructor", Nil>>

Enqueue(e) ==
    /\ list' = IF Contains(list, e) THEN list ELSE Append(list, e)
    /\ ret' = <<"enqueue", e>>

EnqueueBefore(e, before) ==
    /\ ~Contains(list, e)
    /\ \E i \in DOMAIN list : list[i] = before /\ list' = InsertAt(list, i, e)
    /\ ret' = <<"enqueueBefore", e>>

DequeueFirst ==
    IF list = <<>> THEN ret' = <<"dequeueFirst", Nil>> /\ UNCHANGED list
    ELSE ret' = <<"dequeueFirst", Head(list)>> /\ list' = Tail(list)

DequeueAt(pos) == ret' = <<"dequeue", list[pos]>> /\ list' = RemoveAt(list, pos)

DequeueBehindEnd == ret' = <<"dequeue", Nil>> /\ UNCHANGED list

RemoveElement(e) ==
    /\ IF Contains(list, e)
       THEN \E i \in DOMAIN list : list[i] = e /\ list' = RemoveAt(list, i)
       ELSE UNCHANGED list
    /\ ret' = <<"remove", e>>

Clear == list' = <<>> /\ ret' = <<"clearList", Nil>>

Next ==
    \/ \E e \in Element : Enqueue(e) \/ RemoveElement(e)
    \/ \E e, before \in Element : EnqueueBefore(e, before)
    \/ \E pos \in DOMAIN list : DequeueAt(pos)
    \/ DequeueFirst \/ DequeueBehindEnd \/ Clear

Spec == Init /\ [][Next]_vars
============================================================================
