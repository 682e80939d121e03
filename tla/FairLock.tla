------------------------------ MODULE FairLock ------------------------------
(* What a spinlock promises: it has at most one holder, and those who wait *)
(* get it in the order in which they asked.                                *)
EXTENDS Sequences

CONSTANTS Process, Nil
VARIABLES holder, waiting

vars == <<holder, waiting>>

Init == holder = Nil /\ waiting = <<>>

Request(p) ==
    /\ p # holder
    /\ \A i \in DOMAIN waiting : waiting[i] # p
    /\ waiting' = Append(waiting, p)
    /\ UNCHANGED holder

Acquire ==
    /\ holder = Nil /\ waiting # <<>>
    /\ holder' = Head(waiting)
    /\ waiting' = Tail(waiting)

Release == holder # Nil /\ holder' = Nil /\ UNCHANGED waiting

Next == (\E p \in Process : Request(p)) \/ Acquire \/ Release

Spec == Init /\ [][Next]_vars
=============================================================================
