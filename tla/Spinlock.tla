------------------------------ MODULE Spinlock ------------------------------
(***************************************************************************)
(* Spinlock: the ticket lock under every queue, pool and list of CyPhOS.   *)
(* Each atomic instruction is a step.                                      *)
(***************************************************************************)
EXTENDS Integers, FiniteSets

CONSTANTS
    Process,  \* the cores, at most Modulus of them
    Modulus,  \* available and active are unsigned integers of this range
    Nil

VARIABLES available, active,
          myTicket, pc     \* of each core

vars == <<available, active, myTicket, pc>>

TypeOK ==
    /\ available \in 0 .. Modulus - 1
    /\ active \in 0 .. Modulus - 1
    /\ myTicket \in [Process -> 0 .. Modulus - 1]
    /\ pc \in [Process -> {"outside", "lock", "holds"}]

Init ==
    /\ available = 0 /\ active = 0
    /\ myTicket = [p \in Process |-> 0]
    /\ pc = [p \in Process |-> "outside"]

Goto(p, label) == pc' = [pc EXCEPT ![p] = label]

(* Faulty variant, to check the properties. *)
ServedFrom(p) == myTicket[p] <= active

(* Unsigned increment. *)
Increment(n) == (n + 1) % Modulus

(* __atomic_fetch_add(&available, 1) *)
FetchTicket(p) ==
    /\ myTicket' = [myTicket EXCEPT ![p] = available]
    /\ available' = Increment(available)

(* __atomic_load_n(&active) == myTicket *)
Served(p) == active = myTicket[p]

Lock(p) ==
    /\ pc[p] = "outside"
    /\ FetchTicket(p)
    /\ Goto(p, "lock")
    /\ UNCHANGED active

Enter(p) ==
    /\ pc[p] = "lock"
    /\ Served(p)
    /\ Goto(p, "holds")
    /\ UNCHANGED <<available, active, myTicket>>

Unlock(p) ==
    /\ pc[p] = "holds"
    /\ active' = Increment(active)
    /\ Goto(p, "outside")
    /\ UNCHANGED <<available, myTicket>>

Next ==
    \E p \in Process :
        Lock(p) \/ Enter(p) \/ Unlock(p)

Spec == Init /\ [][Next]_vars

----------------------------------------------------------------------------
(* Who uses lock and unlock only has a first-come first-served lock: the   *)
(* cores that wait are ordered by their distance to active.                *)
Distance(p) == (myTicket[p] - active) % Modulus
Holders == {p \in Process : pc[p] = "holds"}
Waiters == {p \in Process : pc[p] = "lock"}

Fair == INSTANCE FairLock WITH
    holder <- IF Holders = {} THEN Nil ELSE CHOOSE p \in Holders : TRUE,
    waiting <- [i \in 1 .. Cardinality(Waiters) |->
                   CHOOSE p \in Waiters :
                       Cardinality({q \in Waiters : Distance(q) < Distance(p)}) = i - 1]
ImplementsFairLock == Fair!Spec
=============================================================================
