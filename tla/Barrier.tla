------------------------------- MODULE Barrier -------------------------------
(***************************************************************************)
(* Barrier: all threads wait until each has arrived; the same object       *)
(* serves round after round.  It composes two spinlocks: a step that takes *)
(* or frees one is a step of module Spinlock as well, with its tickets.    *)
(***************************************************************************)
EXTENDS Integers, FiniteSets

CONSTANTS Thread, Nil,
          Modulus  \* range of the tickets

ASSUME BarrierAssumption ==
    /\ IsFiniteSet(Thread) /\ Thread # {} /\ Nil \notin Thread
    /\ Modulus \in Nat /\ Cardinality(Thread) <= Modulus

mSize == Cardinality(Thread)

(* Rounds are counted modulo this, to bound them. *)
Rounds == 4

VARIABLES
    mNotReady, mWaiting,
    readyAvailable, readyActive, readyTicket,       \* mReadyLock
    waitingAvailable, waitingActive, waitingTicket, \* mWaitingLock
    pc,
    entered, returned           \* calls of await and returns from it, by thread

readyVars == <<readyAvailable, readyActive, readyTicket>>
waitingVars == <<waitingAvailable, waitingActive, waitingTicket>>
countVars == <<mNotReady, mWaiting>>
roundVars == <<entered, returned>>
vars == <<countVars, readyVars, waitingVars, pc, roundVars>>

(* Where a thread is with regard to a lock for which it waits and that it  *)
(* holds at these labels.                                                  *)
At(waits, holds) == [t \in Thread |-> IF pc[t] \in waits THEN "lock"
                                     ELSE IF pc[t] \in holds THEN "holds" ELSE "outside"]

ReadyHeld ==
    {"count", "last", "reset", "announce", "announceLock", "announced", "unlock"}

Ready == INSTANCE Spinlock WITH
    Process <- Thread,
    available <- readyAvailable, active <- readyActive, myTicket <- readyTicket,
    pc <- At({"readyLock"}, ReadyHeld)

Waiting == INSTANCE Spinlock WITH
    Process <- Thread,
    available <- waitingAvailable, active <- waitingActive, myTicket <- waitingTicket,
    pc <- At({"announceLock", "leaveLock"}, {"announced", "left"})

TypeOK ==
    /\ mNotReady \in 0 .. mSize
    /\ mWaiting \in 0 .. mSize
    /\ Ready!TypeOK /\ Waiting!TypeOK
    /\ pc \in [Thread -> {"outside", "ready", "readyLock", "count", "last", "reset",
                          "announce", "announceLock", "announced", "unlock", "spin",
                          "leave", "leaveLock", "left", "return"}]
    /\ entered \in [Thread -> 0 .. Rounds - 1]
    /\ returned \in [Thread -> 0 .. Rounds - 1]

Init ==
    /\ mNotReady = mSize
    /\ mWaiting = 0
    /\ pc = [t \in Thread |-> "outside"]
    /\ Ready!Init /\ Waiting!Init
    /\ entered = [t \in Thread |-> 0]
    /\ returned = [t \in Thread |-> 0]

Goto(t, label) == pc' = [pc EXCEPT ![t] = label]
Count(f, t) == [f EXCEPT ![t] = (@ + 1) % Rounds]

Await(t) ==
    /\ pc[t] = "outside"
    /\ entered' = Count(entered, t)
    /\ Goto(t, "ready")
    /\ UNCHANGED <<countVars, readyVars, waitingVars, returned>>

(* mReadyLock.lock(): a ticket is drawn, then served. *)
LockReady(t) ==
    /\ pc[t] = "ready"
    /\ Goto(t, "readyLock")
    /\ Ready!Lock(t)
    /\ UNCHANGED <<countVars, waitingVars, roundVars>>

EnterReady(t) ==
    /\ pc[t] = "readyLock"
    /\ Goto(t, "count")
    /\ Ready!Enter(t)
    /\ UNCHANGED <<countVars, waitingVars, roundVars>>

(* val = mNotReady--; the last one to arrive keeps the lock.               *)
CountDown(t) ==
    /\ pc[t] = "count"
    /\ mNotReady' = mNotReady - 1
    /\ Goto(t, IF mNotReady = 1 THEN "last" ELSE "announce")
    /\ UNCHANGED <<mWaiting, readyVars, waitingVars, roundVars>>

(* Faulty variants of what follows, to check the properties. *)

NothingLeft == mNotReady <= 1

ResetToNext == mNotReady' = mSize + 1

(* while (mWaiting > 0) {} *)
WaitersGone(t) ==
    /\ pc[t] = "last" /\ mWaiting = 0
    /\ Goto(t, "reset")
    /\ UNCHANGED <<countVars, readyVars, waitingVars, roundVars>>

SetNotReady == mNotReady' = mSize

Reset(t) ==
    /\ pc[t] = "reset"
    /\ SetNotReady
    /\ Goto(t, "return")
    /\ Ready!Unlock(t)
    /\ UNCHANGED <<mWaiting, waitingVars, roundVars>>

(* mWaiting++ under its lock *)
LockWaiting(t) ==
    /\ pc[t] = "announce"
    /\ Goto(t, "announceLock")
    /\ Waiting!Lock(t)
    /\ UNCHANGED <<countVars, readyVars, roundVars>>

EnterWaiting(t) ==
    /\ pc[t] = "announceLock"
    /\ Goto(t, "announced")
    /\ Waiting!Enter(t)
    /\ UNCHANGED <<countVars, readyVars, roundVars>>

Announce(t) ==
    /\ pc[t] = "announced"
    /\ mWaiting' = mWaiting + 1
    /\ Goto(t, "unlock")
    /\ Waiting!Unlock(t)
    /\ UNCHANGED <<mNotReady, readyVars, roundVars>>

UnlockReady(t) ==
    /\ pc[t] = "unlock"
    /\ Goto(t, "spin")
    /\ Ready!Unlock(t)
    /\ UNCHANGED <<countVars, waitingVars, roundVars>>

(* while (mNotReady > 0) {} *)
AllReady == mNotReady = 0

Spin(t) ==
    /\ pc[t] = "spin" /\ AllReady
    /\ Goto(t, "leave")
    /\ UNCHANGED <<countVars, readyVars, waitingVars, roundVars>>

(* It is a busy wait: a thread that sees nothing new goes on looking.      *)
SpinAgain(t) == pc[t] = "spin" /\ ~AllReady /\ UNCHANGED vars

(* mWaiting-- under its lock *)
LockLeaving(t) ==
    /\ pc[t] = "leave"
    /\ Goto(t, "leaveLock")
    /\ Waiting!Lock(t)
    /\ UNCHANGED <<countVars, readyVars, roundVars>>

EnterLeaving(t) ==
    /\ pc[t] = "leaveLock"
    /\ Goto(t, "left")
    /\ Waiting!Enter(t)
    /\ UNCHANGED <<countVars, readyVars, roundVars>>

Leave(t) ==
    /\ pc[t] = "left"
    /\ mWaiting' = mWaiting - 1
    /\ Goto(t, "return")
    /\ Waiting!Unlock(t)
    /\ UNCHANGED <<mNotReady, readyVars, roundVars>>

Return(t) ==
    /\ pc[t] = "return"
    /\ returned' = Count(returned, t)
    /\ Goto(t, "outside")
    /\ UNCHANGED <<countVars, readyVars, waitingVars, entered>>

Step(t) ==
    \/ LockReady(t) \/ EnterReady(t) \/ CountDown(t) \/ WaitersGone(t) \/ Reset(t)
    \/ LockWaiting(t) \/ EnterWaiting(t) \/ Announce(t) \/ UnlockReady(t) \/ Spin(t)
    \/ SpinAgain(t) \/ LockLeaving(t) \/ EnterLeaving(t) \/ Leave(t) \/ Return(t)

Next == \E t \in Thread : Await(t) \/ Step(t)

Spec == Init /\ [][Next]_vars

(* The threads keep executing and each keeps coming back to the barrier.   *)
FairSpec == Spec /\ \A t \in Thread : WF_vars(Await(t)) /\ WF_vars(Step(t))

----------------------------------------------------------------------------
(* No thread returns from its k-th await before every other thread has     *)
(* entered its k-th, and none enters its (k+2)nd before every other has    *)
(* returned from its k-th, however the threads of one round overtake those *)
(* that leave the round before late.                                       *)
Synchronised ==
    \A t, u \in Thread : (entered[u] - returned[t]) % Rounds \in {0, 1, 2}

(* Both spinlocks are first-come first-served locks with one holder, and   *)
(* stay so when the tickets wrap around.                                   *)
ImplementsFairLock == Ready!ImplementsFairLock /\ Waiting!ImplementsFairLock

(* Every await returns, as long as all threads come. *)
AwaitReturns == \A t \in Thread : pc[t] = "ready" ~> pc[t] = "return"
=============================================================================
