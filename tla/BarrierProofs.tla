----------------------------- MODULE BarrierProofs -----------------------------
(***************************************************************************)
(* Proofs about Barrier for any number of threads and any range of the     *)
(* tickets that gives each thread one: its rounds do not mix, and its two  *)
(* locks are first come, first served.  Then about Baremetal: the programs *)
(* use the barrier as module Barrier allows, and their cores work apart,   *)
(* for any number of cores, ways and words.                                *)
(***************************************************************************)
EXTENDS Baremetal, FiniteSetTheorems, SequenceTheorems, TLAPS

ReadyLock == INSTANCE SpinlockProofs WITH
    Process <- Thread,
    available <- readyAvailable, active <- readyActive, myTicket <- readyTicket,
    pc <- At({"readyLock"}, ReadyHeld)

WaitingLock == INSTANCE SpinlockProofs WITH
    Process <- Thread,
    available <- waitingAvailable, active <- waitingActive, myTicket <- waitingTicket,
    pc <- At({"announceLock", "leaveLock"}, {"announced", "left"})

Label == {"outside", "ready", "readyLock", "count", "last", "reset",
          "announce", "announceLock", "announced", "unlock", "spin",
          "leave", "leaveLock", "left", "return"}

(* The threads of which mWaiting and mNotReady count. *)
Counted == {t \in Thread : pc[t] \in {"unlock", "spin", "leave", "leaveLock", "left"}}
Missing == {t \in Thread : pc[t] \in {"outside", "ready", "readyLock", "count", "return"}}

(* While round r gathers, late threads may still return from the round     *)
(* before it.                                                              *)
Gathering(r) ==
    /\ mNotReady > 0 /\ mNotReady = Cardinality(Missing)
    /\ \A t \in Thread :
           /\ pc[t] \notin {"last", "reset", "leave", "leaveLock", "left"}
           /\ returned[t] = IF pc[t] = "return" THEN (r - 1) % Rounds ELSE r

(* All have come in round r: the last one holds mReadyLock until the       *)
(* others have left, those who have returned can only wait for it.         *)
Complete(r) ==
    /\ mNotReady = 0
    /\ \E t \in Thread : pc[t] \in {"last", "reset"}
    /\ \A t \in Thread :
           /\ pc[t] \in {"last", "reset", "spin", "leave", "leaveLock", "left", "return",
                         "outside", "ready", "readyLock"}
           /\ returned[t] = IF pc[t] \in {"outside", "ready", "readyLock"}
                            THEN (r + 1) % Rounds ELSE r
    /\ (\E t \in Thread : pc[t] = "reset") => Counted = {}

RoundInv ==
    /\ pc \in [Thread -> Label]
    /\ mNotReady \in Nat
    /\ entered \in [Thread -> 0 .. Rounds - 1] /\ returned \in [Thread -> 0 .. Rounds - 1]
    /\ mWaiting = Cardinality(Counted)
    /\ \A t \in Thread :
           entered[t] = IF pc[t] = "outside" THEN returned[t] ELSE (returned[t] + 1) % Rounds
    /\ \E r \in 0 .. Rounds - 1 : Gathering(r) \/ Complete(r)

IInv == RoundInv /\ ReadyLock!TicketInv /\ WaitingLock!TicketInv

----------------------------------------------------------------------------
(* Each step is one of each lock or leaves it alone.                       *)
LEMMA ReadySteps ==
    ASSUME RoundInv, [Next]_vars
    PROVE  [ReadyLock!Next]_(ReadyLock!vars)
<1>1. CASE UNCHANGED vars
  BY <1>1 DEF vars, readyVars, ReadyLock!vars, At
<1>2. ASSUME NEW t \in Thread, LockReady(t)
      PROVE  ReadyLock!Next
  BY <1>2 DEF LockReady,
         Ready!Lock, Ready!FetchTicket, Ready!Increment, Ready!Goto,
         ReadyLock!Next, ReadyLock!Lock, ReadyLock!FetchTicket, ReadyLock!Increment,
         ReadyLock!Goto
<1>3. ASSUME NEW t \in Thread, EnterReady(t)
      PROVE  ReadyLock!Next
  BY <1>3 DEF EnterReady,
         Ready!Enter, Ready!Served, Ready!Goto,
         ReadyLock!Next, ReadyLock!Enter, ReadyLock!Served,
         ReadyLock!Goto
<1>4. ASSUME NEW t \in Thread, Reset(t) \/ UnlockReady(t)
      PROVE  ReadyLock!Next
  BY <1>4 DEF Reset, UnlockReady,
         Ready!Unlock, Ready!Increment, Ready!Goto,
         ReadyLock!Next, ReadyLock!Unlock, ReadyLock!Increment,
         ReadyLock!Goto
<1>5. ASSUME NEW t \in Thread,
             \/ Await(t) \/ CountDown(t) \/ WaitersGone(t) \/ LockWaiting(t) \/ EnterWaiting(t)
             \/ Announce(t) \/ Spin(t) \/ LockLeaving(t) \/ EnterLeaving(t) \/ Leave(t) \/ Return(t)
      PROVE  UNCHANGED ReadyLock!vars
  <2>1. UNCHANGED readyVars
    BY <1>5 DEF Await, CountDown, WaitersGone, LockWaiting, EnterWaiting, Announce,
             Spin, LockLeaving, EnterLeaving, Leave, Return
  <2>2. \E from, to \in Label :
            /\ pc[t] = from /\ pc' = [pc EXCEPT ![t] = to]
            /\ {from, to} \cap {"readyLock"} = {}
            /\ from \in ReadyHeld <=> to \in ReadyHeld
    BY <1>5 DEF Await, CountDown, WaitersGone, LockWaiting, EnterWaiting, Announce,
             Spin, LockLeaving, EnterLeaving, Leave, Return, Goto, Label, ReadyHeld
  <2>3. At({"readyLock"}, ReadyHeld)' = At({"readyLock"}, ReadyHeld)
    BY <2>2, ZenonT(60) DEF At, RoundInv
  <2> QED BY <2>1, <2>3 DEF readyVars, ReadyLock!vars
<1> QED BY <1>1, <1>2, <1>3, <1>4, <1>5 DEF Next, Step, SpinAgain

LEMMA WaitingSteps ==
    ASSUME RoundInv, [Next]_vars
    PROVE  [WaitingLock!Next]_(WaitingLock!vars)
<1>1. CASE UNCHANGED vars
  BY <1>1 DEF vars, waitingVars, WaitingLock!vars, At
<1>2. ASSUME NEW t \in Thread, LockWaiting(t) \/ LockLeaving(t)
      PROVE  WaitingLock!Next
  BY <1>2 DEF LockWaiting, LockLeaving,
         Waiting!Lock, Waiting!FetchTicket, Waiting!Increment, Waiting!Goto,
         WaitingLock!Next, WaitingLock!Lock, WaitingLock!FetchTicket, WaitingLock!Increment,
         WaitingLock!Goto
<1>3. ASSUME NEW t \in Thread, EnterWaiting(t) \/ EnterLeaving(t)
      PROVE  WaitingLock!Next
  BY <1>3 DEF EnterWaiting, EnterLeaving,
         Waiting!Enter, Waiting!Served, Waiting!Goto,
         WaitingLock!Next, WaitingLock!Enter, WaitingLock!Served,
         WaitingLock!Goto
<1>4. ASSUME NEW t \in Thread, Announce(t) \/ Leave(t)
      PROVE  WaitingLock!Next
  BY <1>4 DEF Announce, Leave,
         Waiting!Unlock, Waiting!Increment, Waiting!Goto,
         WaitingLock!Next, WaitingLock!Unlock, WaitingLock!Increment,
         WaitingLock!Goto
<1>5. ASSUME NEW t \in Thread,
             \/ Await(t) \/ LockReady(t) \/ EnterReady(t) \/ CountDown(t) \/ WaitersGone(t)
             \/ Reset(t) \/ UnlockReady(t) \/ Spin(t) \/ Return(t)
      PROVE  UNCHANGED WaitingLock!vars
  <2>1. UNCHANGED waitingVars
    BY <1>5 DEF Await, LockReady, EnterReady, CountDown, WaitersGone, Reset,
             UnlockReady, Spin, Return
  <2>2. \E from, to \in Label :
            /\ pc[t] = from /\ pc' = [pc EXCEPT ![t] = to]
            /\ {from, to} \cap {"announceLock", "leaveLock"} = {}
            /\ from \in {"announced", "left"} <=> to \in {"announced", "left"}
    BY <1>5 DEF Await, LockReady, EnterReady, CountDown, WaitersGone, Reset,
             UnlockReady, Spin, Return, Goto, Label
  <2>3. At({"announceLock", "leaveLock"}, {"announced", "left"})' =
            At({"announceLock", "leaveLock"}, {"announced", "left"})
    BY <2>2 DEF At, RoundInv
  <2> QED BY <2>1, <2>3 DEF waitingVars, WaitingLock!vars
<1> QED BY <1>1, <1>2, <1>3, <1>4, <1>5 DEF Next, Step, SpinAgain

----------------------------------------------------------------------------
(* mReadyLock has one holder. *)
OneHolder == \A t, u \in Thread : {pc[t], pc[u]} \subseteq ReadyHeld => t = u

LEMMA ReadyLockHeldOnce == ReadyLock!TicketInv => OneHolder
  BY DEF OneHolder, ReadyLock!TicketInv, ReadyLock!Busy, At, ReadyHeld

LEMMA ReadyLockHeldOnceNext == ReadyLock!TicketInv' => OneHolder'
  BY ReadyLockHeldOnce, PTL

LEMMA RoundMoves ==
    ASSUME RoundInv, OneHolder, OneHolder', NEW t \in Thread,
           \/ LockReady(t) \/ EnterReady(t) \/ WaitersGone(t) \/ LockWaiting(t)
           \/ EnterWaiting(t) \/ UnlockReady(t) \/ Spin(t) \/ LockLeaving(t) \/ EnterLeaving(t)
    PROVE  RoundInv'
<1> PICK r \in 0 .. Rounds - 1 : Gathering(r) \/ Complete(r) BY DEF RoundInv
<1>1. PICK from, to \in Label :
          /\ pc[t] = from /\ \A u \in Thread : pc'[u] = IF u = t THEN to ELSE pc[u]
          /\ pc' \in [Thread -> Label]
          /\ UNCHANGED <<mNotReady, mWaiting, entered, returned>>
          /\ \/ from = "ready" /\ to = "readyLock"
             \/ from = "readyLock" /\ to = "count"
             \/ from = "last" /\ to = "reset" /\ mWaiting = 0
             \/ from = "announce" /\ to = "announceLock"
             \/ from = "announceLock" /\ to = "announced"
             \/ from = "unlock" /\ to = "spin"
             \/ from = "spin" /\ to = "leave" /\ mNotReady = 0
             \/ from = "leave" /\ to = "leaveLock"
             \/ from = "leaveLock" /\ to = "left"
  BY DEF LockReady, EnterReady, WaitersGone, LockWaiting, EnterWaiting, UnlockReady, Spin, AllReady,
         LockLeaving, EnterLeaving, Goto, RoundInv, Label, countVars, roundVars
<1>2. Counted' = Counted /\ Missing' = Missing BY <1>1 DEF Counted, Missing
<1>3. Gathering(r) => Gathering(r)'
  BY <1>1, <1>2 DEF Gathering
<1>4. ASSUME Complete(r) PROVE Complete(r)'
  <2>1. PICK h \in Thread : pc[h] \in {"last", "reset"} BY <1>4 DEF Complete
  <2>2. pc'[h] \in {"last", "reset"} BY <1>1, <2>1
  <2>3. to # "count"
    BY <1>1, <2>1, <2>2 DEF OneHolder, ReadyHeld
  <2>4. /\ from \in {"last", "reset", "spin", "leave", "leaveLock", "left", "return",
                    "outside", "ready", "readyLock"}
        /\ from \in {"outside", "ready", "readyLock"} <=> to \in {"outside", "ready", "readyLock"}
        /\ to \in {"last", "reset", "spin", "leave", "leaveLock", "left", "return",
                    "outside", "ready", "readyLock"}
    BY <1>1, <1>4, <2>3 DEF Complete
  <2>5. \A u \in Thread :
            /\ pc'[u] \in {"last", "reset", "spin", "leave", "leaveLock", "left", "return",
                           "outside", "ready", "readyLock"}
            /\ returned'[u] = IF pc'[u] \in {"outside", "ready", "readyLock"}
                              THEN (r + 1) % Rounds ELSE r
    BY <1>1, <1>4, <2>4 DEF Complete
  <2>6. (\E u \in Thread : pc'[u] = "reset") => Counted' = {}
    <3>1. CASE to = "reset"
      <4>1. Cardinality(Counted) = 0 BY <1>1, <3>1 DEF RoundInv
      <4>2. IsFiniteSet(Counted) BY BarrierAssumption, FS_Subset DEF Counted
      <4> QED BY <1>2, <4>1, <4>2, FS_EmptySet
    <3>2. CASE to # "reset"
      BY <1>1, <1>2, <1>4, <3>2 DEF Complete
    <3> QED BY <3>1, <3>2
  <2> QED BY <1>1, <1>4, <2>2, <2>5, <2>6 DEF Complete
<1>5. \A u \in Thread :
          entered'[u] = IF pc'[u] = "outside" THEN returned'[u] ELSE (returned'[u] + 1) % Rounds
  BY <1>1 DEF RoundInv
<1> QED BY <1>1, <1>2, <1>3, <1>4, <1>5 DEF RoundInv

(* Another thread comes. *)
LEMMA RoundAwait ==
    ASSUME RoundInv, NEW t \in Thread, Await(t)
    PROVE  RoundInv'
<1> PICK r \in 0 .. Rounds - 1 : Gathering(r) \/ Complete(r) BY DEF RoundInv
<1>1. /\ pc[t] = "outside" /\ \A u \in Thread : pc'[u] = IF u = t THEN "ready" ELSE pc[u]
      /\ pc' \in [Thread -> Label]
      /\ UNCHANGED <<mNotReady, mWaiting, returned>>
      /\ entered' = [entered EXCEPT ![t] = (entered[t] + 1) % Rounds]
  BY DEF Await, Goto, Count, RoundInv, Label, countVars
<1>2. Counted' = Counted /\ Missing' = Missing BY <1>1 DEF Counted, Missing
<1>3. Gathering(r) => Gathering(r)'
  BY <1>1, <1>2 DEF Gathering
<1>4. Complete(r) => Complete(r)'
  BY <1>1, <1>2 DEF Complete
<1>5. entered' \in [Thread -> 0 .. Rounds - 1]
  BY <1>1 DEF RoundInv, Rounds
<1>6. \A u \in Thread :
          entered'[u] = IF pc'[u] = "outside" THEN returned'[u] ELSE (returned'[u] + 1) % Rounds
  BY <1>1 DEF RoundInv
<1> QED BY <1>1, <1>2, <1>3, <1>4, <1>5, <1>6 DEF RoundInv

(* A thread returns: late, while the next round gathers, or early. *)
LEMMA RoundReturn ==
    ASSUME RoundInv, NEW t \in Thread, Return(t)
    PROVE  RoundInv'
<1> PICK r \in 0 .. Rounds - 1 : Gathering(r) \/ Complete(r) BY DEF RoundInv
<1>1. /\ pc[t] = "return" /\ \A u \in Thread : pc'[u] = IF u = t THEN "outside" ELSE pc[u]
      /\ pc' \in [Thread -> Label]
      /\ UNCHANGED <<mNotReady, mWaiting, entered>>
      /\ returned' = [returned EXCEPT ![t] = (returned[t] + 1) % Rounds]
  BY DEF Return, Goto, Count, RoundInv, Label, countVars
<1>2. Counted' = Counted /\ Missing' = Missing BY <1>1 DEF Counted, Missing
<1>3. r \in 0 .. 3 /\ (((r - 1) % 4) + 1) % 4 = r BY DEF Rounds
<1>4. Gathering(r) => Gathering(r)'
  BY <1>1, <1>2, <1>3 DEF Gathering, Rounds, RoundInv
<1>5. Complete(r) => Complete(r)'
  BY <1>1, <1>2 DEF Complete, RoundInv
<1>6. returned' \in [Thread -> 0 .. Rounds - 1]
  BY <1>1 DEF RoundInv, Rounds
<1>7. \A u \in Thread :
          entered'[u] = IF pc'[u] = "outside" THEN returned'[u] ELSE (returned'[u] + 1) % Rounds
  BY <1>1 DEF RoundInv
<1> QED BY <1>1, <1>2, <1>4, <1>5, <1>6, <1>7 DEF RoundInv

(* mWaiting follows the threads that it counts. *)
LEMMA RoundWaiting ==
    ASSUME RoundInv, NEW t \in Thread, Announce(t) \/ Leave(t)
    PROVE  RoundInv'
<1> PICK r \in 0 .. Rounds - 1 : Gathering(r) \/ Complete(r) BY DEF RoundInv
<1>1. PICK from, to \in Label :
          /\ pc[t] = from /\ \A u \in Thread : pc'[u] = IF u = t THEN to ELSE pc[u]
          /\ pc' \in [Thread -> Label]
          /\ UNCHANGED <<mNotReady, entered, returned>>
          /\ \/ from = "announced" /\ to = "unlock" /\ mWaiting' = mWaiting + 1
             \/ from = "left" /\ to = "return" /\ mWaiting' = mWaiting - 1
  BY DEF Announce, Leave, Goto, RoundInv, Label, roundVars
<1>2. IsFiniteSet(Counted) BY BarrierAssumption, FS_Subset DEF Counted
<1>3. mWaiting' = Cardinality(Counted')
  <2>1. CASE from = "announced"
    <3>1. Counted' = Counted \cup {t} /\ t \notin Counted BY <1>1, <2>1 DEF Counted
    <3> QED BY <1>1, <1>2, <2>1, <3>1, FS_AddElement DEF RoundInv
  <2>2. CASE from = "left"
    <3>1. Counted' = Counted \ {t} /\ t \in Counted BY <1>1, <2>2 DEF Counted
    <3> QED BY <1>1, <1>2, <2>2, <3>1, FS_RemoveElement DEF RoundInv
  <2> QED BY <1>1, <2>1, <2>2
<1>4. ASSUME Gathering(r) PROVE Gathering(r)'
  <2>1. from = "announced" BY <1>1, <1>4 DEF Gathering
  <2>2. Missing' = Missing BY <1>1, <2>1 DEF Missing
  <2> QED BY <1>1, <1>4, <2>1, <2>2 DEF Gathering
<1>5. ASSUME Complete(r) PROVE Complete(r)'
  <2>1. from = "left" BY <1>1, <1>5 DEF Complete
  <2>2. t \in Counted BY <1>1, <2>1 DEF Counted
  <2>3. \A u \in Thread : pc'[u] # "reset" BY <1>1, <1>5, <2>1, <2>2 DEF Complete
  <2>4. \E u \in Thread : pc'[u] \in {"last", "reset"} BY <1>1, <1>5, <2>1 DEF Complete
  <2> QED BY <1>1, <1>5, <2>1, <2>3, <2>4 DEF Complete
<1>6. \A u \in Thread :
          entered'[u] = IF pc'[u] = "outside" THEN returned'[u] ELSE (returned'[u] + 1) % Rounds
  BY <1>1 DEF RoundInv
<1> QED BY <1>1, <1>3, <1>4, <1>5, <1>6 DEF RoundInv

(* The threads are counted down; with the last one the round is complete.  *)
LEMMA RoundCountDown ==
    ASSUME RoundInv, OneHolder, NEW t \in Thread, CountDown(t)
    PROVE  RoundInv'
<1> PICK r \in 0 .. Rounds - 1 : Gathering(r) \/ Complete(r) BY DEF RoundInv
<1> DEFINE to == IF mNotReady = 1 THEN "last" ELSE "announce"
<1>1. /\ pc[t] = "count" /\ \A u \in Thread : pc'[u] = IF u = t THEN to ELSE pc[u]
      /\ pc' \in [Thread -> Label]
      /\ UNCHANGED <<mWaiting, entered, returned>>
      /\ mNotReady' = mNotReady - 1
  BY DEF CountDown, Goto, RoundInv, Label, roundVars
<1>2. Gathering(r) BY <1>1 DEF Complete
<1>3. Counted' = Counted BY <1>1 DEF Counted
<1>4. IsFiniteSet(Missing) BY BarrierAssumption, FS_Subset DEF Missing
<1>5. Missing' = Missing \ {t} /\ t \in Missing BY <1>1 DEF Missing
<1>6. mNotReady' = Cardinality(Missing') /\ mNotReady' \in Nat
  <2>1. mNotReady \in Nat /\ mNotReady > 0 /\ mNotReady = Cardinality(Missing)
    BY <1>2 DEF Gathering, RoundInv
  <2>2. Cardinality(Missing \ {t}) = Cardinality(Missing) - 1
    BY <1>4, <1>5, FS_RemoveElement
  <2> QED BY <2>1, <2>2, <1>1, <1>5
<1>7. CASE mNotReady = 1
  <2>1. mNotReady' = 0 BY <1>1, <1>7
  <2>2. Missing' = {} BY <1>4, <1>5, <1>6, <2>1, FS_RemoveElement, FS_EmptySet
  <2>3. \A u \in Thread : u # t => pc[u] = "spin"
    <3> SUFFICES ASSUME NEW u \in Thread, u # t PROVE pc[u] = "spin"
      OBVIOUS
    <3>1. pc[u] \notin ReadyHeld BY <1>1 DEF OneHolder, ReadyHeld
    <3>2. u \notin Missing BY <1>5, <2>2
    <3> QED BY <1>2, <3>1, <3>2 DEF Missing, ReadyHeld, Gathering, RoundInv, Label
  <2>4. \A u \in Thread : pc'[u] = IF u = t THEN "last" ELSE "spin"
    BY <1>1, <1>7, <2>3
  <2>5. \A u \in Thread : returned'[u] = r
    BY <1>1, <1>2, <2>3 DEF Gathering
  <2> QED BY <2>1, <2>4, <2>5, <1>1, <1>3, <1>6 DEF Complete, RoundInv
<1>8. CASE mNotReady # 1
  <2>1. mNotReady' > 0 BY <1>1, <1>2, <1>8 DEF Gathering, RoundInv
  <2>2. Gathering(r)' BY <1>1, <1>2, <1>6, <1>8, <2>1 DEF Gathering
  <2> QED BY <2>2, <1>1, <1>3, <1>6, <1>8 DEF RoundInv
<1> QED BY <1>7, <1>8

(* The last thread opens the next round, when the others have left. *)
LEMMA RoundReset ==
    ASSUME RoundInv, OneHolder, NEW t \in Thread, Reset(t)
    PROVE  RoundInv'
<1> PICK r \in 0 .. Rounds - 1 : Gathering(r) \/ Complete(r) BY DEF RoundInv
<1>1. /\ pc[t] = "reset" /\ \A u \in Thread : pc'[u] = IF u = t THEN "return" ELSE pc[u]
      /\ pc' \in [Thread -> Label]
      /\ UNCHANGED <<mWaiting, entered, returned>>
      /\ mNotReady' = Cardinality(Thread)
  BY DEF Reset, SetNotReady, mSize, Goto, RoundInv, Label, roundVars
<1>2. Complete(r) BY <1>1 DEF Gathering
<1>3. Counted' = Counted BY <1>1 DEF Counted
<1>4. \A u \in Thread : pc'[u] \in {"return", "outside", "ready", "readyLock"}
  <2>1. Counted = {} BY <1>1, <1>2 DEF Complete
  <2>2. \A u \in Thread : u # t => pc[u] \notin ReadyHeld
    BY <1>1 DEF OneHolder, ReadyHeld
  <2> QED BY <1>1, <1>2, <2>1, <2>2 DEF Complete, Counted, ReadyHeld
<1>5. Missing' = Thread BY <1>4 DEF Missing
<1>6. mNotReady' \in Nat /\ mNotReady' > 0
  BY <1>1, BarrierAssumption, FS_CardinalityType, FS_EmptySet
<1> DEFINE following == (r + 1) % Rounds
<1>7. following \in 0 .. Rounds - 1 /\ (following - 1) % Rounds = r
  BY DEF Rounds
<1>8. \A u \in Thread : returned'[u] = IF pc'[u] = "return" THEN r ELSE following
  BY <1>1, <1>2, <1>4 DEF Complete
<1> HIDE DEF following
<1>9. Gathering(following)'
  BY <1>1, <1>4, <1>5, <1>6, <1>7, <1>8 DEF Gathering
<1>10. \A u \in Thread :
           entered'[u] = IF pc'[u] = "outside" THEN returned'[u] ELSE (returned'[u] + 1) % Rounds
  BY <1>1 DEF RoundInv
<1> QED BY <1>1, <1>3, <1>6, <1>7, <1>9, <1>10 DEF RoundInv

----------------------------------------------------------------------------
LEMMA RoundInit == Init => RoundInv
<1> SUFFICES ASSUME Init PROVE RoundInv
  OBVIOUS
<1>1. Counted = {} /\ Missing = Thread BY DEF Init, Counted, Missing
<1>2. mNotReady \in Nat /\ mNotReady > 0
  BY BarrierAssumption, FS_CardinalityType, FS_EmptySet DEF Init, mSize
<1>3. Gathering(0) BY <1>1, <1>2 DEF Init, Gathering, mSize
<1> QED BY <1>1, <1>2, <1>3, FS_EmptySet DEF Init, RoundInv, Label, Rounds

(* Finite sets are the same in all instances. *)
LEMMA SameSets ==
    ASSUME NEW S
    PROVE  /\ ReadyLock!IsFiniteSet(S) <=> IsFiniteSet(S)
           /\ WaitingLock!IsFiniteSet(S) <=> IsFiniteSet(S)
           /\ ReadyLock!Cardinality(S) = Cardinality(S)
           /\ WaitingLock!Cardinality(S) = Cardinality(S)
BY DEF IsFiniteSet, ReadyLock!IsFiniteSet, WaitingLock!IsFiniteSet,
       Cardinality, ReadyLock!Cardinality, WaitingLock!Cardinality

LEMMA Tickets == ReadyLock!EnoughTickets /\ WaitingLock!EnoughTickets
<1>1. Cardinality(Thread) \in Nat \ {0}
  BY BarrierAssumption, FS_CardinalityType, FS_EmptySet
<1> QED BY <1>1, SameSets, BarrierAssumption
           DEF ReadyLock!EnoughTickets, WaitingLock!EnoughTickets

LEMMA InitIInv == Init => IInv
<1> SUFFICES ASSUME Init PROVE IInv
  OBVIOUS
<1>1. ReadyLock!Init /\ WaitingLock!Init
  BY DEF Init, Ready!Init, Waiting!Init, ReadyLock!Init, WaitingLock!Init
<1>2. ReadyLock!TicketInv BY <1>1, Tickets, ReadyLock!InitTickets
<1>3. WaitingLock!TicketInv BY <1>1, Tickets, WaitingLock!InitTickets
<1> QED BY <1>2, <1>3, RoundInit DEF IInv

(* A step keeps the invariant and is one of each abstract lock. *)
LEMMA BarrierInductive ==
    ASSUME IInv, [Next]_vars
    PROVE  /\ IInv'
           /\ [ReadyLock!Fair!Next]_(ReadyLock!Fair!vars)
           /\ [WaitingLock!Fair!Next]_(WaitingLock!Fair!vars)
<1>1. /\ ReadyLock!TicketInv' /\ [ReadyLock!Fair!Next]_(ReadyLock!Fair!vars)
  BY Tickets, ReadySteps, ReadyLock!FairStep DEF IInv
<1>2. /\ WaitingLock!TicketInv' /\ [WaitingLock!Fair!Next]_(WaitingLock!Fair!vars)
  BY Tickets, WaitingSteps, WaitingLock!FairStep DEF IInv
<1>3. OneHolder /\ OneHolder'
  BY <1>1, ReadyLockHeldOnce, ReadyLockHeldOnceNext DEF IInv
<1>4. RoundInv'
  <2>1. CASE UNCHANGED vars
    <3>1. UNCHANGED <<mNotReady, mWaiting, pc, entered, returned>>
      BY <2>1 DEF vars, countVars, roundVars
    <3>2. Counted' = Counted /\ Missing' = Missing
      BY <3>1 DEF Counted, Missing
    <3>3. \A r \in 0 .. Rounds - 1 : Gathering(r) => Gathering(r)'
      BY <3>1, <3>2 DEF Gathering
    <3>4. \A r \in 0 .. Rounds - 1 : Complete(r) => Complete(r)'
      BY <3>1, <3>2 DEF Complete
    <3>5. (\E r \in 0 .. Rounds - 1 : Gathering(r) \/ Complete(r))'
      BY <3>3, <3>4 DEF IInv, RoundInv
    <3> QED BY <3>1, <3>2, <3>5 DEF IInv, RoundInv
  <2>2. ASSUME NEW t \in Thread, Await(t) \/ Step(t) PROVE RoundInv'
    BY <2>1, <2>2, <1>3, RoundMoves, RoundAwait, RoundReturn, RoundWaiting, RoundCountDown,
       RoundReset
       DEF IInv, Step, SpinAgain
  <2> QED BY <2>1, <2>2 DEF Next
<1> QED BY <1>1, <1>2, <1>4 DEF IInv

LEMMA InvariantHolds == Spec => []IInv
<1>1. IInv /\ [Next]_vars => IInv' BY BarrierInductive
<1> QED BY <1>1, InitIInv, PTL DEF Spec

(* Barrier: the counters stay between nobody and all threads, the tickets  *)
(* in their range.                                                         *)
THEOREM TypeCorrect == Spec => []TypeOK
<1>1. IInv => TypeOK
  <2> SUFFICES ASSUME IInv PROVE TypeOK
    OBVIOUS
  <2>1. /\ mSize \in Nat /\ Cardinality(Counted) \in 0 .. mSize
        /\ Cardinality(Missing) \in 0 .. mSize
    BY BarrierAssumption, FS_Subset, FS_CardinalityType DEF mSize, Counted, Missing
  <2>2. mNotReady \in 0 .. mSize /\ mWaiting \in 0 .. mSize
    BY <2>1 DEF IInv, RoundInv, Gathering, Complete
  <2>3. Ready!TypeOK
    BY DEF IInv, ReadyLock!TicketInv, ReadyLock!TypeOK, Ready!TypeOK
  <2>4. Waiting!TypeOK
    BY DEF IInv, WaitingLock!TicketInv, WaitingLock!TypeOK, Waiting!TypeOK
  <2> QED BY <2>2, <2>3, <2>4 DEF TypeOK, IInv, RoundInv, Label
<1> QED BY <1>1, InvariantHolds, PTL

(* Barrier: the numbers of calls and of returns of any two threads differ  *)
(* as those of one barrier do, round after round, for any number of        *)
(* threads.                                                                *)
THEOREM RoundsSynchronised == Spec => []Synchronised
<1>1. RoundInv => Synchronised
  <2> SUFFICES ASSUME RoundInv, NEW t \in Thread, NEW u \in Thread
               PROVE  (entered[u] - returned[t]) % Rounds \in {0, 1, 2}
    BY DEF Synchronised
  <2> PICK r \in 0 .. Rounds - 1 : Gathering(r) \/ Complete(r) BY DEF RoundInv
  <2>1. CASE Gathering(r)
    <3>1. returned[t] \in {(r - 1) % 4, r} /\ entered[u] \in {r, (r + 1) % 4}
      BY <2>1 DEF Gathering, RoundInv, Rounds
    <3> QED BY <3>1 DEF Rounds
  <2>2. CASE Complete(r)
    <3>1. returned[t] \in {r, (r + 1) % 4} /\ entered[u] \in {(r + 1) % 4, (r + 2) % 4}
      BY <2>2 DEF Complete, RoundInv, Rounds
    <3> QED BY <3>1 DEF Rounds
  <2> QED BY <2>1, <2>2
<1> QED BY <1>1, InvariantHolds, PTL DEF IInv

(* Barrier, Spinlock: both of its locks have one holder and serve first    *)
(* come, first served, for any number of threads and when the tickets wrap *)
(* around.                                                                 *)
THEOREM LocksFair == Spec => ImplementsFairLock
<1>1. Init => ReadyLock!Fair!Init /\ WaitingLock!Fair!Init
  BY Tickets, ReadyLock!FairInit, WaitingLock!FairInit
     DEF Init, Ready!Init, Waiting!Init, ReadyLock!Init, WaitingLock!Init
<1>2. IInv /\ [Next]_vars => /\ [ReadyLock!Fair!Next]_(ReadyLock!Fair!vars)
                             /\ [WaitingLock!Fair!Next]_(WaitingLock!Fair!vars)
  BY BarrierInductive
<1>4. /\ Ready!Fair!Init <=> ReadyLock!Fair!Init
      /\ [Ready!Fair!Next]_(Ready!Fair!vars) <=> [ReadyLock!Fair!Next]_(ReadyLock!Fair!vars)
    BY DEF Ready!Fair!Init, ReadyLock!Fair!Init,
           Ready!Fair!Next, ReadyLock!Fair!Next,
           Ready!Fair!vars, ReadyLock!Fair!vars,
           Ready!Fair!Request, ReadyLock!Fair!Request,
           Ready!Fair!Acquire, ReadyLock!Fair!Acquire,
           Ready!Fair!Release, ReadyLock!Fair!Release,
           Ready!Holders, ReadyLock!Holders,
           Ready!Waiters, ReadyLock!Waiters,
           Ready!Distance, ReadyLock!Distance,
           Ready!Cardinality, ReadyLock!Cardinality
<1>5. /\ Waiting!Fair!Init <=> WaitingLock!Fair!Init
      /\ [Waiting!Fair!Next]_(Waiting!Fair!vars) <=> [WaitingLock!Fair!Next]_(WaitingLock!Fair!vars)
    BY DEF Waiting!Fair!Init, WaitingLock!Fair!Init,
           Waiting!Fair!Next, WaitingLock!Fair!Next,
           Waiting!Fair!vars, WaitingLock!Fair!vars,
           Waiting!Fair!Request, WaitingLock!Fair!Request,
           Waiting!Fair!Acquire, WaitingLock!Fair!Acquire,
           Waiting!Fair!Release, WaitingLock!Fair!Release,
           Waiting!Holders, WaitingLock!Holders,
           Waiting!Waiters, WaitingLock!Waiters,
           Waiting!Distance, WaitingLock!Distance,
           Waiting!Cardinality, WaitingLock!Cardinality
<1> QED
  BY <1>1, <1>2, <1>4, <1>5, InvariantHolds, PTL
     DEF Spec, ImplementsFairLock, Ready!ImplementsFairLock, Waiting!ImplementsFairLock,
         Ready!Fair!Spec, Waiting!Fair!Spec

----------------------------------------------------------------------------
(* The programs.                                                           *)

(* SpinlockTest and CATTest: the prints or the ways go round with Period,  *)
(* from Start for each core.                                               *)
Start(t) == IF program = "CATTest" THEN t ELSE 0
Period == IF program = "SpinlockTest" THEN Prints ELSE WAY_COUNT

Plus(a, b) == IF a + b < Period THEN a + b ELSE a + b - Period

(* The cores that have returned from the round that the others are in, or  *)
(* for which nobody waits.                                                 *)
Ahead(t) ==
    IF mNotReady > 0 THEN pc[t] # "return" ELSE pc[t] \in {"outside", "ready", "readyLock"}

(* All cores go round together. *)
WaysInv ==
    \E w \in 0 .. Period - 1 : \A t \in Thread :
        next[t] = Plus(Start(t), IF Ahead(t) THEN Plus(w, 1) ELSE w)

(* CATTest: nobody is through the first await before core 0 has come. *)
Warming ==
    /\ program = "CATTest" /\ pc[0] = "outside" /\ mNotReady > 0
    /\ \A t \in Thread : pc[t] # "return" /\ (t # 0 => work[t] = <<>>)

(* A core works on what comes before its next one. *)
WorkOnWay ==
    \A c \in Thread : work[c] # <<>> =>
        /\ pc[c] = "outside" /\ Plus(Head(work[c]).on, 1) = next[c]
        /\ \A i \in 1 .. Len(work[c]) :
               work[c][i].on = Head(work[c]).on /\ work[c][i].on \in 0 .. Period - 1
        /\ program = "SpinlockTest" => Head(work[c]).on = c

What == {"print", "load", "evict", "warmup", "measure"}
WorkItem == [what : What, on : Nat]

BarrierInv ==
    program \in Barriers =>
        /\ WaysInv
        /\ \A c \in Thread : work[c] \in Seq(WorkItem)
        /\ Warming \/ WorkOnWay

(* CoherencyTest: the core whose turn it is fills the array or goes over   *)
(* it, with the last n words left to do.                                   *)
Before(c) == IF c = 0 THEN mSize - 1 ELSE c - 1

Left(n, what) == [i \in 1 .. n |-> Do(what, Words - n + i)]

Filling(n) ==
    /\ holdingPen = 0 /\ work[0] = Left(n, "fill")
    /\ testarray = [i \in 1 .. Words |-> IF i <= Words - n THEN mSize - 1 ELSE 0]

Checking(n) ==
    /\ work[holdingPen] = Left(n, "check")
    /\ testarray = [i \in 1 .. Words |->
           IF n > 0 /\ i <= Words - n THEN holdingPen ELSE Before(holdingPen)]

TurnInv ==
    program = "CoherencyTest" =>
        /\ holdingPen \in Thread
        /\ \A c \in Thread : c # holdingPen => work[c] = <<>>
        /\ \E n \in 0 .. Words : (n > 0 /\ Filling(n)) \/ Checking(n)

AloneInv == program = "HierarchyProfiling" => \A c \in Thread : c # 0 => work[c] = <<>>

ProgramInv ==
    /\ program \in Programs
    /\ work = [c \in Thread |-> work[c]] /\ next = [c \in Thread |-> next[c]]
    /\ program \notin Barriers => \A c \in Thread : pc[c] = "outside"
    /\ BarrierInv /\ TurnInv /\ AloneInv

----------------------------------------------------------------------------
(* A program is a use of the barrier. *)
LEMMA ProgramUsesBarrier == [ProgramNext]_allVars => [Next]_vars
<1> SUFFICES ASSUME [ProgramNext]_allVars PROVE [Next]_vars
  OBVIOUS
<1>1. CASE UNCHANGED allVars
  BY <1>1 DEF allVars
<1>2. ASSUME NEW c \in Thread, ProgramStep(c) PROVE [Next]_vars
  BY <1>2 DEF ProgramStep, Work, CallAwait, InAwait, BeginCheck, Check, Fill, Release, NextRun,
              AwaitRelease, Profile, allVars, Next
<1> QED BY <1>1, <1>2 DEF ProgramNext

(* The programs of src/baremetal: each of its barriers is used round after *)
(* round as the barrier module has it.                                     *)
THEOREM ProgramImplementsBarrier == ProgramSpec => Spec
<1>1. ProgramInit => Init BY DEF ProgramInit
<1> QED BY <1>1, ProgramUsesBarrier, PTL DEF ProgramSpec, Spec

(* So no core of a program comes through an await before all others are at *)
(* it.                                                                     *)
THEOREM ProgramSynchronised == ProgramSpec => []Synchronised
BY ProgramImplementsBarrier, RoundsSynchronised

----------------------------------------------------------------------------
(* What a step of the barrier does to who is ahead. *)
LEMMA AheadSteps ==
    ASSUME RoundInv, RoundInv', NEW t \in Thread, Await(t) \/ Step(t)
    PROVE  \/ /\ pc[t] = "return" /\ pc'[t] = "outside" /\ ~Ahead(t) /\ Ahead(t)'
              /\ \A u \in Thread : u # t => Ahead(u)' = Ahead(u)
           \/ /\ pc[t] # "return" /\ \A u \in Thread : Ahead(u)' = Ahead(u)
              /\ mNotReady > 0 => mNotReady' > 0
           \/ /\ pc[t] # "return" /\ \A u \in Thread : Ahead(u) /\ ~Ahead(u)'
              /\ \A u \in Thread : pc[u] # "outside"
<1> PICK r \in 0 .. Rounds - 1 : Gathering(r) \/ Complete(r) BY DEF RoundInv
<1> PICK q \in 0 .. Rounds - 1 : Gathering(q)' \/ Complete(q)' BY DEF RoundInv
<1>0. \A u \in Thread : pc[u] \in Label BY DEF RoundInv
<1>1. \A u \in Thread : u # t => pc'[u] = pc[u]
  BY DEF Await, Step, LockReady, EnterReady, CountDown, WaitersGone, Reset, LockWaiting,
         EnterWaiting, Announce, UnlockReady, Spin, SpinAgain, LockLeaving, EnterLeaving,
         Leave, Return, Goto, RoundInv, vars
<1>2. CASE Return(t)
  <2>1. pc[t] = "return" /\ pc'[t] = "outside" /\ mNotReady' = mNotReady
    BY <1>2 DEF Return, Goto, RoundInv, countVars
  <2> QED BY <1>1, <2>1 DEF Ahead
<1>3. CASE CountDown(t)
  <2>1. pc[t] = "count" /\ mNotReady' = mNotReady - 1 /\ returned' = returned
        /\ pc'[t] = IF mNotReady = 1 THEN "last" ELSE "announce"
    BY <1>3 DEF CountDown, Goto, RoundInv, roundVars
  <2>2. Gathering(r) BY <2>1 DEF Complete
  <2>3. mNotReady \in Nat /\ mNotReady > 0 BY <2>2 DEF Gathering, RoundInv
  <2>4. CASE mNotReady # 1
    <3>1. mNotReady' > 0 BY <2>1, <2>3, <2>4
    <3> QED BY <1>1, <2>1, <2>3, <2>4, <3>1 DEF Ahead
  <2>5. CASE mNotReady = 1
    <3>1. mNotReady' = 0 /\ Complete(q)' BY <2>1, <2>5 DEF Gathering
    <3>2. q = r
      BY <2>1, <2>2, <2>5, <3>1 DEF Gathering, Complete
    <3>3. ASSUME NEW u \in Thread, u # t PROVE pc[u] = "spin"
      <4>1. pc'[u] = pc[u] BY <1>1, <3>3
      <4>2. returned[u] = IF pc[u] = "return" THEN (r - 1) % Rounds ELSE r
        BY <2>2 DEF Gathering
      <4>3. returned[u] = IF pc[u] \in {"outside", "ready", "readyLock"}
                          THEN (r + 1) % Rounds ELSE r
        BY <2>1, <3>1, <3>2, <4>1 DEF Complete
      <4>4. (r - 1) % Rounds # r /\ (r + 1) % Rounds # r BY DEF Rounds
      <4>5. pc[u] \notin {"return", "outside", "ready", "readyLock"} BY <4>2, <4>3, <4>4
      <4>6. pc[u] \in {"last", "reset", "spin", "leave", "leaveLock", "left", "return",
                       "outside", "ready", "readyLock"}
        BY <3>1, <4>1 DEF Complete
      <4>7. pc[u] \notin {"last", "reset", "leave", "leaveLock", "left"} BY <2>2 DEF Gathering
      <4> QED BY <4>5, <4>6, <4>7
    <3>4. \A u \in Thread : pc[u] \in {"count", "spin"} /\ pc'[u] \in {"last", "spin"}
      BY <1>1, <2>1, <2>5, <3>3
    <3> QED BY <2>1, <2>3, <3>1, <3>4 DEF Ahead
  <2> QED BY <2>4, <2>5
<1>4. CASE Reset(t)
  <2>1. pc[t] = "reset" /\ pc'[t] = "return"
    BY <1>4 DEF Reset, Goto, RoundInv
  <2>2. Complete(r) /\ Counted = {} BY <2>1 DEF Gathering, Complete
  <2>3. mNotReady' = Cardinality(Thread) BY <1>4 DEF Reset, SetNotReady, mSize
  <2>4. mNotReady' > 0 /\ Gathering(q)'
    BY <2>3, BarrierAssumption, FS_CardinalityType, FS_EmptySet DEF Complete
  <2>5. \A u \in Thread : u # t => pc[u] \in {"return", "outside", "ready", "readyLock"}
    <3>1. \A u \in Thread : u # t => pc[u] \notin {"last", "reset"}
      BY <1>1, <2>4 DEF Gathering
    <3> QED BY <2>2, <3>1 DEF Complete, Counted
  <2>6. mNotReady = 0 BY <2>2 DEF Complete
  <2> QED BY <1>1, <2>1, <2>4, <2>5, <2>6 DEF Ahead
<1>5. CASE \/ Await(t) \/ LockReady(t) \/ EnterReady(t) \/ WaitersGone(t) \/ LockWaiting(t)
           \/ EnterWaiting(t) \/ Announce(t) \/ UnlockReady(t) \/ Spin(t) \/ SpinAgain(t)
           \/ LockLeaving(t) \/ EnterLeaving(t) \/ Leave(t)
  <2>1. mNotReady' = mNotReady
    BY <1>5 DEF Await, LockReady, EnterReady, WaitersGone, LockWaiting, EnterWaiting, Announce,
                UnlockReady, Spin, SpinAgain, LockLeaving, EnterLeaving, Leave, vars, countVars
  <2>2. \/ pc[t] = "outside" /\ pc'[t] = "ready"
        \/ pc[t] = "ready" /\ pc'[t] = "readyLock"
        \/ pc[t] = "readyLock" /\ pc'[t] = "count"
        \/ pc[t] \in {"last", "announce", "announceLock", "announced", "unlock", "spin",
                      "leave", "leaveLock"}
           /\ pc'[t] \notin {"return", "outside", "ready", "readyLock"}
        \/ pc[t] = "left" /\ pc'[t] = "return"
    BY <1>5 DEF Await, LockReady, EnterReady, WaitersGone, LockWaiting, EnterWaiting, Announce,
                UnlockReady, Spin, SpinAgain, LockLeaving, EnterLeaving, Leave, Goto, RoundInv, vars
  <2>3. pc'[t] = "count" => mNotReady > 0
    BY <2>1 DEF Complete, Gathering
  <2>4. pc[t] = "left" => mNotReady = 0
    BY DEF Complete, Gathering
  <2>5. Ahead(t)' = Ahead(t)
    <3>1. mNotReady \in Nat BY DEF RoundInv
    <3> QED BY <2>1, <2>2, <2>3, <2>4, <3>1 DEF Ahead
  <2> QED BY <1>1, <2>1, <2>2, <2>5 DEF Ahead
<1> QED BY <1>2, <1>3, <1>4, <1>5 DEF Step
----------------------------------------------------------------------------
(* SpinlockTest and CATTest *)
LEMMA Rest ==
    /\ 0 \in Thread /\ Thread \subseteq Nat /\ mSize \in Nat \ {0} /\ WAY_COUNT \in Nat \ {0}
    /\ Period \in Nat \ {0}
    /\ program = "CATTest" => Period = WAY_COUNT /\ \A t \in Thread : t < Period
    /\ program = "SpinlockTest" => Period = 4
<1>1. mSize \in Nat /\ Thread = 0 .. mSize - 1
  BY BarrierAssumption, BaremetalAssumption, FS_CardinalityType DEF mSize
<1>2. mSize # 0
  <2> SUFFICES ASSUME mSize = 0 PROVE FALSE
    OBVIOUS
  <2> QED BY <1>1, BarrierAssumption
<1> QED BY <1>1, <1>2, BaremetalAssumption DEF Period, Prints

LEMMA NextOnWay ==
    ASSUME NEW n \in 0 .. Period - 1
    PROVE  (n + 1) % Period = Plus(n, 1)
<1>1. Period \in Nat \ {0} /\ 1 \in 0 .. Period BY Rest
<1> QED BY <1>1, ReadyLock!WrappedSum DEF Plus

LEMMA PlusOnWay ==
    ASSUME NEW a \in 0 .. Period - 1, NEW b \in 0 .. Period - 1
    PROVE  /\ Plus(a, b) \in 0 .. Period - 1
           /\ Plus(b, 1) \in 0 .. Period - 1
           /\ Plus(Plus(a, b), 1) = Plus(a, Plus(b, 1))
<1>1. Period \in Nat \ {0} BY Rest
<1> DEFINE P == Period
<1>2. P \in Nat \ {0} /\ a \in 0 .. P - 1 /\ b \in 0 .. P - 1
      /\ \A x, y : Plus(x, y) = IF x + y < P THEN x + y ELSE x + y - P
  BY <1>1 DEF Plus
<1> HIDE DEF P
<1>3. Plus(a, b) \in 0 .. P - 1 /\ Plus(b, 1) \in 0 .. P - 1 BY <1>2
<1>4. Plus(Plus(a, b), 1) = Plus(a, Plus(b, 1)) BY <1>2
<1> QED BY <1>3, <1>4 DEF P

LEMMA StartOnWay == program \in Barriers => \A t \in Thread : Start(t) \in 0 .. Period - 1
BY Rest DEF Start, Barriers

(* next of each core is one of its ways. *)
LEMMA NextRange ==
    ASSUME program \in Barriers, WaysInv
    PROVE  \A t \in Thread : next[t] \in 0 .. Period - 1
<1> SUFFICES ASSUME NEW t \in Thread PROVE next[t] \in 0 .. Period - 1
  OBVIOUS
<1> PICK w \in 0 .. Period - 1 : \A u \in Thread :
        next[u] = Plus(Start(u), IF Ahead(u) THEN Plus(w, 1) ELSE w)
  BY DEF WaysInv
<1>1. Start(t) \in 0 .. Period - 1 BY StartOnWay
<1>2. Plus(w, 1) \in 0 .. Period - 1 BY <1>1, PlusOnWay
<1> QED BY <1>1, <1>2, PlusOnWay

(* The step of a core in the barrier, and what it does in its program. *)
BarrierStep(c) ==
    /\ program \in Barriers /\ program' = program
    /\ Await(c) \/ Step(c)
    /\ IF pc[c] = "return"
       THEN /\ work' = [work EXCEPT ![c] = Continue(c)]
            /\ next' = [next EXCEPT ![c] = Plus(@, 1)]
       ELSE UNCHANGED <<work, next>>
    /\ pc[c] = "outside" => work[c] = <<>>

LEMMA WaysStep ==
    ASSUME ProgramInv, RoundInv, RoundInv', NEW c \in Thread, BarrierStep(c)
    PROVE  WaysInv'
<1> program \in Barriers /\ program' = program BY DEF BarrierStep
<1> PICK w \in 0 .. Period - 1 : \A u \in Thread :
        next[u] = Plus(Start(u), IF Ahead(u) THEN Plus(w, 1) ELSE w)
  BY DEF ProgramInv, BarrierInv, WaysInv
<1>1. \A u \in Thread : Start(u) \in 0 .. Period - 1 BY StartOnWay
<1>2. Plus(w, 1) \in 0 .. Period - 1 BY <1>1, Rest, PlusOnWay
<1>3. SUFFICES \E v \in 0 .. Period - 1 : \A u \in Thread :
                   next'[u] = Plus(Start(u), IF Ahead(u)' THEN Plus(v, 1) ELSE v)
  BY DEF WaysInv, Plus, Period, Start
<1>4. CASE pc[c] # "return"
  <2>1. next' = next BY <1>4 DEF BarrierStep
  <2>2. \/ \A u \in Thread : Ahead(u)' = Ahead(u)
        \/ \A u \in Thread : Ahead(u) /\ ~Ahead(u)'
    BY <1>4, AheadSteps DEF BarrierStep
  <2>3. CASE \A u \in Thread : Ahead(u)' = Ahead(u)
    BY <2>1, <2>3
  <2>4. CASE \A u \in Thread : Ahead(u) /\ ~Ahead(u)'
    BY <1>2, <2>1, <2>4
  <2> QED BY <2>2, <2>3, <2>4
<1>5. CASE pc[c] = "return"
  <2>1. /\ ~Ahead(c) /\ Ahead(c)' /\ \A u \in Thread : u # c => Ahead(u)' = Ahead(u)
    BY <1>5, AheadSteps DEF BarrierStep
  <2>2. next' = [next EXCEPT ![c] = Plus(next[c], 1)] /\ next = [u \in Thread |-> next[u]]
    BY <1>5 DEF BarrierStep, ProgramInv
  <2>3. next'[c] = Plus(Start(c), Plus(w, 1))
    BY <1>1, <2>1, <2>2, PlusOnWay
  <2> QED BY <2>1, <2>2, <2>3
<1> QED BY <1>4, <1>5

LEMMA ContinueWork ==
    ASSUME program \in Barriers, NEW c \in Thread, next[c] \in 0 .. Period - 1
    PROVE  /\ Continue(c) \in Seq(WorkItem)
           /\ \A i \in 1 .. Len(Continue(c)) : Continue(c)[i].on = next[c]
           /\ program = "SpinlockTest" /\ Continue(c) # <<>> => next[c] = c
<1>1. next[c] \in Nat BY Rest
<1> DEFINE Item(what) == [what |-> what, on |-> next[c]]
<1>2. \A w \in What : Item(w) \in WorkItem
  BY <1>1 DEF WorkItem
<1>3. \A what : Item(what).on = next[c]
  OBVIOUS
<1>4. \A what : Do(what, next[c]) = Item(what)
  BY DEF Do
<1> HIDE DEF Item
<1>5. CASE Continue(c) = <<>>
  BY <1>5
<1>6. ASSUME NEW what \in {"load", "print"}, Continue(c) = <<Item(what)>>
      PROVE  /\ Continue(c) \in Seq(WorkItem)
             /\ \A i \in 1 .. Len(Continue(c)) : Continue(c)[i].on = next[c]
  <2>1. Continue(c) \in Seq(WorkItem)
    <3>2. Item(what) \in WorkItem BY <1>2 DEF What
    <3> QED BY <3>2, <1>6
  <2>2. Len(Continue(c)) = 1 /\ Continue(c)[1] = Item(what) BY <1>6
  <2> QED BY <1>3, <2>1, <2>2
<1>7. CASE Continue(c) = <<Item("evict"), Item("warmup"), Item("measure")>>
  <2>1. Continue(c) \in Seq(WorkItem)
    <3>1. Item("evict") \in WorkItem /\ Item("warmup") \in WorkItem /\ Item("measure") \in WorkItem
      BY <1>2 DEF What
    <3> QED BY <3>1, <1>7
  <2>2. Len(Continue(c)) = 3 /\ Continue(c)[1] = Item("evict") /\ Continue(c)[2] = Item("warmup")
        /\ Continue(c)[3] = Item("measure")
    BY <1>7
  <2>3. program # "SpinlockTest"
    BY <1>7, <1>4, <2>2 DEF Continue, printText
  <2> QED BY <1>3, <2>1, <2>2, <2>3
<1>8. CASE program = "SpinlockTest"
  <2>1. Continue(c) = IF next[c] = c THEN <<Item("print")>> ELSE <<>>
    BY <1>4, <1>8 DEF Continue, printText
  <2> QED BY <1>5, <1>6, <2>1
<1>9. CASE program # "SpinlockTest"
  <2>1. Continue(c) = IF c = 0 THEN <<Item("evict"), Item("warmup"), Item("measure")>>
                      ELSE <<Item("load")>>
    BY <1>4, <1>9 DEF Continue, measure_core, secondary_cores
  <2> QED BY <1>6, <1>7, <1>9, <2>1
<1> QED BY <1>8, <1>9

LEMMA OthersStay ==
    ASSUME RoundInv, NEW c \in Thread, Await(c) \/ Step(c)
    PROVE  \A u \in Thread : u # c => pc'[u] = pc[u]
BY DEF Await, Step, LockReady, EnterReady, CountDown, WaitersGone, Reset, LockWaiting,
       EnterWaiting, Announce, UnlockReady, Spin, SpinAgain, LockLeaving, EnterLeaving,
       Leave, Return, Goto, RoundInv, vars

LEMMA WarmingStep ==
    ASSUME ProgramInv, RoundInv, RoundInv', NEW c \in Thread, BarrierStep(c), Warming
    PROVE  (Warming \/ WorkOnWay)'
<1>1. pc[c] # "return" /\ work' = work /\ program' = program
  BY DEF BarrierStep, Warming
<1>2. mNotReady > 0 /\ mNotReady \in Nat BY DEF Warming, RoundInv
<1>3. CASE c = 0
  <2>1. \A t \in Thread : work[t] = <<>> BY <1>3 DEF BarrierStep, Warming
  <2> QED BY <1>1, <2>1 DEF WorkOnWay
<1>4. CASE c # 0
  <2>0. 0 \in Thread BY Rest
  <2>1. pc'[0] = "outside" BY <1>4, <2>0, OthersStay DEF BarrierStep, Warming
  <2>2. Ahead(c)' = Ahead(c) /\ mNotReady' > 0
    BY <1>1, <1>2, <2>0, AheadSteps DEF BarrierStep, Warming
  <2>3. pc'[c] # "return" BY <1>1, <1>2, <2>2 DEF Ahead
  <2>4. \A t \in Thread : pc'[t] # "return"
    BY <2>3, OthersStay DEF BarrierStep, Warming
  <2> QED BY <1>1, <2>1, <2>2, <2>4 DEF Warming
<1> QED BY <1>3, <1>4

LEMMA WorkStep ==
    ASSUME ProgramInv, RoundInv, RoundInv', NEW c \in Thread, BarrierStep(c), WorkOnWay
    PROVE  WorkOnWay'
<1>1. program \in Barriers /\ program' = program BY DEF BarrierStep
<1>2. \A u \in Thread : u # c => pc'[u] = pc[u] BY OthersStay DEF BarrierStep
<1>3. CASE pc[c] # "return"
  <2>1. work' = work /\ next' = next BY <1>3 DEF BarrierStep
  <2>2. work[c] = <<>> BY DEF BarrierStep, WorkOnWay
  <2>3. SUFFICES ASSUME NEW d \in Thread, work[d] # <<>>
                 PROVE  pc'[d] = "outside" /\ Plus(Head(work[d]).on, 1) = next[d]
                        /\ (\A i \in 1 .. Len(work[d]) :
                               work[d][i].on = Head(work[d]).on /\ work[d][i].on \in 0 .. Period - 1)
                        /\ (program = "SpinlockTest" => Head(work[d]).on = d)
    BY <1>1, <2>1 DEF WorkOnWay, Plus, Period
  <2> QED BY <1>2, <2>2, <2>3 DEF WorkOnWay
<1>4. CASE pc[c] = "return"
  <2>1. /\ work' = [work EXCEPT ![c] = Continue(c)] /\ work = [t \in Thread |-> work[t]]
        /\ next' = [next EXCEPT ![c] = Plus(next[c], 1)] /\ next = [t \in Thread |-> next[t]]
    BY <1>4 DEF BarrierStep, ProgramInv
  <2>2. pc'[c] = "outside" BY <1>4, AheadSteps DEF BarrierStep
  <2>3. next[c] \in 0 .. Period - 1
    BY <1>1, NextRange DEF ProgramInv, BarrierInv
  <2>4. /\ Continue(c) \in Seq(WorkItem)
        /\ \A i \in 1 .. Len(Continue(c)) : Continue(c)[i].on = next[c]
        /\ program = "SpinlockTest" /\ Continue(c) # <<>> => next[c] = c
    BY <1>1, <2>3, ContinueWork
  <2>5. SUFFICES ASSUME NEW d \in Thread, work'[d] # <<>>
                 PROVE  /\ pc'[d] = "outside" /\ Plus(Head(work'[d]).on, 1) = next'[d]
                        /\ \A i \in 1 .. Len(work'[d]) :
                               /\ work'[d][i].on = Head(work'[d]).on
                               /\ work'[d][i].on \in 0 .. Period - 1
                        /\ program = "SpinlockTest" => Head(work'[d]).on = d
    BY <1>1 DEF WorkOnWay, Plus, Period
  <2>6. CASE d # c
    BY <1>2, <2>1, <2>5, <2>6 DEF WorkOnWay
  <2>7. CASE d = c
    <3>1. work'[d] = Continue(c) /\ next'[d] = Plus(next[c], 1) BY <2>1, <2>7
    <3>2. Head(Continue(c)) = Continue(c)[1] /\ Len(Continue(c)) \in Nat \ {0}
      BY <2>4, <2>5, <3>1
    <3>3. Head(Continue(c)).on = next[c] BY <2>4, <3>2
    <3> QED BY <2>2, <2>3, <2>4, <2>5, <2>7, <3>1, <3>3
  <2> QED BY <2>6, <2>7
<1> QED BY <1>3, <1>4

LEMMA WorkSeqs ==
    ASSUME ProgramInv, RoundInv, NEW c \in Thread, BarrierStep(c)
    PROVE  \A d \in Thread : work'[d] \in Seq(WorkItem)
<1>1. program \in Barriers BY DEF BarrierStep
<1>2. /\ work = [t \in Thread |-> work[t]]
      /\ \A d \in Thread : work[d] \in Seq(WorkItem)
  BY <1>1 DEF ProgramInv, BarrierInv
<1>3. next[c] \in 0 .. Period - 1
  BY <1>1, NextRange DEF ProgramInv, BarrierInv
<1>4. Continue(c) \in Seq(WorkItem)
  BY <1>1, <1>3, ContinueWork
<1>5. work' = work \/ work' = [work EXCEPT ![c] = Continue(c)]
  BY DEF BarrierStep
<1> QED BY <1>2, <1>4, <1>5

LEMMA BarrierInvStep ==
    ASSUME ProgramInv, RoundInv, RoundInv', NEW c \in Thread, BarrierStep(c)
    PROVE  ProgramInv'
<1>1. program \in Barriers /\ program' = program /\ program \in Programs
  BY DEF BarrierStep, Programs
<1>2. WaysInv' BY WaysStep
<1>3. (Warming \/ WorkOnWay)'
  BY <1>1, WarmingStep, WorkStep DEF ProgramInv, BarrierInv
<1>4. BarrierInv' BY <1>2, <1>3, WorkSeqs DEF BarrierInv
<1>5. TurnInv' /\ AloneInv' BY <1>1 DEF Barriers, TurnInv, AloneInv
<1>6. (work = [d \in Thread |-> work[d]] /\ next = [d \in Thread |-> next[d]])'
  BY DEF BarrierStep, ProgramInv
<1> QED BY <1>1, <1>4, <1>5, <1>6 DEF ProgramInv

LEMMA PieceOfWork ==
    ASSUME ProgramInv, NEW c \in Thread, Work(c), program \in Barriers
    PROVE  BarrierInv'
<1>1. /\ work' = [work EXCEPT ![c] = Tail(work[c])] /\ work = [t \in Thread |-> work[t]]
      /\ work[c] # <<>> /\ work[c] \in Seq(WorkItem)
      /\ next' = next /\ program' = program /\ pc' = pc /\ mNotReady' = mNotReady
  BY DEF Work, vars, countVars, ProgramInv, BarrierInv
<1> DEFINE left == work[c]
           rest == Tail(left)
<1>2. /\ rest \in Seq(WorkItem) /\ Len(rest) = Len(left) - 1 /\ Len(left) \in Nat
      /\ \A i \in 1 .. Len(rest) : rest[i] = left[i + 1]
  BY <1>1, HeadTailProperties, LenProperties
<1>3. \A d \in Thread : work'[d] = IF d = c THEN rest ELSE work[d]
  BY <1>1
<1> HIDE DEF rest
<1>4. WaysInv'
  <2>1. WaysInv BY DEF ProgramInv, BarrierInv
  <2> QED BY <1>1, <2>1 DEF WaysInv, Ahead, Plus, Start, Period
<1>5. \A d \in Thread : work'[d] \in Seq(WorkItem)
  <2>1. \A d \in Thread : work[d] \in Seq(WorkItem) BY DEF ProgramInv, BarrierInv
  <2> QED BY <1>2, <1>3, <2>1
<1>6. CASE Warming
  <2>1. c = 0 BY <1>1, <1>6 DEF Warming
  <2> QED BY <1>1, <1>3, <1>4, <1>5, <1>6, <2>1 DEF Warming, BarrierInv
<1>7. CASE WorkOnWay
  <2>1. SUFFICES ASSUME NEW d \in Thread, work'[d] # <<>>
                 PROVE  /\ pc[d] = "outside" /\ Plus(Head(work'[d]).on, 1) = next[d]
                        /\ \A i \in 1 .. Len(work'[d]) :
                               /\ work'[d][i].on = Head(work'[d]).on
                               /\ work'[d][i].on \in 0 .. Period - 1
                        /\ program = "SpinlockTest" => Head(work'[d]).on = d
    BY <1>1, <1>4, <1>5 DEF WorkOnWay, BarrierInv, Plus, Period
  <2>2. CASE d # c
    BY <1>3, <1>7, <2>1, <2>2 DEF WorkOnWay
  <2>3. CASE d = c
    <3>1. work'[d] = rest /\ rest # <<>> BY <1>3, <2>1, <2>3
    <3>2. Len(rest) \in Nat \ {0} /\ Head(rest) = rest[1] BY <1>2, <3>1, EmptySeq
    <3>3. /\ pc[c] = "outside" /\ Plus(Head(left).on, 1) = next[c]
          /\ \A i \in 1 .. Len(left) :
                 left[i].on = Head(left).on /\ left[i].on \in 0 .. Period - 1
          /\ program = "SpinlockTest" => Head(left).on = c
      BY <1>1, <1>7 DEF WorkOnWay
    <3>4. \A i \in 1 .. Len(rest) :
             rest[i].on = Head(left).on /\ rest[i].on \in 0 .. Period - 1
      <4> SUFFICES ASSUME NEW i \in 1 .. Len(rest)
                   PROVE rest[i].on = Head(left).on /\ rest[i].on \in 0 .. Period - 1
        OBVIOUS
      <4>1. i + 1 \in 1 .. Len(left) /\ rest[i] = left[i + 1] BY <1>2
      <4> QED BY <3>3, <4>1
    <3>5. Head(rest).on = Head(left).on BY <3>2, <3>4
    <3> QED BY <2>3, <3>1, <3>3, <3>4, <3>5
  <2> QED BY <2>2, <2>3
<1> QED BY <1>6, <1>7 DEF ProgramInv, BarrierInv

----------------------------------------------------------------------------
(* CoherencyTest *)
Items(w) == {Do(w, k) : k \in Nat}

LEMMA LeftElements ==
    ASSUME NEW m \in 0 .. Words, NEW w
    PROVE  /\ Left(m, w) \in Seq(Items(w)) /\ Len(Left(m, w)) = m
           /\ \A i \in 1 .. m : Left(m, w)[i] = Do(w, Words - m + i)
<1>1. m \in Nat /\ Words \in Nat /\ m <= Words BY BaremetalAssumption
<1>2. \A i \in 1 .. m : Words - m + i \in Nat BY <1>1
<1>3. \A i \in 1 .. m : Do(w, Words - m + i) \in Items(w) BY <1>2 DEF Items
<1>4. Left(m, w) \in [1 .. m -> Items(w)] BY <1>3 DEF Left
<1>5. Left(m, w) \in Seq(Items(w)) BY <1>1, <1>4, SeqDef
<1>6. Len(Left(m, w)) = m BY <1>1, <1>4, <1>5, LenProperties DEF Left
<1> QED BY <1>5, <1>6 DEF Left

LEMMA LeftTail ==
    ASSUME NEW n \in 1 .. Words, NEW w
    PROVE  /\ Left(n, w) # <<>> /\ Head(Left(n, w)) = Do(w, Words - n + 1)
           /\ Tail(Left(n, w)) = Left(n - 1, w)
<1>0. n \in Nat /\ Words \in Nat /\ n <= Words BY BaremetalAssumption
<1>1. \A m \in 0 .. Words :
          /\ Left(m, w) \in Seq(Items(w)) /\ Len(Left(m, w)) = m
          /\ \A i \in 1 .. m : Left(m, w)[i] = Do(w, Words - m + i)
  BY LeftElements
<1>2. n - 1 \in 0 .. Words /\ n \in 0 .. Words BY <1>0
<1>3. Left(n, w) # <<>> BY <1>0, <1>1, <1>2
<1>4. /\ Tail(Left(n, w)) \in Seq(Items(w)) /\ Len(Tail(Left(n, w))) = n - 1
      /\ \A i \in 1 .. n - 1 : Tail(Left(n, w))[i] = Left(n, w)[i + 1]
  BY <1>1, <1>2, <1>3, HeadTailProperties
<1>5. \A i \in 1 .. n - 1 : Left(n, w)[i + 1] = Left(n - 1, w)[i]
  <2> SUFFICES ASSUME NEW i \in 1 .. n - 1 PROVE Left(n, w)[i + 1] = Left(n - 1, w)[i]
    OBVIOUS
  <2>1. i + 1 \in 1 .. n /\ Words - n + (i + 1) = Words - (n - 1) + i BY <1>0
  <2>2. Left(n, w)[i + 1] = Do(w, Words - n + (i + 1)) BY <1>1, <1>2, <2>1
  <2>3. Left(n - 1, w)[i] = Do(w, Words - (n - 1) + i) BY <1>1, <1>2
  <2> QED BY <2>1, <2>2, <2>3
<1>6. Tail(Left(n, w)) = Left(n - 1, w)
  BY <1>1, <1>2, <1>4, <1>5, SeqEqual
<1>7. Head(Left(n, w)) = Left(n, w)[1] /\ 1 \in 1 .. n BY <1>0
<1> QED BY <1>1, <1>2, <1>3, <1>6, <1>7

LEMMA NoItemsLeft == ASSUME NEW w PROVE Left(0, w) = <<>>
<1>1. 0 \in 0 .. Words BY BaremetalAssumption
<1>2. Left(0, w) \in Seq(Items(w)) /\ Len(Left(0, w)) = 0 BY <1>1, LeftElements
<1> QED BY <1>2, EmptySeq

LEMMA Everything ==
    Left(Words, "fill") = fillArray /\ Left(Words, "check") = checkCoherency
<1>1. \A i \in 1 .. Words : Words - Words + i = i BY BaremetalAssumption
<1> QED BY <1>1 DEF Left, fillArray, checkCoherency

(* The core before another in the ring; holding_pen is one of the cores.   *)
LEMMA Ring ==
    ASSUME NEW c \in Thread
    PROVE  /\ Previous(c) = Before(c) /\ Before(c) \in Thread
           /\ c % mSize = c
           /\ (c + 1) % mSize \in Thread /\ Before((c + 1) % mSize) = c
<1> DEFINE m == mSize
<1>1. m \in Nat \ {0} /\ c \in 0 .. m - 1 /\ Thread = 0 .. m - 1
  BY Rest, BaremetalAssumption
<1> HIDE DEF m
<1>2. (c - 1) % m = IF c = 0 THEN m - 1 ELSE c - 1
  <2>1. CASE m = 1 BY <1>1, <2>1
  <2>2. CASE m # 1
    <3>1. 1 \in 0 .. m - 1 BY <1>1, <2>2
    <3> QED BY <1>1, <3>1, ReadyLock!WrappedDifference
  <2> QED BY <2>1, <2>2
<1>3. c % m = c BY <1>1
<1>4. (c + 1) % m = IF c + 1 < m THEN c + 1 ELSE 0
  <2>1. 1 \in 0 .. m BY <1>1
  <2>2. (c + 1) % m = IF c + 1 < m THEN c + 1 ELSE c + 1 - m
    BY <1>1, <2>1, ReadyLock!WrappedSum
  <2>3. c + 1 < m \/ c + 1 - m = 0 BY <1>1
  <2> QED BY <2>2, <2>3
<1>5. (c + 1) % m \in 0 .. m - 1 BY <1>1, <1>4
<1>6. (IF c = 0 THEN m - 1 ELSE c - 1) \in 0 .. m - 1 BY <1>1
<1>7. (IF (c + 1) % m = 0 THEN m - 1 ELSE ((c + 1) % m) - 1) = c BY <1>1, <1>4
<1> QED BY <1>1, <1>2, <1>3, <1>5, <1>6, <1>7 DEF Previous, Before, m

LEMMA FillStep ==
    ASSUME ProgramInv, Fill
    PROVE  TurnInv'
<1>1. /\ program = "CoherencyTest" /\ program' = program /\ holdingPen' = holdingPen
      /\ work[0] # <<>> /\ Head(work[0]).what = "fill"
      /\ work' = [work EXCEPT ![0] = Tail(work[0])] /\ work = [t \in Thread |-> work[t]]
      /\ testarray' = [testarray EXCEPT ![Head(work[0]).on] = mSize - 1]
  BY DEF Fill, ProgramInv
<1>2. /\ holdingPen \in Thread /\ \A c \in Thread : c # holdingPen => work[c] = <<>>
      /\ \E n \in 0 .. Words : (n > 0 /\ Filling(n)) \/ Checking(n)
  BY <1>1 DEF ProgramInv, TurnInv
<1>3. PICK n \in 0 .. Words : (n > 0 /\ Filling(n)) \/ Checking(n) BY <1>2
<1>4. 0 \in Thread /\ n \in Nat /\ Words \in Nat BY Rest, BaremetalAssumption
<1>5. holdingPen = 0 BY <1>1, <1>2, <1>4
<1>6. n > 0 /\ Filling(n)
  <2> SUFFICES ASSUME Checking(n) PROVE FALSE
    BY <1>3
  <2>1. work[0] = Left(n, "check") BY <1>5 DEF Checking
  <2>2. n # 0 BY <1>1, <2>1, NoItemsLeft
  <2>3. Head(work[0]) = Do("check", Words - n + 1) BY <1>4, <2>1, <2>2, LeftTail
  <2> QED BY <1>1, <2>3 DEF Do
<1>7. /\ n \in 1 .. Words /\ n - 1 \in 0 .. Words /\ Words - (n - 1) = Words - n + 1
      /\ Words - n + 1 \in 1 .. Words
  BY <1>4, <1>6
<1>8. /\ Head(work[0]).on = Words - n + 1 /\ Tail(work[0]) = Left(n - 1, "fill")
  BY <1>6, <1>7, LeftTail DEF Filling, Do
<1>9. testarray' = [i \in 1 .. Words |-> IF i <= Words - (n - 1) THEN mSize - 1 ELSE 0]
  <2>1. testarray = [i \in 1 .. Words |-> IF i <= Words - n THEN mSize - 1 ELSE 0]
    BY <1>6 DEF Filling
  <2>2. \A i \in 1 .. Words : i <= Words - (n - 1) <=> i <= Words - n \/ i = Words - n + 1
    BY <1>4, <1>7
  <2> QED BY <1>1, <1>7, <1>8, <2>1, <2>2
<1>10. work'[0] = Left(n - 1, "fill") /\ \A c \in Thread : c # 0 => work'[c] = <<>>
  BY <1>1, <1>2, <1>4, <1>5, <1>8
<1>11. (n - 1 > 0 /\ Filling(n - 1)') \/ Checking(n - 1)'
  <2>1. CASE n - 1 > 0
    BY <1>1, <1>5, <1>9, <1>10, <2>1 DEF Filling, Left
  <2>2. CASE n = 1
    <3>1. work'[0] = Left(0, "check") BY <1>10, <2>2, NoItemsLeft
    <3>2. Before(0) = mSize - 1 BY DEF Before
    <3>3. testarray' = [i \in 1 .. Words |-> Before(0)]
      BY <1>4, <1>9, <2>2, <3>2
    <3> QED BY <1>1, <1>5, <2>2, <3>1, <3>3 DEF Checking, Left, Before
  <2> QED BY <1>7, <2>1, <2>2
<1>12. (\E k \in 0 .. Words : (k > 0 /\ Filling(k)) \/ Checking(k))'
  BY <1>7, <1>11
<1> QED BY <1>1, <1>2, <1>5, <1>10, <1>12 DEF TurnInv

LEMMA BeginCheckStep ==
    ASSUME ProgramInv, NEW c \in Thread, BeginCheck(c)
    PROVE  TurnInv'
<1>1. /\ program = "CoherencyTest" /\ program' = program /\ holdingPen' = holdingPen
      /\ testarray' = testarray /\ work[c] = <<>> /\ holdingPen % mSize = c
      /\ work' = [work EXCEPT ![c] = checkCoherency] /\ work = [t \in Thread |-> work[t]]
  BY DEF BeginCheck, ProgramInv
<1>2. /\ holdingPen \in Thread /\ \A d \in Thread : d # holdingPen => work[d] = <<>>
      /\ \E n \in 0 .. Words : (n > 0 /\ Filling(n)) \/ Checking(n)
  BY <1>1 DEF ProgramInv, TurnInv
<1>3. PICK n \in 0 .. Words : (n > 0 /\ Filling(n)) \/ Checking(n) BY <1>2
<1>4. c = holdingPen BY <1>1, <1>2, Ring
<1>5. n \in Nat /\ Words \in Nat \ {0} BY BaremetalAssumption
<1>6. n = 0 /\ Checking(n)
  <2>1. n > 0 => Left(n, "fill") # <<>> /\ Left(n, "check") # <<>>
    BY <1>5, LeftTail
  <2> QED BY <1>1, <1>3, <1>4, <1>5, <2>1 DEF Filling, Checking
<1>7. testarray = [i \in 1 .. Words |-> Before(holdingPen)] BY <1>6 DEF Checking
<1>8. testarray = [i \in 1 .. Words |->
          IF Words > 0 /\ i <= Words - Words THEN holdingPen ELSE Before(holdingPen)]
  BY <1>5, <1>7
<1>9. work'[c] = Left(Words, "check") /\ \A d \in Thread : d # c => work'[d] = <<>>
  BY <1>1, <1>2, <1>4, Everything
<1>10. Checking(Words)' BY <1>1, <1>4, <1>8, <1>9 DEF Checking, Left, Before
<1>11. Words \in 0 .. Words BY <1>5
<1> QED BY <1>1, <1>2, <1>4, <1>9, <1>10, <1>11 DEF TurnInv

LEMMA CheckStep ==
    ASSUME ProgramInv, NEW c \in Thread, Check(c)
    PROVE  TurnInv'
<1>1. /\ program = "CoherencyTest" /\ program' = program
      /\ work[c] # <<>> /\ Head(work[c]).what = "check" /\ work = [t \in Thread |-> work[t]]
  BY DEF Check, ProgramInv
<1>2. /\ holdingPen \in Thread /\ \A d \in Thread : d # holdingPen => work[d] = <<>>
      /\ \E n \in 0 .. Words : (n > 0 /\ Filling(n)) \/ Checking(n)
  BY <1>1 DEF ProgramInv, TurnInv
<1>3. PICK n \in 0 .. Words : (n > 0 /\ Filling(n)) \/ Checking(n) BY <1>2
<1>4. c = holdingPen BY <1>1, <1>2
<1>5. n \in Nat /\ Words \in Nat \ {0} BY BaremetalAssumption
<1>6. Checking(n)
  <2> SUFFICES ASSUME n > 0, Filling(n) PROVE FALSE
    BY <1>3
  <2>1. n \in 1 .. Words BY <1>5
  <2>2. Head(work[0]) = Do("fill", Words - n + 1) BY <2>1, LeftTail DEF Filling
  <2>3. c = 0 BY <1>4 DEF Filling
  <2> QED BY <1>1, <2>2, <2>3 DEF Do
<1>7. n # 0 BY <1>1, <1>4, <1>6, NoItemsLeft DEF Checking
<1> DEFINE i == Words - n + 1
<1>8. /\ n \in 1 .. Words /\ n - 1 \in 0 .. Words /\ Words - (n - 1) = i
      /\ i \in 1 .. Words /\ (i = Words <=> n = 1)
  BY <1>5, <1>7
<1>9. Head(work[c]).on = i /\ Tail(work[c]) = Left(n - 1, "check")
  BY <1>4, <1>6, <1>8, LeftTail DEF Checking, Do
<1>10. testarray = [k \in 1 .. Words |-> IF k <= Words - n THEN c ELSE Before(c)]
  BY <1>4, <1>5, <1>6, <1>7 DEF Checking
<1>11. testarray[i] = Previous(c)
  <2>1. ~(i <= Words - n) BY <1>5
  <2> HIDE DEF i
  <2> QED BY <1>8, <1>10, <2>1, Ring
<1>12. /\ testarray' = [testarray EXCEPT ![i] = c]
       /\ work' = [work EXCEPT ![c] = Left(n - 1, "check")]
       /\ IF i = Words THEN NextTurn ELSE holdingPen' = holdingPen
  BY <1>9, <1>11 DEF Check
<1>13. testarray' = [k \in 1 .. Words |-> IF k <= Words - (n - 1) THEN c ELSE Before(c)]
  <2>1. \A k \in 1 .. Words : k <= Words - (n - 1) <=> k <= Words - n \/ k = i
    BY <1>5, <1>8
  <2> HIDE DEF i
  <2> QED BY <1>8, <1>10, <1>12, <2>1
<1>14. /\ work'[c] = Left(n - 1, "check")
       /\ \A d \in Thread : d # c => work'[d] = <<>>
  BY <1>1, <1>2, <1>4, <1>12
<1>15. CASE n = 1
  <2>1. holdingPen' = (c + 1) % mSize BY <1>4, <1>8, <1>12, <1>15 DEF NextTurn
  <2>2. holdingPen' \in Thread /\ Before(holdingPen') = c BY <2>1, Ring
  <2>3. \A d \in Thread : work'[d] = <<>> BY <1>14, <1>15, NoItemsLeft
  <2>4. testarray' = [k \in 1 .. Words |-> c] BY <1>5, <1>13, <1>15
  <2>5. Checking(0)' BY <2>2, <2>3, <2>4, NoItemsLeft DEF Checking, Before, Left
  <2>6. 0 \in 0 .. Words BY <1>5
  <2> QED BY <1>1, <2>2, <2>3, <2>5, <2>6 DEF TurnInv
<1>16. CASE n # 1
  <2>1. holdingPen' = c BY <1>4, <1>8, <1>12, <1>16
  <2>2. n - 1 > 0 BY <1>8, <1>16
  <2>3. testarray' = [k \in 1 .. Words |->
            IF n - 1 > 0 /\ k <= Words - (n - 1) THEN c ELSE Before(c)]
    BY <1>13, <2>2
  <2>4. Checking(n - 1)' BY <1>14, <2>1, <2>3 DEF Checking, Before, Left
  <2> QED BY <1>1, <1>8, <1>14, <2>1, <2>4 DEF TurnInv
<1> QED BY <1>15, <1>16

----------------------------------------------------------------------------
(* The steps of a core are steps of its program.                           *)
LEMMA AwaitingStep ==
    ASSUME ProgramInv, RoundInv, RoundInv', NEW c \in Thread, CallAwait(c) \/ InAwait(c)
    PROVE  BarrierStep(c)
<1>1. CASE CallAwait(c)
  BY <1>1 DEF CallAwait, BarrierStep, programVars, Await
<1>2. CASE InAwait(c)
  <2>1. Step(c) /\ program' = program BY <1>2 DEF InAwait
  <2>2. pc[c] # "outside"
    BY <2>1 DEF Step, LockReady, EnterReady, CountDown, WaitersGone, Reset, LockWaiting,
                EnterWaiting, Announce, UnlockReady, Spin, SpinAgain, LockLeaving,
                EnterLeaving, Leave, Return
  <2>3. program \in Barriers BY <2>2 DEF ProgramInv
  <2>4. CASE pc[c] # "return"
    BY <1>2, <2>1, <2>2, <2>3, <2>4 DEF InAwait, BarrierStep
  <2>5. CASE pc[c] = "return"
    <3>1. /\ work' = [work EXCEPT ![c] = Continue(c)]
          /\ next' = [next EXCEPT ![c] = (next[c] + 1) % Period]
      BY <1>2, <2>5 DEF InAwait, Period
    <3>2. next[c] \in 0 .. Period - 1
      BY <2>3, NextRange DEF ProgramInv, BarrierInv
    <3> QED BY <2>1, <2>2, <2>3, <2>5, <3>1, <3>2, NextOnWay DEF BarrierStep
  <2> QED BY <2>4, <2>5
<1> QED BY <1>1, <1>2

LEMMA ProgramStepInv ==
    ASSUME ProgramInv, RoundInv, RoundInv', [ProgramNext]_allVars
    PROVE  ProgramInv'
<1> USE DEF Barriers
<1>1. CASE UNCHANGED allVars
  <2>1. /\ program' = program /\ next' = next /\ work' = work /\ holdingPen' = holdingPen
        /\ testarray' = testarray /\ pc' = pc /\ mNotReady' = mNotReady
    BY <1>1 DEF allVars, vars, programVars, countVars
  <2>2. BarrierInv'
    BY <2>1 DEF ProgramInv, BarrierInv, WaysInv, Ahead, Plus, Start, Period, Warming, WorkOnWay
  <2>3. TurnInv' /\ AloneInv'
    BY <2>1 DEF ProgramInv, TurnInv, AloneInv, Filling, Checking, Left, Before
  <2> QED BY <2>1, <2>2, <2>3 DEF ProgramInv
<1>2. SUFFICES ASSUME NEW c \in Thread, ProgramStep(c) PROVE ProgramInv'
  BY <1>1 DEF ProgramNext
<1>3. CASE CallAwait(c) \/ InAwait(c)
  BY <1>3, AwaitingStep, BarrierInvStep
<1>4. CASE Work(c)
  <2>1. /\ program' = program /\ next' = next /\ pc' = pc /\ work[c] # <<>>
        /\ work' = [work EXCEPT ![c] = Tail(work[c])]
        /\ program \in {"SpinlockTest", "CATTest", "HierarchyProfiling"}
    BY <1>4 DEF Work, vars
  <2>2. BarrierInv'
    <3>1. CASE program \in Barriers BY <1>4, <3>1, PieceOfWork
    <3>2. CASE program \notin Barriers BY <2>1, <3>2 DEF BarrierInv
    <3> QED BY <3>1, <3>2
  <2>3. TurnInv' /\ AloneInv'
    BY <2>1 DEF ProgramInv, TurnInv, AloneInv
  <2> QED BY <2>1, <2>2, <2>3 DEF ProgramInv
<1>5. CASE \/ BeginCheck(c) \/ Check(c) \/ (c = 0 /\ Fill)
  <2>1. /\ program' = program /\ program = "CoherencyTest" /\ next' = next /\ pc' = pc
        /\ \E s : work' = [work EXCEPT ![c] = s]
    <3>1. CASE BeginCheck(c) BY <3>1 DEF BeginCheck, vars
    <3>2. CASE Check(c)
      <4>1. work' = [work EXCEPT ![c] = Tail(@)] \/ work' = [work EXCEPT ![c] = <<>>]
        BY <3>2 DEF Check
      <4> QED BY <3>2, <4>1 DEF Check, vars
    <3>3. CASE c = 0 /\ Fill BY <3>3 DEF Fill, vars
    <3> QED BY <1>5, <3>1, <3>2, <3>3
  <2>2. TurnInv' BY <1>5, BeginCheckStep, CheckStep, FillStep
  <2>3. BarrierInv' /\ AloneInv' BY <2>1 DEF BarrierInv, AloneInv
  <2> QED BY <2>1, <2>2, <2>3 DEF ProgramInv
<1>6. CASE \/ AwaitRelease(c) \/ Profile(c) \/ (c = 0 /\ Release)
  <2>1. /\ program' = program /\ program = "MemoryProfiling" /\ next' = next /\ pc' = pc
        /\ work' = work \/ \E d, s : work' = [work EXCEPT ![d] = s]
    <3>1. CASE AwaitRelease(c) BY <3>1 DEF AwaitRelease, vars
    <3>2. CASE Profile(c) BY <3>2 DEF Profile, allVars, vars, programVars
    <3>3. CASE c = 0 /\ Release BY <3>3 DEF Release, vars
    <3> QED BY <1>6, <3>1, <3>2, <3>3
  <2>2. BarrierInv' /\ TurnInv' /\ AloneInv' BY <2>1 DEF BarrierInv, TurnInv, AloneInv
  <2> QED BY <2>1, <2>2 DEF ProgramInv
<1>7. CASE c = 0 /\ NextRun
  <2>1. /\ program' = program /\ program = "HierarchyProfiling" /\ next' = next /\ pc' = pc
        /\ work' = [work EXCEPT ![0] = MeasureSizes]
    BY <1>7 DEF NextRun, vars
  <2>2. BarrierInv' /\ TurnInv' /\ AloneInv'
    BY <2>1 DEF ProgramInv, BarrierInv, TurnInv, AloneInv
  <2> QED BY <2>1, <2>2 DEF ProgramInv
<1>8. \/ CallAwait(c) \/ InAwait(c) \/ Work(c) \/ BeginCheck(c) \/ Check(c)
      \/ AwaitRelease(c) \/ Profile(c)
      \/ c = 0 /\ Fill
      \/ c = 0 /\ Release
      \/ c = 0 /\ NextRun
  BY <1>2 DEF ProgramStep
<1> QED BY <1>3, <1>4, <1>5, <1>6, <1>7, <1>8

LEMMA WarmUpItems == WarmUpAll \in Seq(WorkItem)
<1>1. 2 * WAY_COUNT \in Nat BY BaremetalAssumption
<1>2. \A i \in 1 .. 2 * WAY_COUNT : (i - 1) \div 2 \in Nat BY <1>1
<1>3. \A i \in 1 .. 2 * WAY_COUNT :
          Do(IF i % 2 = 1 THEN "warmup" ELSE "measure", (i - 1) \div 2) \in WorkItem
  BY <1>2 DEF Do, WorkItem, What
<1>4. WarmUpAll \in [1 .. 2 * WAY_COUNT -> WorkItem] BY <1>3 DEF WarmUpAll
<1> QED BY <1>1, <1>4, SeqDef

LEMMA ProgramBegins == ProgramInit => ProgramInv
<1> SUFFICES ASSUME ProgramInit PROVE ProgramInv
  OBVIOUS
<1>1. /\ \A t \in Thread : pc[t] = "outside"
      /\ mNotReady > 0
      /\ next = [c \in Thread |-> Start(c)]
      /\ holdingPen = 0 /\ testarray = [i \in 1 .. Words |-> 0]
      /\ work = [c \in Thread |-> work[c]] /\ program \in Programs
      /\ \A c \in Thread : c # 0 \/ program = "SpinlockTest" => work[c] = <<>>
      /\ program = "CATTest" => work[0] = WarmUpAll
      /\ program = "CoherencyTest" => work[0] = fillArray
  <2>1. 0 \in Thread /\ mSize \in Nat \ {0} BY Rest
  <2>2. \A c \in Thread : c # 0 \/ program = "SpinlockTest" => work[c] = <<>>
    BY DEF ProgramInit
  <2>3. /\ program = "CATTest" => work[0] = WarmUpAll
        /\ program = "CoherencyTest" => work[0] = fillArray
    BY <2>1 DEF ProgramInit
  <2>4. work = [c \in Thread |-> work[c]] BY DEF ProgramInit
  <2> QED BY <2>1, <2>2, <2>3, <2>4 DEF ProgramInit, Init, Start
<1>2. BarrierInv
  <2> SUFFICES ASSUME program \in Barriers
               PROVE  WaysInv /\ (\A c \in Thread : work[c] \in Seq(WorkItem))
                      /\ (Warming \/ WorkOnWay)
    BY DEF BarrierInv
  <2>1. WaysInv
    <3>1. Period \in Nat \ {0} BY Rest
    <3>2. \A t \in Thread : Start(t) \in 0 .. Period - 1 BY StartOnWay
    <3>3. Period - 1 \in 0 .. Period - 1 /\ Plus(Period - 1, 1) = 0 BY <3>1 DEF Plus
    <3>4. \A t \in Thread : Plus(Start(t), 0) = Start(t) BY <3>1, <3>2 DEF Plus
    <3>5. \A t \in Thread : Ahead(t) BY <1>1 DEF Ahead
    <3>6. \A t \in Thread :
            next[t] = Plus(Start(t), IF Ahead(t) THEN Plus(Period - 1, 1) ELSE Period - 1)
      BY <1>1, <3>3, <3>4, <3>5
    <3> QED BY <3>3, <3>6 DEF WaysInv
  <2>2. \A c \in Thread : work[c] \in Seq(WorkItem)
    <3>1. \A c \in Thread : work[c] = <<>> \/ work[c] = WarmUpAll
      BY <1>1 DEF Barriers
    <3> QED BY <3>1, WarmUpItems, EmptySeq
  <2>3. Warming \/ WorkOnWay
    BY <1>1 DEF Barriers, Warming, WorkOnWay
  <2> QED BY <2>1, <2>2, <2>3
<1>3. TurnInv
  <2> SUFFICES ASSUME program = "CoherencyTest" PROVE TurnInv
    BY DEF TurnInv
  <2>1. Words \in Nat \ {0} /\ Words \in 0 .. Words /\ 0 \in Thread
    BY BaremetalAssumption, Rest
  <2>2. testarray = [i \in 1 .. Words |-> IF i <= Words - Words THEN mSize - 1 ELSE 0]
    BY <1>1, <2>1
  <2>3. Filling(Words) BY <1>1, <2>2, Everything DEF Filling
  <2> QED BY <1>1, <2>1, <2>3 DEF TurnInv
<1>4. AloneInv BY <1>1 DEF AloneInv
<1> QED BY <1>1, <1>2, <1>3, <1>4 DEF ProgramInv

(* What the invariant says about the cores at work.                        *)
LEMMA WaysApart ==
    ASSUME ProgramInv, program \in Barriers, NEW c \in Thread, NEW d \in Thread,
           AtWork(c), AtWork(d),
           program = "CATTest" => Head(work[c]).on = Head(work[d]).on
    PROVE  c = d
<1>1. CASE Warming BY <1>1 DEF Warming, AtWork
<1>2. CASE WorkOnWay
  <2>1. pc[c] = "outside" /\ pc[d] = "outside" BY <1>2 DEF WorkOnWay, AtWork
  <2>2. Ahead(c) /\ Ahead(d) BY <2>1 DEF Ahead
  <2>3. PICK w \in 0 .. Period - 1 :
            next[c] = Plus(Start(c), Plus(w, 1)) /\ next[d] = Plus(Start(d), Plus(w, 1))
    BY <2>2 DEF ProgramInv, BarrierInv, WaysInv
  <2>4. /\ Plus(Head(work[c]).on, 1) = next[c] /\ Plus(Head(work[d]).on, 1) = next[d]
    BY <1>2 DEF WorkOnWay, AtWork
  <2>5. /\ Period \in Nat \ {0} /\ Start(c) \in 0 .. Period - 1 /\ Start(d) \in 0 .. Period - 1
        /\ c \in Nat /\ d \in Nat
    BY Rest, StartOnWay
  <2>6. Plus(w, 1) \in 0 .. Period - 1 BY <2>5, PlusOnWay
  <2>7. CASE program = "CATTest"
    <3>1. Start(c) = c /\ Start(d) = d BY <2>7 DEF Start
    <3>2. Plus(c, Plus(w, 1)) = Plus(d, Plus(w, 1)) BY <2>3, <2>4, <2>7, <3>1
    <3> DEFINE v == Plus(w, 1)
    <3>3. Plus(c, v) = Plus(d, v) /\ v \in 0 .. Period - 1 BY <2>6, <3>2
    <3> HIDE DEF v
    <3>4. c \in 0 .. Period - 1 /\ d \in 0 .. Period - 1 BY <2>5, <3>1
    <3> QED BY <2>5, <3>3, <3>4 DEF Plus
  <2>8. CASE program = "SpinlockTest"
    <3>1. Start(c) = Start(d) BY <2>8 DEF Start
    <3>2. /\ Head(work[c]).on = c /\ Head(work[d]).on = d
      BY <1>2, <2>8 DEF WorkOnWay, AtWork
    <3>3. Plus(c, 1) = Plus(d, 1) BY <2>3, <2>4, <3>1, <3>2
    <3>4. c \in 0 .. Period - 1 /\ d \in 0 .. Period - 1
      <4>1. \A t \in Thread : AtWork(t) => Head(work[t]).on \in 0 .. Period - 1
        <5> SUFFICES ASSUME NEW t \in Thread, AtWork(t)
                     PROVE  Head(work[t]).on \in 0 .. Period - 1
          OBVIOUS
        <5>1. work[t] \in Seq(WorkItem) /\ work[t] # <<>>
          BY DEF ProgramInv, BarrierInv, AtWork
        <5>2. 1 \in 1 .. Len(work[t]) /\ Head(work[t]) = work[t][1] BY <5>1, EmptySeq
        <5> QED BY <1>2, <5>1, <5>2 DEF WorkOnWay
      <4> QED BY <3>2, <4>1
    <3> QED BY <2>5, <3>3, <3>4 DEF Plus
  <2> QED BY <2>7, <2>8 DEF Barriers
<1> QED BY <1>1, <1>2 DEF ProgramInv, BarrierInv

LEMMA WordsOfPrevious ==
    ASSUME ProgramInv, program = "CoherencyTest", NEW c \in Thread, AtWork(c),
           NEW i \in DOMAIN work[c], work[c][i].what = "check"
    PROVE  testarray[work[c][i].on] = Previous(c)
<1>1. PICK n \in 0 .. Words : (n > 0 /\ Filling(n)) \/ Checking(n)
  BY DEF ProgramInv, TurnInv
<1>2. c = holdingPen BY DEF ProgramInv, TurnInv, AtWork
<1>3. n \in Nat /\ Words \in Nat BY BaremetalAssumption
<1>4. /\ \A w : Len(Left(n, w)) = n /\ Left(n, w) \in Seq(Items(w))
      /\ \A w : \A k \in 1 .. n : Left(n, w)[k] = Do(w, Words - n + k)
  BY LeftElements
<1>5. \A w : DOMAIN Left(n, w) = 1 .. n BY DEF Left
<1>6. Checking(n)
  <2> SUFFICES ASSUME Filling(n) PROVE FALSE
    BY <1>1
  <2>1. work[c] = Left(n, "fill") BY <1>2 DEF Filling
  <2>2. work[c][i] = Do("fill", Words - n + i) BY <1>4, <1>5, <2>1
  <2> QED BY <2>2 DEF Do
<1>7. work[c] = Left(n, "check") BY <1>2, <1>6 DEF Checking
<1>8. i \in 1 .. n /\ work[c][i] = Do("check", Words - n + i) BY <1>4, <1>5, <1>7
<1> DEFINE k == Words - n + i
<1>9. work[c][i].on = k /\ k \in 1 .. Words /\ ~(k <= Words - n) BY <1>3, <1>8 DEF Do
<1> HIDE DEF k
<1>10. testarray[k] = Before(c) BY <1>2, <1>6, <1>9 DEF Checking
<1> QED BY <1>9, <1>10, Ring

(* SpinlockTest prints one core after the other, no two cores of CATTest   *)
(* work in one cache way, and each core of CoherencyTest reads what the    *)
(* core before it has written - for every number of cores, ways and words. *)
THEOREM WorkIsSeparate == ProgramSpec => []WorkSeparate
<1>1. ProgramInv => WorkSeparate
  <2> SUFFICES ASSUME ProgramInv PROVE WorkSeparate
    OBVIOUS
  <2>1. program = "CATTest" => \A c, d \in Thread :
            AtWork(c) /\ AtWork(d) /\ Head(work[c]).on = Head(work[d]).on => c = d
    BY WaysApart DEF Barriers
  <2>2. program \notin {"CATTest", "MemoryProfiling"} =>
            \A c, d \in Thread : AtWork(c) /\ AtWork(d) => c = d
    <3>1. CASE program = "SpinlockTest" BY <3>1, WaysApart DEF Barriers
    <3>2. CASE program = "CoherencyTest"
      BY <3>2 DEF ProgramInv, TurnInv, AtWork
    <3>3. CASE program = "HierarchyProfiling"
      BY <3>3 DEF ProgramInv, AloneInv, AtWork
    <3> QED BY <3>1, <3>2, <3>3 DEF ProgramInv, Programs, Barriers
  <2>3. \A c \in Thread : program = "CoherencyTest" /\ AtWork(c) =>
            \A i \in DOMAIN work[c] : work[c][i].what = "check" =>
                testarray[work[c][i].on] = Previous(c)
    BY WordsOfPrevious
  <2> QED BY <2>1, <2>2, <2>3 DEF WorkSeparate
<1>2. IInv => RoundInv BY DEF IInv
<1>3. ProgramSpec => []IInv BY ProgramImplementsBarrier, InvariantHolds
<1> QED BY <1>1, <1>2, <1>3, ProgramBegins, ProgramStepInv, PTL DEF ProgramSpec

=============================================================================
