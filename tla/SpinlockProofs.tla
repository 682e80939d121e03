---------------------------- MODULE SpinlockProofs ----------------------------
(***************************************************************************)
(* Proofs about Spinlock for any set of cores, of which there are no more  *)
(* than tickets: it has one holder and serves in the order of the tickets, *)
(* also when those wrap around.  The lemmas are about single steps, so     *)
(* that a module that composes several locks can use them for each.        *)
(***************************************************************************)
EXTENDS Spinlock, FiniteSetTheorems, SequenceTheorems, TLAPS

EnoughTickets ==
    /\ IsFiniteSet(Process) /\ Nil \notin Process
    /\ Modulus \in Nat \ {0} /\ Cardinality(Process) <= Modulus

(* The cores with a ticket, and how many there are. *)
Busy == {p \in Process : pc[p] # "outside"}
Drawn == Cardinality(Busy)

(* The tickets drawn are the ones from active on, each by one core.        *)
TicketInv ==
    /\ TypeOK
    /\ available = (active + Drawn) % Modulus
    /\ \A p \in Busy : Distance(p) < Drawn
    /\ \A p, q \in Busy : Distance(p) = Distance(q) => p = q
    /\ \A p \in Process : pc[p] = "holds" => Distance(p) = 0

(* The state of the abstract lock. *)
holder == IF Holders = {} THEN Nil ELSE CHOOSE p \in Holders : TRUE
waiting == [i \in 1 .. Cardinality(Waiters) |->
               CHOOSE p \in Waiters :
                   Cardinality({q \in Waiters : Distance(q) < Distance(p)}) = i - 1]

----------------------------------------------------------------------------
(* One wrap at most. *)
LEMMA WrappedSum ==
    ASSUME NEW m \in Nat \ {0}, NEW a \in 0 .. m - 1, NEW b \in 0 .. m
    PROVE  (a + b) % m = IF a + b < m THEN a + b ELSE a + b - m
OBVIOUS

LEMMA WrappedDifference ==
    ASSUME NEW m \in Nat \ {0}, NEW a \in 0 .. m - 1, NEW b \in 0 .. m - 1
    PROVE  (a - b) % m = IF a >= b THEN a - b ELSE a - b + m
OBVIOUS

LEMMA DrawnIsNumber ==
    ASSUME EnoughTickets
    PROVE  /\ IsFiniteSet(Busy) /\ Drawn \in 0 .. Modulus
           /\ \A p \in Process : pc[p] = "outside" => Drawn < Modulus
<1>1. /\ IsFiniteSet(Busy) /\ Drawn \in Nat /\ Drawn <= Cardinality(Process)
      /\ Cardinality(Process) = Drawn => Process = Busy
  BY FS_Subset, FS_CardinalityType DEF Busy, Drawn, EnoughTickets
<1>2. Cardinality(Process) \in Nat BY FS_CardinalityType DEF EnoughTickets
<1> QED BY <1>1, <1>2 DEF Busy, EnoughTickets

LEMMA InitTickets == ASSUME EnoughTickets, Init PROVE TicketInv
<1>1. Busy = {} BY DEF Init, Busy
<1>2. Drawn = 0 BY <1>1, FS_EmptySet DEF Drawn
<1>3. (0 + 0) % Modulus = 0 BY DEF EnoughTickets
<1> QED BY <1>1, <1>2, <1>3 DEF TicketInv, Init, TypeOK, EnoughTickets

(* A ticket's distance from active, before and after active moves on.      *)
LEMMA Distances ==
    ASSUME EnoughTickets, TypeOK, NEW p \in Process
    PROVE  /\ Distance(p) = IF myTicket[p] >= active THEN myTicket[p] - active
                            ELSE myTicket[p] - active + Modulus
           /\ Distance(p) \in 0 .. Modulus - 1
<1>1. /\ myTicket[p] \in 0 .. Modulus - 1 /\ active \in 0 .. Modulus - 1
      /\ Modulus \in Nat \ {0}
  BY DEF TypeOK, EnoughTickets
<1>2. (myTicket[p] - active) % Modulus =
          IF myTicket[p] >= active THEN myTicket[p] - active
          ELSE myTicket[p] - active + Modulus
  BY <1>1, WrappedDifference
<1> QED BY <1>1, <1>2 DEF Distance

(* lock draws the ticket after the last one. *)
LEMMA LockStep ==
    ASSUME EnoughTickets, TicketInv, NEW p \in Process, Lock(p)
    PROVE  /\ TicketInv'
           /\ Busy' = Busy \cup {p} /\ p \notin Busy /\ Drawn' = Drawn + 1
           /\ Distance(p)' = Drawn
           /\ \A q \in Busy : Distance(q)' = Distance(q)
<1>1. /\ pc[p] = "outside" /\ active' = active
      /\ available' = (available + 1) % Modulus
      /\ myTicket' = [myTicket EXCEPT ![p] = available]
      /\ pc' = [pc EXCEPT ![p] = "lock"]
  BY DEF Lock, FetchTicket, Increment, Goto
<1>2. TypeOK BY DEF TicketInv
<1>3. /\ available \in 0 .. Modulus - 1 /\ active \in 0 .. Modulus - 1
      /\ Modulus \in Nat \ {0} /\ Drawn \in 0 .. Modulus - 1
      /\ IsFiniteSet(Busy)
  BY <1>1, <1>2, DrawnIsNumber DEF TypeOK, EnoughTickets
<1>4. Drawn \in 0 .. Modulus /\ 1 \in 0 .. Modulus /\ Drawn + 1 \in 0 .. Modulus
  BY <1>3
<1>5. available = IF active + Drawn < Modulus THEN active + Drawn ELSE active + Drawn - Modulus
  BY <1>3, <1>4, WrappedSum DEF TicketInv
<1>6. available' = IF available + 1 < Modulus THEN available + 1 ELSE 0
  <2>1. (available + 1) % Modulus =
            IF available + 1 < Modulus THEN available + 1 ELSE available + 1 - Modulus
    BY <1>3, <1>4, WrappedSum
  <2> QED BY <2>1, <1>1, <1>3
<1>7. (active + (Drawn + 1)) % Modulus =
           IF active + (Drawn + 1) < Modulus THEN active + (Drawn + 1)
           ELSE active + (Drawn + 1) - Modulus
  BY <1>3, <1>4, WrappedSum
<1>8. TypeOK' BY <1>1, <1>2, <1>3, <1>6 DEF TypeOK
<1>9. Busy' = Busy \cup {p} /\ p \notin Busy
  BY <1>1, <1>2 DEF Busy, TypeOK
<1>10. Drawn' = Drawn + 1 BY <1>3, <1>9, FS_AddElement DEF Drawn
<1>11. Distance(p)' = Drawn
  <2>1. Distance(p)' = (available - active) % Modulus
    BY <1>1, <1>2 DEF Distance, TypeOK
  <2>2. (available - active) % Modulus =
            IF available >= active THEN available - active ELSE available - active + Modulus
    BY <1>3, WrappedDifference
  <2> QED BY <2>1, <2>2, <1>3, <1>5
<1>12. \A q \in Busy : q \in Process /\ q # p /\ Distance(q)' = Distance(q)
  BY <1>1, <1>2, <1>9 DEF Distance, TypeOK, Busy
<1>13. \A q \in Busy : Distance(q) \in Int /\ Distance(q) < Drawn
  BY <1>2, Distances DEF TicketInv, Busy
<1>14. available' = (active' + Drawn') % Modulus
  BY <1>1, <1>3, <1>5, <1>6, <1>10, <1>7
<1>15. \A q \in Busy' : Distance(q)' < Drawn'
  BY <1>3, <1>9, <1>10, <1>11, <1>12, <1>13
<1>16. \A q, r \in Busy' : Distance(q)' = Distance(r)' => q = r
  BY <1>3, <1>9, <1>11, <1>12, <1>13 DEF TicketInv
<1>17. \A q \in Process : pc'[q] = "holds" => Distance(q)' = 0
  <2> SUFFICES ASSUME NEW q \in Process, pc'[q] = "holds" PROVE Distance(q)' = 0
    OBVIOUS
  <2>1. pc[q] = "holds" /\ q \in Busy BY <1>1, <1>2 DEF TypeOK, Busy
  <2> QED BY <2>1, <1>12 DEF TicketInv
<1> QED BY <1>8, <1>9, <1>10, <1>11, <1>12, <1>14, <1>15, <1>16, <1>17 DEF TicketInv

(* The core that is served is the one at distance 0. *)
LEMMA EnterStep ==
    ASSUME EnoughTickets, TicketInv, NEW p \in Process, Enter(p)
    PROVE  /\ TicketInv'
           /\ Busy' = Busy /\ p \in Busy /\ Drawn' = Drawn
           /\ Distance(p) = 0
           /\ \A q \in Process : Distance(q)' = Distance(q)
<1>1. /\ pc[p] = "lock" /\ active = myTicket[p]
      /\ UNCHANGED <<available, active, myTicket>>
      /\ pc' = [pc EXCEPT ![p] = "holds"]
  BY DEF Enter, Served, Goto
<1>2. TypeOK BY DEF TicketInv
<1>3. Busy' = Busy /\ p \in Busy BY <1>1, <1>2 DEF Busy, TypeOK
<1>4. Drawn' = Drawn BY <1>3 DEF Drawn
<1>5. \A q \in Process : Distance(q)' = Distance(q) BY <1>1 DEF Distance
<1>6. Distance(p) = 0
  BY <1>1, <1>2, Distances DEF TypeOK, EnoughTickets
<1>7. TypeOK' BY <1>1, <1>2 DEF TypeOK
<1>8. \A q \in Process : pc'[q] = "holds" => Distance(q)' = 0
  BY <1>1, <1>2, <1>5, <1>6 DEF TicketInv, TypeOK
<1>9. Busy \subseteq Process BY DEF Busy
<1> QED BY <1>1, <1>3, <1>4, <1>5, <1>6, <1>7, <1>8, <1>9 DEF TicketInv

(* unlock brings all others one step nearer. *)
LEMMA UnlockStep ==
    ASSUME EnoughTickets, TicketInv, NEW p \in Process, Unlock(p)
    PROVE  /\ TicketInv'
           /\ Busy' = Busy \ {p} /\ p \in Busy /\ Drawn' = Drawn - 1
           /\ Distance(p) = 0
           /\ \A q \in Busy' : Distance(q)' = Distance(q) - 1
<1>1. /\ pc[p] = "holds" /\ active' = (active + 1) % Modulus
      /\ UNCHANGED <<available, myTicket>>
      /\ pc' = [pc EXCEPT ![p] = "outside"]
  BY DEF Unlock, Increment, Goto
<1>2. TypeOK BY DEF TicketInv
<1>3. p \in Busy /\ Distance(p) = 0 BY <1>1 DEF Busy, TicketInv
<1>4. /\ available \in 0 .. Modulus - 1 /\ active \in 0 .. Modulus - 1
      /\ Modulus \in Nat \ {0} /\ Drawn \in 1 .. Modulus
      /\ IsFiniteSet(Busy)
  BY <1>2, <1>3, DrawnIsNumber DEF TypeOK, EnoughTickets, TicketInv
<1>5. active' = IF active + 1 < Modulus THEN active + 1 ELSE 0
  <2>1. 1 \in 0 .. Modulus BY <1>4
  <2>2. (active + 1) % Modulus =
            IF active + 1 < Modulus THEN active + 1 ELSE active + 1 - Modulus
    BY <2>1, <1>4, WrappedSum
  <2> QED BY <2>2, <1>1, <1>4
<1>6. TypeOK' BY <1>1, <1>2, <1>4, <1>5 DEF TypeOK
<1>7. Busy' = Busy \ {p} BY <1>1, <1>2 DEF Busy, TypeOK
<1>8. Drawn' = Drawn - 1 BY <1>3, <1>4, <1>7, FS_RemoveElement DEF Drawn
<1>9. available' = (active' + Drawn') % Modulus
  <2>1. /\ active' \in 0 .. Modulus - 1 /\ Drawn' \in 0 .. Modulus - 1
        /\ Drawn' \in 0 .. Modulus /\ Drawn \in 0 .. Modulus
    BY <1>4, <1>5, <1>8
  <2>2. (active' + Drawn') % Modulus =
            IF active' + Drawn' < Modulus THEN active' + Drawn'
            ELSE active' + Drawn' - Modulus
    BY <2>1, <1>4, WrappedSum
  <2>4. (active + Drawn) % Modulus =
            IF active + Drawn < Modulus THEN active + Drawn ELSE active + Drawn - Modulus
    BY <2>1, <1>4, WrappedSum
  <2>3. available = (active + Drawn) % Modulus /\ available' = available
    BY <1>1 DEF TicketInv
  <2> QED BY <2>2, <2>3, <2>4, <1>4, <1>5, <1>8
<1>10. \A q \in Busy' : q \in Busy /\ q \in Process /\ q # p BY <1>7 DEF Busy
<1>11. \A q \in Busy' : Distance(q)' = Distance(q) - 1
  <2> SUFFICES ASSUME NEW q \in Busy' PROVE Distance(q)' = Distance(q) - 1
    OBVIOUS
  <2>1. q \in Process /\ Distance(q) # 0 BY <1>3, <1>10 DEF TicketInv
  <2>2. myTicket[q] \in 0 .. Modulus - 1
    BY <2>1, <1>2 DEF TypeOK
  <2>3. Distance(q)' = (myTicket[q] - active') % Modulus BY <1>1 DEF Distance
  <2>4. active' \in 0 .. Modulus - 1 BY <1>4, <1>5
  <2>5. (myTicket[q] - active') % Modulus =
            IF myTicket[q] >= active' THEN myTicket[q] - active'
            ELSE myTicket[q] - active' + Modulus
    BY <2>2, <2>4, <1>4, WrappedDifference
  <2>6. Distance(q) = IF myTicket[q] >= active THEN myTicket[q] - active
                      ELSE myTicket[q] - active + Modulus
    BY <2>1, <1>2, Distances
  <2> QED BY <2>1, <2>2, <2>3, <2>5, <2>6, <1>4, <1>5
<1>12. \A q \in Busy : Distance(q) \in Int /\ Distance(q) < Drawn
  BY <1>2, Distances DEF TicketInv, Busy
<1>13. \A q \in Busy' : Distance(q)' < Drawn' BY <1>4, <1>8, <1>10, <1>11, <1>12
<1>14. \A q, r \in Busy' : Distance(q)' = Distance(r)' => q = r
  BY <1>10, <1>11, <1>12 DEF TicketInv
<1>15. \A q \in Process : pc'[q] = "holds" => Distance(q)' = 0
  <2> SUFFICES ASSUME NEW q \in Process, pc'[q] = "holds" PROVE FALSE
    OBVIOUS
  <2>1. pc[q] = "holds" /\ q \in Busy /\ q # p BY <1>1, <1>2 DEF TypeOK, Busy
  <2> QED BY <2>1, <1>3 DEF TicketInv
<1> QED BY <1>3, <1>6, <1>7, <1>8, <1>9, <1>11, <1>13, <1>14, <1>15 DEF TicketInv

----------------------------------------------------------------------------
(* The abstract lock: the cores with a ticket, counted from active on.     *)

Order == [d \in 0 .. Drawn - 1 |-> CHOOSE p \in Busy : Distance(p) = d]

(* The tickets of those who wait begin at this distance. *)
FirstWaiting == IF Holders = {} THEN 0 ELSE 1

InTicketOrder ==
    /\ Order \in [0 .. Drawn - 1 -> Busy]
    /\ \A p \in Busy, d \in 0 .. Drawn - 1 : Order[d] = p <=> Distance(p) = d
    /\ Holders = IF FirstWaiting = 0 THEN {} ELSE {Order[0]}
    /\ FirstWaiting \in 0 .. Drawn
    /\ holder = IF FirstWaiting = 0 THEN Nil ELSE Order[0]
    /\ waiting \in Seq(Busy) /\ Len(waiting) = Drawn - FirstWaiting
    /\ \A i \in 1 .. Drawn - FirstWaiting : waiting[i] = Order[i - 1 + FirstWaiting]

(* No ticket is left out. *)
LEMMA OrderBusy ==
    ASSUME EnoughTickets, TicketInv
    PROVE  /\ Order \in [0 .. Drawn - 1 -> Busy]
           /\ \A d \in 0 .. Drawn - 1 : Order[d] \in Busy /\ Distance(Order[d]) = d
           /\ \A p \in Busy : Distance(p) \in 0 .. Drawn - 1 /\ Order[Distance(p)] = p
<1>1. \A p \in Busy : Distance(p) \in 0 .. Drawn - 1
  BY Distances, DrawnIsNumber DEF TicketInv, Busy, EnoughTickets
<1> DEFINE f == [p \in Busy |-> Distance(p)]
<1>2. f \in Injection(Busy, 0 .. Drawn - 1)
  BY <1>1 DEF TicketInv, Injection, IsInjective
<1>3. /\ IsFiniteSet(0 .. Drawn - 1) /\ Cardinality(0 .. Drawn - 1) = Cardinality(Busy)
  <2>1. Drawn \in Nat /\ 0 \in Int /\ Drawn - 1 \in Int BY DrawnIsNumber
  <2>2. /\ IsFiniteSet(0 .. Drawn - 1)
        /\ Cardinality(0 .. Drawn - 1) = IF 0 > Drawn - 1 THEN 0 ELSE Drawn - 1 - 0 + 1
    BY <2>1, FS_Interval
  <2> QED BY <2>1, <2>2 DEF Drawn
<1>4. f \in Surjection(Busy, 0 .. Drawn - 1) BY <1>2, <1>3, FS_Injection
<1>5. \A d \in 0 .. Drawn - 1 : \E p \in Busy : Distance(p) = d
  BY <1>4 DEF Surjection
<1>6. \A d \in 0 .. Drawn - 1 : Order[d] \in Busy /\ Distance(Order[d]) = d
  BY <1>5 DEF Order
<1>7. \A p \in Busy : Order[Distance(p)] = p
  BY <1>1, <1>6 DEF TicketInv
<1>8. Order \in [0 .. Drawn - 1 -> Busy] BY <1>6 DEF Order
<1> QED BY <1>1, <1>6, <1>7, <1>8

LEMMA CountBetween ==
    ASSUME EnoughTickets, TicketInv, NEW a \in 0 .. Drawn, NEW b \in a .. Drawn
    PROVE  Cardinality({q \in Busy : a <= Distance(q) /\ Distance(q) < b}) = b - a
<1> DEFINE S == {q \in Busy : a <= Distance(q) /\ Distance(q) < b}
           f == [q \in S |-> Distance(q)]
<1>1. Drawn \in Nat BY DrawnIsNumber
<1>2. f \in [S -> a .. b - 1]
  BY <1>1, OrderBusy
<1>3. f \in Injection(S, a .. b - 1)
  BY <1>2 DEF TicketInv, Injection, IsInjective
<1>4. f \in Surjection(S, a .. b - 1)
  <2> SUFFICES ASSUME NEW d \in a .. b - 1 PROVE \E q \in S : f[q] = d
    BY <1>2 DEF Surjection
  <2>1. d \in 0 .. Drawn - 1 BY <1>1
  <2>2. Order[d] \in Busy /\ Distance(Order[d]) = d BY <2>1, OrderBusy
  <2>3. Order[d] \in S BY <1>1, <2>2
  <2> QED BY <2>2, <2>3
<1>5. IsFiniteSet(S) BY DrawnIsNumber, FS_Subset
<1>6. Cardinality(a .. b - 1) = Cardinality(S)
  BY <1>3, <1>4, <1>5, FS_Bijection DEF Bijection, ExistsBijection
<1>7. a \in Int /\ b - 1 \in Int /\ a <= b BY <1>1
<1>8. Cardinality(a .. b - 1) = IF a > b - 1 THEN 0 ELSE (b - 1) - a + 1
  BY <1>7, FS_Interval
<1> QED BY <1>1, <1>6, <1>7, <1>8

(* The refinement mapping is the order of the tickets. *)
LEMMA MappingInOrder == EnoughTickets /\ TicketInv => InTicketOrder
<1> SUFFICES ASSUME EnoughTickets, TicketInv PROVE InTicketOrder
  OBVIOUS
<1>1. /\ Order \in [0 .. Drawn - 1 -> Busy]
      /\ \A d \in 0 .. Drawn - 1 : Order[d] \in Busy /\ Distance(Order[d]) = d
      /\ \A p \in Busy : Order[Distance(p)] = p /\ Distance(p) \in 0 .. Drawn - 1
  BY OrderBusy
<1>2. Drawn \in Nat BY DrawnIsNumber
<1>3. TypeOK BY DEF TicketInv
<1>4. \A p \in Holders : p \in Busy /\ Distance(p) = 0 /\ p = Order[0]
  BY <1>1 DEF TicketInv, Holders, Busy
<1>5. Holders = IF FirstWaiting = 0 THEN {} ELSE {Order[0]}
  BY <1>4 DEF FirstWaiting
<1>6. FirstWaiting \in 0 .. Drawn
  BY <1>1, <1>2, <1>4 DEF FirstWaiting
<1>7. holder = IF FirstWaiting = 0 THEN Nil ELSE Order[0]
  BY <1>5 DEF holder, FirstWaiting
<1>8. Waiters = {q \in Busy : FirstWaiting <= Distance(q) /\ Distance(q) < Drawn}
  <2>1. Waiters = Busy \ Holders BY <1>3 DEF Waiters, Busy, Holders, TypeOK
  <2>2. CASE FirstWaiting = 0
    BY <1>1, <1>2, <1>5, <2>1, <2>2
  <2>3. CASE FirstWaiting = 1
    <3>1. 1 <= Drawn BY <1>2, <1>6, <2>3
    <3>2. \A q \in Busy : q # Order[0] <=> 1 <= Distance(q)
      BY <1>1, <1>2, <3>1
    <3> QED BY <1>1, <1>2, <1>5, <2>1, <2>3, <3>2
  <2> QED BY <2>2, <2>3 DEF FirstWaiting
<1>9. Cardinality(Waiters) = Drawn - FirstWaiting
  BY <1>2, <1>6, <1>8, CountBetween
<1>10. \A p \in Waiters :
           Cardinality({q \in Waiters : Distance(q) < Distance(p)}) = Distance(p) - FirstWaiting
  <2> SUFFICES ASSUME NEW p \in Waiters
               PROVE  Cardinality({q \in Waiters : Distance(q) < Distance(p)})
                          = Distance(p) - FirstWaiting
    OBVIOUS
  <2>1. Distance(p) \in FirstWaiting .. Drawn BY <1>1, <1>2, <1>6, <1>8
  <2>2. {q \in Waiters : Distance(q) < Distance(p)} =
            {q \in Busy : FirstWaiting <= Distance(q) /\ Distance(q) < Distance(p)}
    BY <1>1, <1>2, <1>6, <1>8, <2>1
  <2> QED BY <1>6, <2>1, <2>2, CountBetween
<1>11. \A i \in 1 .. Drawn - FirstWaiting :
           Order[i - 1 + FirstWaiting] =
               CHOOSE p \in Waiters :
                   Cardinality({q \in Waiters : Distance(q) < Distance(p)}) = i - 1
  <2> SUFFICES ASSUME NEW i \in 1 .. Drawn - FirstWaiting
               PROVE  Order[i - 1 + FirstWaiting] =
                          CHOOSE p \in Waiters :
                              Cardinality({q \in Waiters : Distance(q) < Distance(p)}) = i - 1
    OBVIOUS
  <2> DEFINE d == i - 1 + FirstWaiting
  <2>1. d \in 0 .. Drawn - 1 /\ FirstWaiting <= d /\ d < Drawn /\ d - FirstWaiting = i - 1
    BY <1>2, <1>6
  <2>2. Order[d] \in Waiters /\ Distance(Order[d]) = d BY <1>1, <1>8, <2>1
  <2>3. \A p \in Waiters : Distance(p) - FirstWaiting = i - 1 => p = Order[d]
    <3> SUFFICES ASSUME NEW p \in Waiters, Distance(p) - FirstWaiting = i - 1
                 PROVE  p = Order[d]
      OBVIOUS
    <3>1. p \in Busy /\ Distance(p) \in Int BY <1>1, <1>2, <1>8
    <3>2. Distance(p) = d BY <3>1, <1>6, <2>1
    <3> QED BY <1>1, <3>1, <3>2
  <2> HIDE DEF d
  <2>4. Order[d] = CHOOSE p \in Waiters :
                       Cardinality({q \in Waiters : Distance(q) < Distance(p)}) = i - 1
    BY <1>10, <2>1, <2>2, <2>3
  <2> QED BY <2>4 DEF d
<1>12. /\ waiting \in Seq(Busy) /\ Len(waiting) = Drawn - FirstWaiting
       /\ \A i \in 1 .. Drawn - FirstWaiting : waiting[i] = Order[i - 1 + FirstWaiting]
  <2>1. Drawn - FirstWaiting \in Nat BY <1>2, <1>6
  <2>2. waiting = [i \in 1 .. Drawn - FirstWaiting |-> Order[i - 1 + FirstWaiting]]
    BY <1>9, <1>11 DEF waiting
  <2>3. \A i \in 1 .. Drawn - FirstWaiting : Order[i - 1 + FirstWaiting] \in Busy
    BY <1>1, <1>2, <1>6
  <2> QED BY <2>1, <2>2, <2>3
<1>13. \A p \in Busy, d \in 0 .. Drawn - 1 : Order[d] = p <=> Distance(p) = d
  BY <1>1
<1> QED BY <1>1, <1>5, <1>6, <1>7, <1>12, <1>13 DEF InTicketOrder

(* The same in the next state. *)
LEMMA MappingInOrderNext == EnoughTickets /\ TicketInv' => InTicketOrder'
<1>1. (EnoughTickets /\ TicketInv)' => InTicketOrder' BY MappingInOrder, PTL
<1> QED BY <1>1 DEF EnoughTickets

LEMMA LockRequests ==
    ASSUME EnoughTickets, TicketInv, NEW p \in Process, Lock(p)
    PROVE  Fair!Request(p)
<1>1. InTicketOrder /\ InTicketOrder'
  BY LockStep, MappingInOrder, MappingInOrderNext
<1>2. /\ Busy' = Busy \cup {p} /\ p \notin Busy /\ Drawn' = Drawn + 1
      /\ Distance(p)' = Drawn
      /\ \A q \in Busy : Distance(q)' = Distance(q)
  BY LockStep
<1>3. Drawn \in Nat BY DrawnIsNumber
<1>4. Holders' = Holders /\ FirstWaiting' = FirstWaiting
  BY DEF Lock, Goto, Holders, FirstWaiting, TicketInv, TypeOK
<1>5. \A d \in 0 .. Drawn : Order'[d] = IF d < Drawn THEN Order[d] ELSE p
  <2> SUFFICES ASSUME NEW d \in 0 .. Drawn
               PROVE  Order'[d] = IF d < Drawn THEN Order[d] ELSE p
    OBVIOUS
  <2>1. d \in 0 .. Drawn' - 1 BY <1>2, <1>3
  <2>2. CASE d < Drawn
    <3>1. d \in 0 .. Drawn - 1 BY <1>3, <2>2
    <3>2. PICK r \in Busy : r = Order[d] /\ Distance(r) = d
      BY <3>1, <1>1 DEF InTicketOrder
    <3>3. r \in Busy' /\ Distance(r)' = d BY <1>2, <3>2
    <3> QED BY <1>1, <2>1, <2>2, <3>2, <3>3 DEF InTicketOrder
  <2>3. CASE ~(d < Drawn)
    <3>1. p \in Busy' /\ Distance(p)' = d BY <1>2, <1>3, <2>3
    <3> QED BY <1>1, <2>1, <2>3, <3>1 DEF InTicketOrder
  <2> QED BY <2>2, <2>3
<1>6. FirstWaiting \in {0, 1} /\ FirstWaiting <= Drawn
  BY <1>1, <1>3 DEF FirstWaiting, InTicketOrder
<1>7. /\ Len(waiting) = Drawn - FirstWaiting /\ waiting \in Seq(Busy)
      /\ Len(waiting') = (Drawn + 1) - FirstWaiting /\ waiting' \in Seq(Busy')
  <2>1. Len(waiting) = Drawn - FirstWaiting /\ waiting \in Seq(Busy)
    BY <1>1 DEF InTicketOrder
  <2>2. Len(waiting') = Drawn' - FirstWaiting' /\ waiting' \in Seq(Busy')
    BY <1>1 DEF InTicketOrder
  <2> QED BY <2>1, <2>2, <1>2, <1>4
<1>8. waiting' = Append(waiting, p)
  <2>5. \A i \in 1 .. Drawn' - FirstWaiting' : waiting'[i] = Order'[i - 1 + FirstWaiting']
    BY <1>1 DEF InTicketOrder
  <2>1. \A i \in 1 .. (Drawn + 1) - FirstWaiting : waiting'[i] = Order'[i - 1 + FirstWaiting]
    BY <2>5, <1>2, <1>4
  <2>2. \A i \in 1 .. (Drawn + 1) - FirstWaiting :
            waiting'[i] = IF i <= Drawn - FirstWaiting THEN waiting[i] ELSE p
    <3> SUFFICES ASSUME NEW i \in 1 .. (Drawn + 1) - FirstWaiting
                 PROVE  waiting'[i] = IF i <= Drawn - FirstWaiting THEN waiting[i] ELSE p
      OBVIOUS
    <3>1. i - 1 + FirstWaiting \in 0 .. Drawn BY <1>3, <1>6
    <3>2. i <= Drawn - FirstWaiting => waiting[i] = Order[i - 1 + FirstWaiting]
      BY <1>1 DEF InTicketOrder
    <3> QED BY <1>3, <1>5, <1>6, <2>1, <3>1, <3>2
  <2>3. (Drawn + 1) - FirstWaiting = Len(waiting) + 1 BY <1>3, <1>6, <1>7
  <2>4. /\ Append(waiting, p) \in Seq(Busy') /\ Len(Append(waiting, p)) = Len(waiting) + 1
        /\ \A i \in 1 .. Len(waiting) + 1 :
               Append(waiting, p)[i] = IF i <= Len(waiting) THEN waiting[i] ELSE p
    BY <1>2, <1>7
  <2> QED BY <1>7, <2>2, <2>3, <2>4, SeqEqual
<1>9. p # holder /\ \A i \in DOMAIN waiting : waiting[i] # p
  <2>1. holder \in Busy \cup {Nil}
    BY <1>1, <1>3, <1>6 DEF InTicketOrder
  <2> QED BY <1>2, <1>7, <2>1 DEF EnoughTickets
<1>10. holder' = holder BY <1>4 DEF holder
<1> QED BY <1>8, <1>9, <1>10 DEF Fair!Request, holder, waiting

LEMMA EnterAcquires ==
    ASSUME EnoughTickets, TicketInv, NEW p \in Process, Enter(p)
    PROVE  Fair!Acquire
<1>1. InTicketOrder /\ InTicketOrder'
  BY EnterStep, MappingInOrder, MappingInOrderNext
<1>2. /\ Busy' = Busy /\ p \in Busy /\ Drawn' = Drawn /\ Distance(p) = 0
      /\ \A q \in Process : Distance(q)' = Distance(q)
  BY EnterStep
<1>3. Drawn \in Nat /\ 0 < Drawn
  BY <1>2, DrawnIsNumber, OrderBusy
<1>4. Holders = {} /\ Holders' = {p}
  <2>1. pc[p] = "lock" /\ pc' = [pc EXCEPT ![p] = "holds"] /\ TypeOK
    BY DEF Enter, Goto, TicketInv
  <2>2. \A q \in Holders : q = p BY <1>2 DEF TicketInv, Holders, Busy
  <2> QED BY <2>1, <2>2 DEF Holders, TypeOK
<1>5. FirstWaiting = 0 /\ FirstWaiting' = 1 BY <1>4 DEF FirstWaiting
<1>6. Order' = Order BY <1>2 DEF Order, Busy
<1>7. Order[0] = p
  <2>1. \A q \in Busy, d \in 0 .. Drawn - 1 : Order[d] = q <=> Distance(q) = d
    BY <1>1, Zenon DEF InTicketOrder
  <2>2. 0 \in 0 .. Drawn - 1 BY <1>3
  <2> QED BY <1>2, <2>1, <2>2, Zenon
<1>8. /\ waiting \in Seq(Busy) /\ Len(waiting) = Drawn
      /\ \A i \in 1 .. Drawn : waiting[i] = Order[i - 1]
  <2>1. /\ waiting \in Seq(Busy) /\ Len(waiting) = Drawn - FirstWaiting
        /\ \A i \in 1 .. Drawn - FirstWaiting : waiting[i] = Order[i - 1 + FirstWaiting]
    BY <1>1 DEF InTicketOrder
  <2> QED BY <2>1, <1>3, <1>5
<1>9. /\ waiting' \in Seq(Busy) /\ Len(waiting') = Drawn - 1
      /\ \A i \in 1 .. Drawn - 1 : waiting'[i] = Order[i]
  <2>1. /\ waiting' \in Seq(Busy') /\ Len(waiting') = Drawn' - FirstWaiting'
        /\ \A i \in 1 .. Drawn' - FirstWaiting' : waiting'[i] = Order'[i - 1 + FirstWaiting']
    BY <1>1 DEF InTicketOrder
  <2> QED BY <2>1, <1>2, <1>3, <1>5, <1>6
<1>10. waiting # <<>> /\ Head(waiting) = p BY <1>3, <1>7, <1>8
<1>11. waiting' = Tail(waiting)
  <2>1. /\ Tail(waiting) \in Seq(Busy) /\ Len(Tail(waiting)) = Drawn - 1
        /\ \A i \in 1 .. Drawn - 1 : Tail(waiting)[i] = waiting[i + 1]
    BY <1>3, <1>8
  <2>2. \A i \in 1 .. Drawn - 1 : waiting[i + 1] = Order[i]
    BY <1>3, <1>8
  <2> QED BY <1>9, <2>1, <2>2, SeqEqual
<1>12. holder = Nil /\ holder' = p BY <1>4 DEF holder
<1> QED BY <1>10, <1>11, <1>12 DEF Fair!Acquire, holder, waiting

LEMMA UnlockReleases ==
    ASSUME EnoughTickets, TicketInv, NEW p \in Process, Unlock(p)
    PROVE  Fair!Release
<1>1. InTicketOrder /\ InTicketOrder'
  BY UnlockStep, MappingInOrder, MappingInOrderNext
<1>2. /\ Busy' = Busy \ {p} /\ p \in Busy /\ Drawn' = Drawn - 1 /\ Distance(p) = 0
      /\ \A q \in Busy' : Distance(q)' = Distance(q) - 1
  BY UnlockStep
<1>3. Drawn \in Nat /\ 0 < Drawn
  BY <1>2, DrawnIsNumber, OrderBusy
<1>4. Holders = {p} /\ Holders' = {}
  <2>1. pc[p] = "holds" /\ pc' = [pc EXCEPT ![p] = "outside"] /\ TypeOK
    BY DEF Unlock, Goto, TicketInv
  <2>2. \A q \in Holders : q = p BY <1>2 DEF TicketInv, Holders, Busy
  <2> QED BY <2>1, <2>2 DEF Holders, TypeOK
<1>5. FirstWaiting = 1 /\ FirstWaiting' = 0 BY <1>4 DEF FirstWaiting
<1>6. \A d \in 0 .. Drawn - 2 : Order'[d] = Order[d + 1]
  <2> SUFFICES ASSUME NEW d \in 0 .. Drawn - 2 PROVE Order'[d] = Order[d + 1]
    OBVIOUS
  <2>1. d + 1 \in 0 .. Drawn - 1 /\ d \in 0 .. Drawn' - 1 BY <1>2, <1>3
  <2>2. PICK r \in Busy : r = Order[d + 1] /\ Distance(r) = d + 1
    BY <2>1, OrderBusy
  <2>3. r \in Busy' BY <1>2, <2>2
  <2>4. Distance(r)' = d BY <1>2, <2>2, <2>3
  <2>5. Order'[d] = r BY <1>1, <2>1, <2>3, <2>4 DEF InTicketOrder
  <2> QED BY <2>2, <2>5
<1>7. /\ waiting \in Seq(Busy) /\ Len(waiting) = Drawn - 1
      /\ \A i \in 1 .. Drawn - 1 : waiting[i] = Order[i]
  <2>1. /\ waiting \in Seq(Busy) /\ Len(waiting) = Drawn - FirstWaiting
        /\ \A i \in 1 .. Drawn - FirstWaiting : waiting[i] = Order[i - 1 + FirstWaiting]
    BY <1>1 DEF InTicketOrder
  <2> QED BY <2>1, <1>3, <1>5
<1>8. /\ waiting' \in Seq(Busy') /\ Len(waiting') = Drawn - 1
      /\ \A i \in 1 .. Drawn - 1 : waiting'[i] = Order'[i - 1]
  <2>1. /\ waiting' \in Seq(Busy') /\ Len(waiting') = Drawn' - FirstWaiting'
        /\ \A i \in 1 .. Drawn' - FirstWaiting' : waiting'[i] = Order'[i - 1 + FirstWaiting']
    BY <1>1 DEF InTicketOrder
  <2> QED BY <2>1, <1>2, <1>3, <1>5
<1>9. waiting' = waiting
  <2>1. \A i \in 1 .. Drawn - 1 : waiting'[i] = waiting[i]
    BY <1>3, <1>6, <1>7, <1>8
  <2>2. Busy' \subseteq Busy BY <1>2
  <2>3. waiting' \in Seq(Busy) BY <1>8, <2>2, SeqDef
  <2> QED BY <1>7, <1>8, <2>1, <2>3, SeqEqual
<1>10. holder = p /\ holder' = Nil BY <1>4 DEF holder
<1>11. p # Nil BY DEF EnoughTickets
<1> QED BY <1>9, <1>10, <1>11 DEF Fair!Release, holder, waiting

(* A step of the spinlock is one of the abstract lock. *)
LEMMA FairStep ==
    ASSUME EnoughTickets, TicketInv, [Next]_vars
    PROVE  TicketInv' /\ [Fair!Next]_(Fair!vars)
<1>1. CASE Next
  <2>1. PICK p \in Process : Lock(p) \/ Enter(p) \/ Unlock(p)
    BY <1>1 DEF Next
  <2>2. CASE Lock(p)
    BY <2>2, LockStep, LockRequests DEF Fair!Next
  <2>3. CASE Enter(p)
    BY <2>3, EnterStep, EnterAcquires DEF Fair!Next
  <2>4. CASE Unlock(p)
    BY <2>4, UnlockStep, UnlockReleases DEF Fair!Next
  <2> QED BY <2>1, <2>2, <2>3, <2>4
<1>2. CASE UNCHANGED vars
  BY <1>2 DEF vars, TicketInv, TypeOK, Busy, Drawn, Distance, Holders, Waiters, Fair!vars
<1> QED BY <1>1, <1>2

LEMMA FairInit == ASSUME EnoughTickets, Init PROVE Fair!Init
<1>1. Holders = {} /\ Waiters = {} BY DEF Init, Holders, Waiters
<1>2. Cardinality(Waiters) = 0 BY <1>1, FS_EmptySet
<1>3. waiting = <<>> BY <1>2 DEF waiting
<1> QED BY <1>1, <1>3 DEF Fair!Init, waiting

(* Spinlock: whoever uses lock and unlock alone gets a lock with one       *)
(* holder that serves first come, first served.                            *)
THEOREM SpinlockIsFair ==
    ASSUME EnoughTickets
    PROVE  Spec => ImplementsFairLock
<1>1. Init => TicketInv /\ Fair!Init BY InitTickets, FairInit
<1>2. TicketInv /\ [Next]_vars => TicketInv' /\ [Fair!Next]_(Fair!vars)
  BY FairStep
<1> QED BY <1>1, <1>2, PTL DEF Spec, ImplementsFairLock, Fair!Spec
=============================================================================
