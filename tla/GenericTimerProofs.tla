------------------------- MODULE GenericTimerProofs -------------------------
(* Proofs about the software timer, for any number of events, triggers and *)
(* tasks: an event object has one user at a time, and the events fire in   *)
(* the tick for which they were set.                                       *)
EXTENDS GenericTimer, SequenceLemmas, WellFoundedInduction

Listed(e) == Contains(mOneshotQueue, e) \/ Contains(mPeriodicQueue, e)

Pooled(e) == e \in mOneshotPool \cup mPeriodicPool

Lists ==
    /\ mOneshotQueue \in Seq(OneshotEvent) /\ mPeriodicQueue \in Seq(PeriodicEvent)
    /\ IsInjective(mOneshotQueue) /\ IsInjective(mPeriodicQueue)

Types ==
    /\ mOneshotPool \subseteq OneshotEvent /\ mPeriodicPool \subseteq PeriodicEvent
    /\ DOMAIN setting = Event /\ setting = [e \in Event |-> setting[e]]
    /\ tasks \in [Event -> [Trigger -> Nat]]

(* What makes EventsNotShared inductive: a fired event has one task only,  *)
(* so that none is left when the first one has returned the event.         *)
OneUser ==
    /\ \A e \in Event : /\ ~(Pooled(e) /\ setting[e] # Nil)
                        /\ ~(Pooled(e) /\ Listed(e))
                        /\ ~(setting[e] # Nil /\ Listed(e))
    /\ \A e \in OneshotEvent, t \in Trigger : tasks[e][t] > 0 =>
          /\ tasks[e][t] = 1
          /\ \A u \in Trigger : tasks[e][u] > 0 => u = t
          /\ ~Pooled(e) /\ setting[e] = Nil /\ ~Listed(e)

TInv == Types /\ Lists /\ OneUser

----------------------------------------------------------------------------
(* Lists *)

LEMMA ListInsert ==
    ASSUME NEW S, NEW s \in Seq(S), IsInjective(s), NEW e \in S, ~Contains(s, e),
           NEW i \in 1 .. Len(s) + 1
    PROVE  /\ InsertAt(s, i, e) \in Seq(S)
           /\ IsInjective(InsertAt(s, i, e))
           /\ \A f : Contains(InsertAt(s, i, e), f) <=> Contains(s, f) \/ f = e
  <1> DEFINE r == InsertAt(s, i, e)
  <1>1. /\ r \in Seq(S) /\ Len(r) = Len(s) + 1
        /\ \A k \in 1 .. Len(s) + 1 :
              r[k] = IF k < i THEN s[k] ELSE IF k = i THEN e ELSE s[k - 1]
    <2>1. r \in Seq(S)
      BY InsertAtElements
    <2>2. Len(r) = Len(s) + 1
      BY InsertAtElements
    <2>3. \A k \in 1 .. Len(s) + 1 :
              r[k] = IF k < i THEN s[k] ELSE IF k = i THEN e ELSE s[k - 1]
      BY InsertAtElements
    <2> QED
      BY <2>1, <2>2, <2>3, Zenon
  <1>2. /\ Len(s) \in Nat /\ i \in Nat /\ 1 <= i /\ i <= Len(s) + 1
        /\ DOMAIN s = 1 .. Len(s) /\ DOMAIN r = 1 .. Len(s) + 1
    BY <1>1, LenProperties
  <1> HIDE DEF r
  <1>3. \A k \in 1 .. Len(s) : s[k] # e
    BY DEF Contains
  <1>4. \A j, k \in 1 .. Len(s) : s[j] = s[k] => j = k
    BY <1>2 DEF IsInjective
  <1>5. \A k \in 1 .. Len(s) + 1 : \/ k = i /\ r[k] = e
                                   \/ k < i /\ k \in 1 .. Len(s) /\ r[k] = s[k]
                                   \/ k > i /\ k - 1 \in 1 .. Len(s) /\ r[k] = s[k - 1]
    BY <1>1, <1>2
  <1>6. IsInjective(r)
    <2>1. ASSUME NEW j \in 1 .. Len(s) + 1, NEW k \in 1 .. Len(s) + 1, r[j] = r[k]
          PROVE  j = k
      <3>1. j = i \/ k = i => j = k
        BY <1>2, <1>3, <1>5, <2>1
      <3>2. j < i /\ k < i => j = k
        BY <1>2, <1>4, <1>5, <2>1
      <3>3. j > i /\ k > i => j = k
        <4>1. ASSUME j > i, k > i
              PROVE  j - 1 = k - 1
          <5>1. j - 1 \in 1 .. Len(s) /\ k - 1 \in 1 .. Len(s) /\ s[j - 1] = s[k - 1]
            BY <1>2, <1>5, <2>1, <4>1
          <5> QED
            BY <1>4, <5>1
        <4> QED
          BY <1>2, <4>1
      <3>4. ~(j < i /\ k > i) /\ ~(j > i /\ k < i)
        BY <1>2, <1>4, <1>5, <2>1
      <3>5. i \in Int /\ j \in Int /\ k \in Int
        BY <1>2
      <3> QED
        BY <3>1, <3>2, <3>3, <3>4, <3>5
    <2> QED
      BY <1>2, <2>1 DEF IsInjective
  <1>7. ASSUME NEW f
        PROVE  Contains(r, f) <=> Contains(s, f) \/ f = e
    <2>1. ASSUME NEW k \in 1 .. Len(s), s[k] = f
          PROVE  \E j \in 1 .. Len(s) + 1 : r[j] = f
      <3>1. CASE k < i
        BY <1>1, <1>2, <2>1, <3>1
      <3>2. CASE k >= i
        <4>1. k + 1 \in 1 .. Len(s) + 1 /\ r[k + 1] = s[k]
          BY <1>1, <1>2, <3>2
        <4> QED
          BY <2>1, <4>1
      <3> QED
        BY <1>2, <3>1, <3>2
    <2>2. r[i] = e /\ i \in 1 .. Len(s) + 1
      BY <1>1, <1>2
    <2> QED
      BY <1>1, <1>5, <2>1, <2>2 DEF Contains
  <1> QED
    BY <1>1, <1>6, <1>7 DEF r

LEMMA ListRemove ==
    ASSUME NEW S, NEW s \in Seq(S), IsInjective(s), NEW i \in 1 .. Len(s)
    PROVE  /\ RemoveAt(s, i) \in Seq(S)
           /\ IsInjective(RemoveAt(s, i))
           /\ \A f : Contains(RemoveAt(s, i), f) <=> Contains(s, f) /\ f # s[i]
  <1> DEFINE r == RemoveAt(s, i)
  <1>1. /\ r \in Seq(S) /\ Len(r) = Len(s) - 1
        /\ \A k \in 1 .. Len(s) - 1 : r[k] = IF k < i THEN s[k] ELSE s[k + 1]
    BY RemoveAtElements
  <1>2. /\ Len(s) \in Nat /\ i \in Nat /\ 1 <= i /\ i <= Len(s)
        /\ DOMAIN s = 1 .. Len(s) /\ DOMAIN r = 1 .. Len(s) - 1
    BY <1>1, LenProperties
  <1> HIDE DEF r
  <1>3. \A j, k \in 1 .. Len(s) : s[j] = s[k] => j = k
    BY <1>2 DEF IsInjective
  <1>4. \A k \in 1 .. Len(s) - 1 : \/ k < i /\ k \in 1 .. Len(s) /\ r[k] = s[k]
                                   \/ k >= i /\ k + 1 \in 1 .. Len(s) /\ r[k] = s[k + 1]
    BY <1>1, <1>2
  <1>5. IsInjective(r)
    <2>1. ASSUME NEW j \in 1 .. Len(s) - 1, NEW k \in 1 .. Len(s) - 1, r[j] = r[k]
          PROVE  j = k
      BY <1>2, <1>3, <1>4, <2>1
    <2> QED
      BY <1>2, <2>1 DEF IsInjective
  <1>6. ASSUME NEW f
        PROVE  Contains(r, f) <=> Contains(s, f) /\ f # s[i]
    <2>1. ASSUME NEW k \in 1 .. Len(s), s[k] = f, k # i
          PROVE  \E j \in 1 .. Len(s) - 1 : r[j] = f
      <3>1. CASE k < i
        BY <1>1, <1>2, <2>1, <3>1, SMTT(30)
      <3>2. CASE k > i
        <4>1. k - 1 \in 1 .. Len(s) - 1 /\ r[k - 1] = s[k]
          BY <1>1, <1>2, <3>2
        <4> QED
          BY <2>1, <4>1
      <3> QED
        BY <1>2, <2>1, <3>1, <3>2
    <2>2. ASSUME NEW k \in 1 .. Len(s) - 1, r[k] = f
          PROVE  \E j \in 1 .. Len(s) : s[j] = f /\ j # i
      BY <1>2, <1>4, <2>2
    <2> QED
      BY <1>1, <1>2, <1>3, <2>1, <2>2 DEF Contains
  <1> QED
    BY <1>1, <1>5, <1>6 DEF r

LEMMA ListWithout ==
    ASSUME NEW S, NEW s \in Seq(S), IsInjective(s), NEW e, Contains(s, e)
    PROVE  /\ Without(s, e) \in Seq(S)
           /\ IsInjective(Without(s, e))
           /\ \A f : Contains(Without(s, e), f) <=> Contains(s, f) /\ f # e
  <1> DEFINE i == CHOOSE k \in DOMAIN s : s[k] = e
  <1>1. DOMAIN s = 1 .. Len(s)
    BY LenProperties
  <1>2. i \in 1 .. Len(s) /\ s[i] = e
    BY <1>1 DEF Contains
  <1>3. Without(s, e) = RemoveAt(s, i)
    BY DEF Without
  <1> HIDE DEF i
  <1> QED
    BY <1>2, <1>3, ListRemove

LEMMA BothLists ==
    ASSUME NEW S, NEW T, NEW s \in Seq(S), NEW t \in Seq(T), NEW e
    PROVE  Contains(s \o t, e) <=> Contains(s, e) \/ Contains(t, e)
  <1> DEFINE r == s \o t
  <1>1. s \in Seq(S \cup T) /\ t \in Seq(S \cup T)
    BY LenProperties, ElementOfSeq, IsASeq
  <1>2. /\ Len(r) = Len(s) + Len(t)
        /\ \A k \in 1 .. Len(s) + Len(t) : r[k] = IF k <= Len(s) THEN s[k] ELSE t[k - Len(s)]
    BY <1>1, ConcatProperties
  <1>3. Len(s) \in Nat /\ Len(t) \in Nat
    BY LenProperties
  <1> HIDE DEF r
  <1>4. ASSUME NEW k \in 1 .. Len(s), s[k] = e
        PROVE  k \in 1 .. Len(s) + Len(t) /\ r[k] = e
    BY <1>2, <1>3, <1>4
  <1>5. ASSUME NEW k \in 1 .. Len(t), t[k] = e
        PROVE  k + Len(s) \in 1 .. Len(s) + Len(t) /\ r[k + Len(s)] = e
    BY <1>2, <1>3, <1>5
  <1>6. ASSUME NEW k \in 1 .. Len(s) + Len(t), r[k] = e
        PROVE  \/ k \in 1 .. Len(s) /\ s[k] = e
               \/ k - Len(s) \in 1 .. Len(t) /\ t[k - Len(s)] = e
    BY <1>2, <1>3, <1>6
  <1> QED
    BY <1>2, <1>4, <1>5, <1>6 DEF Contains, r

(* The first event that is due later, or the end of the list. *)
LEMMA InsertPositionInList ==
    ASSUME Len(mOneshotQueue) \in Nat, NEW n
    PROVE  InsertPosition(n) \in 1 .. Len(mOneshotQueue) + 1
  <1> DEFINE len == Len(mOneshotQueue)
             Stops == {i \in 1 .. len + 1 : i <= len => Later(n, SumDelay(i))}
  <1>1. len + 1 \in Stops /\ Stops \subseteq Nat
    OBVIOUS
  <1>2. PICK i \in Stops : \A j \in Stops : <<j, i>> \notin OpToRel(<, Nat)
    <2>1. \E i \in Stops : \A j \in Stops : ~(<<j, i>> \in OpToRel(<, Nat))
      BY <1>1, WFMin, NatLessThanWellFounded, ZenonT(60)
    <2> QED
      BY <2>1, Zenon
  <1>3. \A j \in Stops : ~(j < i)
    BY <1>1, <1>2, Zenon DEF OpToRel
  <1>4. \A k \in 1 .. i - 1 : ~Later(n, SumDelay(k))
    BY <1>3
  <1> QED
    BY <1>4 DEF InsertPosition

LEMMA ListAppend ==
    ASSUME NEW S, NEW s \in Seq(S), IsInjective(s), NEW e \in S, ~Contains(s, e)
    PROVE  /\ Append(s, e) \in Seq(S)
           /\ IsInjective(Append(s, e))
           /\ \A f : Contains(Append(s, e), f) <=> Contains(s, f) \/ f = e
  <1> DEFINE r == Append(s, e)
  <1>1. /\ r \in Seq(S) /\ Len(r) = Len(s) + 1 /\ r[Len(s) + 1] = e
        /\ \A k \in 1 .. Len(s) : r[k] = s[k]
    BY AppendProperties
  <1>2. Len(s) \in Nat /\ DOMAIN s = 1 .. Len(s) /\ DOMAIN r = 1 .. Len(s) + 1
    BY <1>1, LenProperties
  <1> HIDE DEF r
  <1>3. \A k \in 1 .. Len(s) + 1 : k = Len(s) + 1 \/ k \in 1 .. Len(s)
    BY <1>2
  <1>4. \A j, k \in 1 .. Len(s) : s[j] = s[k] => j = k
    BY <1>2 DEF IsInjective
  <1>5. \A k \in 1 .. Len(s) : s[k] # e
    BY DEF Contains
  <1>6. IsInjective(r)
    BY <1>1, <1>2, <1>3, <1>4, <1>5 DEF IsInjective
  <1>7. ASSUME NEW f
        PROVE  Contains(r, f) <=> Contains(s, f) \/ f = e
    <2>1. \A k \in 1 .. Len(s) : k \in 1 .. Len(s) + 1
      BY <1>2
    <2>2. Len(s) + 1 \in 1 .. Len(s) + 1
      BY <1>2
    <2> QED
      BY <1>1, <1>3, <2>1, <2>2 DEF Contains
  <1> QED
    BY <1>1, <1>6, <1>7 DEF r

LEMMA ListTail ==
    ASSUME NEW S, NEW s \in Seq(S), IsInjective(s), s # <<>>
    PROVE  /\ Head(s) \in S /\ Contains(s, Head(s))
           /\ Tail(s) \in Seq(S)
           /\ IsInjective(Tail(s))
           /\ \A f : Contains(Tail(s), f) <=> Contains(s, f) /\ f # Head(s)
  <1> DEFINE r == Tail(s)
  <1>1. /\ r \in Seq(S) /\ Len(r) = Len(s) - 1 /\ Head(s) \in S /\ Head(s) = s[1]
        /\ \A k \in 1 .. Len(s) - 1 : r[k] = s[k + 1]
    BY HeadTailProperties
  <1>2. /\ Len(s) \in Nat \ {0}
        /\ DOMAIN s = 1 .. Len(s) /\ DOMAIN r = 1 .. Len(s) - 1
    BY <1>1, LenProperties, EmptySeq
  <1> HIDE DEF r
  <1>3. \A j, k \in 1 .. Len(s) : s[j] = s[k] => j = k
    BY <1>2 DEF IsInjective
  <1>4. IsInjective(r)
    <2>1. ASSUME NEW j \in 1 .. Len(s) - 1, NEW k \in 1 .. Len(s) - 1, r[j] = r[k]
          PROVE  j = k
      <3>1. j + 1 \in 1 .. Len(s) /\ k + 1 \in 1 .. Len(s) /\ s[j + 1] = s[k + 1]
        BY <1>1, <1>2, <2>1
      <3>2. j + 1 = k + 1
        BY <1>3, <3>1
      <3> QED
        BY <1>2, <3>2
    <2> QED
      BY <1>2, <2>1 DEF IsInjective
  <1>5. ASSUME NEW f
        PROVE  Contains(r, f) <=> Contains(s, f) /\ f # Head(s)
    <2>1. ASSUME NEW k \in 1 .. Len(s) - 1, r[k] = f
          PROVE  \E j \in 1 .. Len(s) : s[j] = f /\ j # 1
      <3>1. k + 1 \in 1 .. Len(s) /\ k + 1 # 1 /\ s[k + 1] = f
        BY <1>1, <1>2, <2>1
      <3> QED
        BY <3>1
    <2>2. ASSUME NEW k \in 1 .. Len(s), s[k] = f, k # 1
          PROVE  \E j \in 1 .. Len(s) - 1 : r[j] = f
      <3>1. k - 1 \in 1 .. Len(s) - 1 /\ r[k - 1] = f
        BY <1>1, <1>2, <2>2
      <3> QED
        BY <3>1
    <2>3. 1 \in 1 .. Len(s)
      BY <1>2
    <2> QED
      BY <1>1, <1>3, <2>1, <2>2, <2>3 DEF Contains
  <1>6. Contains(s, Head(s))
    BY <1>1, <1>2 DEF Contains
  <1> QED
    BY <1>1, <1>4, <1>5, <1>6 DEF r

----------------------------------------------------------------------------
(* Steps *)

(* eventTriggered starts at most one task, of the event it is called for.  *)
LEMMA Triggered ==
    ASSUME Types, NEW e \in Event, EventTriggered(e)
    PROVE  /\ tasks' \in [Event -> [Trigger -> Nat]]
           /\ \A f \in Event \ {e} : tasks'[f] = tasks[f]
           /\ \A t \in Trigger :
                 \/ tasks'[e][t] = tasks[e][t]
                 \/ t = Head(mSubscribers[e]) /\ tasks'[e][t] = tasks[e][t] + 1
  <1> DEFINE h == Head(mSubscribers[e])
  <1>1. tasks \in [Event -> [Trigger -> Nat]]
    BY DEF Types
  <1>2. CASE tasks' = tasks
    BY <1>1, <1>2
  <1>3. CASE tasks' = [tasks EXCEPT ![e][h] = @ + 1]
    <2> DEFINE old == tasks[e]
               row == [old EXCEPT ![h] = old[h] + 1]
    <2>1. tasks' = [tasks EXCEPT ![e] = row]
      BY <1>1, <1>3
    <2>2. old \in [Trigger -> Nat]
      BY <1>1
    <2> HIDE DEF h, old
    <2>3. \A t \in Trigger : \/ t # h /\ row[t] = old[t]
                             \/ t = h /\ row[t] = old[t] + 1
      BY <2>2
    <2>4. DOMAIN row = Trigger /\ row = [t \in Trigger |-> row[t]]
      BY <2>2
    <2> HIDE DEF row
    <2>5. \A t \in Trigger : old[t] \in Nat /\ row[t] \in Nat
      BY <2>2, <2>3
    <2>6. row \in [Trigger -> Nat]
      BY <2>4, <2>5
    <2>7. tasks'[e] = row /\ \A f \in Event \ {e} : tasks'[f] = tasks[f]
      BY <1>1, <2>1
    <2>8. tasks' \in [Event -> [Trigger -> Nat]]
      BY <1>1, <2>1, <2>6
    <2>9. \A t \in Trigger : \/ tasks'[e][t] = tasks[e][t]
                             \/ t = h /\ tasks'[e][t] = tasks[e][t] + 1
      BY <2>3, <2>7 DEF old
    <2> QED
      BY <2>7, <2>8, <2>9 DEF h
  <1> QED
    BY <1>2, <1>3 DEF EventTriggered

LEMMA TimerInductive ==
    ASSUME TInv, pos \in Nat \ {0}, [Next]_vars
    PROVE  TInv' /\ pos' \in Nat \ {0}
  <1> USE DEF vars, listVars, poolVars, lockVars
  <1>t. /\ Types /\ Lists /\ OneUser
        /\ OneshotEvent \subseteq Event /\ PeriodicEvent \subseteq Event
        /\ OneshotEvent \cap PeriodicEvent = {}
    BY TimerAssumption DEF TInv, TimerAssumption, Event
  <1>o. \A e : Contains(mOneshotQueue, e) => e \in OneshotEvent
    BY <1>t, LenProperties, ElementOfSeq DEF Contains, Lists
  <1>p. \A e : Contains(mPeriodicQueue, e) => e \in PeriodicEvent
    BY <1>t, LenProperties, ElementOfSeq DEF Contains, Lists
  <1>u. ASSUME UNCHANGED <<mOneshotQueue, mPeriodicQueue, mOneshotPool, mPeriodicPool,
                           setting, tasks>>
        PROVE  TInv'
    BY <1>u DEF TInv, Types, Lists, OneUser, Pooled, Listed
  <1>c. pos' \in Nat \ {0}
    BY DEF vars, Next, HandleTick, StartTick, FireOneshot, EndOneshot, StartPeriodic, CountPeriodic,
       EndTick, GetOneshotEvent, GetPeriodicEvent, SetOneshotEvent, SetPeriodicEvent,
       CancelOneshotTimerEvent, CancelPeriodicTimerEvent, FinishTask
  <1> SUFFICES TInv'
    BY <1>c
  <1>1. CASE UNCHANGED vars
    BY <1>1, <1>u
  <1>2. CASE StartTick \/ EndOneshot \/ StartPeriodic \/ EndTick
    BY <1>2, <1>u DEF StartTick, EndOneshot, StartPeriodic, EndTick
  <1>3. ASSUME NEW e \in Event, e \in mOneshotPool \/ e \in mPeriodicPool, NEW call,
               mOneshotPool' = mOneshotPool \ {e}, mPeriodicPool' = mPeriodicPool \ {e},
               setting' = [setting EXCEPT ![e] = call],
               UNCHANGED <<mOneshotQueue, mPeriodicQueue, tasks>>
        PROVE  TInv'
    <2>1. Lists' /\ \A f : Listed(f)' <=> Listed(f)
      BY <1>3, <1>t DEF Lists, Listed
    <2>2. Pooled(e) /\ ~Pooled(e)' /\ \A f \in Event \ {e} : Pooled(f)' <=> Pooled(f)
      BY <1>3 DEF Pooled
    <2>3. \A f \in Event \ {e} : setting'[f] = setting[f]
      BY <1>3, <1>t DEF Types
    <2>4. Types'
      BY <1>3, <1>t DEF Types
    <2>5. ~Listed(e) /\ (e \in OneshotEvent => \A t \in Trigger : ~(tasks[e][t] > 0))
      BY <2>2, <1>t DEF OneUser
    <2>6. OneUser'
      BY <1>3, <1>t, <2>1, <2>2, <2>3, <2>5 DEF OneUser
    <2> QED
      BY <2>1, <2>4, <2>6 DEF TInv
  <1>4. ASSUME NEW e \in OneshotEvent, NEW t \in Trigger, NEW n \in Ticks,
               GetOneshotEvent(e, t, n)
        PROVE  TInv'
    <2>1. e \in mOneshotPool /\ mOneshotPool' = mOneshotPool \ {e} /\ e \notin mPeriodicPool
      BY <1>4, <1>t DEF GetOneshotEvent, getOneshotEventFromPool, Types
    <2> QED
      BY <1>3, <1>4, <1>t, <2>1 DEF GetOneshotEvent
  <1>5. ASSUME NEW e \in PeriodicEvent, NEW t \in Trigger, NEW n \in Intervals,
               GetPeriodicEvent(e, t, n)
        PROVE  TInv'
    <2>1. e \in mPeriodicPool /\ mPeriodicPool' = mPeriodicPool \ {e} /\ e \notin mOneshotPool
      BY <1>5, <1>t DEF GetPeriodicEvent, getPeriodicEventFromPool, Types
    <2> QED
      BY <1>3, <1>5, <1>t, <2>1 DEF GetPeriodicEvent
  <1>6. ASSUME NEW e \in Event, setting[e] # Nil, setting' = [setting EXCEPT ![e] = Nil],
               Lists', \A f : Listed(f)' <=> Listed(f) \/ f = e,
               UNCHANGED <<mOneshotPool, mPeriodicPool, tasks>>
        PROVE  TInv'
    <2>1. Types' /\ \A f : Pooled(f)' <=> Pooled(f)
      BY <1>6, <1>t DEF Types, Pooled
    <2>2. setting'[e] = Nil /\ \A f \in Event \ {e} : setting'[f] = setting[f]
      BY <1>6, <1>t DEF Types
    <2>3. ~Pooled(e) /\ (e \in OneshotEvent => \A t \in Trigger : ~(tasks[e][t] > 0))
      BY <1>6, <1>t DEF OneUser
    <2>4. OneUser'
      BY <1>6, <1>t, <2>1, <2>2, <2>3 DEF OneUser
    <2> QED
      BY <1>6, <2>1, <2>4 DEF TInv
  <1>7. ASSUME NEW e \in OneshotEvent, SetOneshotEvent(e)
        PROVE  TInv'
    <2> DEFINE i == InsertPosition(mRemainingTicks[e])
    <2>1. /\ setting[e] # Nil /\ setting' = [setting EXCEPT ![e] = Nil]
          /\ mOneshotQueue' = InsertAt(mOneshotQueue, i, e) /\ mPeriodicQueue' = mPeriodicQueue
          /\ UNCHANGED <<mOneshotPool, mPeriodicPool, tasks>>
      BY <1>7 DEF SetOneshotEvent
    <2>2. i \in 1 .. Len(mOneshotQueue) + 1
      <3>1. Len(mOneshotQueue) \in Nat
        BY <1>t, LenProperties DEF Lists
      <3> QED
        BY <3>1, InsertPositionInList
    <2>3. ~Contains(mOneshotQueue, e)
      BY <2>1, <1>t DEF OneUser, Listed
    <2> HIDE DEF i
    <2>4. Lists' /\ \A f : Contains(mOneshotQueue', f) <=> Contains(mOneshotQueue, f) \/ f = e
      BY <2>1, <2>2, <2>3, <1>t, ListInsert DEF Lists
    <2>5. \A f : Listed(f)' <=> Listed(f) \/ f = e
      BY <2>1, <2>4 DEF Listed
    <2> QED
      BY <1>6, <1>t, <2>1, <2>4, <2>5
  <1>8. ASSUME NEW e \in PeriodicEvent, SetPeriodicEvent(e)
        PROVE  TInv'
    <2>1. /\ setting[e] # Nil /\ setting' = [setting EXCEPT ![e] = Nil]
          /\ mPeriodicQueue' = Append(mPeriodicQueue, e) /\ mOneshotQueue' = mOneshotQueue
          /\ UNCHANGED <<mOneshotPool, mPeriodicPool, tasks>>
      BY <1>8 DEF SetPeriodicEvent
    <2>2. ~Contains(mPeriodicQueue, e)
      BY <2>1, <1>t DEF OneUser, Listed
    <2>3. Lists' /\ \A f : Contains(mPeriodicQueue', f) <=> Contains(mPeriodicQueue, f) \/ f = e
      BY <2>1, <2>2, <1>t, ListAppend DEF Lists
    <2>4. \A f : Listed(f)' <=> Listed(f) \/ f = e
      BY <2>1, <2>3 DEF Listed
    <2> QED
      BY <1>6, <1>t, <2>1, <2>3, <2>4
  <1>9. ASSUME NEW e \in Event, Types', Lists', Listed(e),
               \A f : Listed(f)' <=> Listed(f) /\ f # e,
               \A f \in Event : Pooled(f)' <=> Pooled(f) \/ f = e,
               UNCHANGED <<setting, tasks>>
        PROVE  TInv'
    <2>1. setting[e] = Nil /\ (e \in OneshotEvent => \A t \in Trigger : ~(tasks[e][t] > 0))
      BY <1>9, <1>t DEF OneUser
    <2>2. OneUser'
      BY <1>9, <1>t, <2>1 DEF OneUser
    <2> QED
      BY <1>9, <2>2 DEF TInv
  <1>10. ASSUME NEW e \in OneshotEvent, CancelOneshotTimerEvent(e)
         PROVE  TInv'
    <2>1. /\ Contains(mOneshotQueue, e)
          /\ mOneshotQueue' = Without(mOneshotQueue, e) /\ mPeriodicQueue' = mPeriodicQueue
          /\ mOneshotPool' = mOneshotPool \cup {e} /\ mPeriodicPool' = mPeriodicPool
          /\ UNCHANGED <<setting, tasks>>
      BY <1>10 DEF CancelOneshotTimerEvent, ReturnOneshot
    <2>2. Lists' /\ \A f : Contains(mOneshotQueue', f) <=> Contains(mOneshotQueue, f) /\ f # e
      BY <2>1, <1>t, ListWithout DEF Lists
    <2>3. Listed(e) /\ \A f : Listed(f)' <=> Listed(f) /\ f # e
      BY <2>1, <2>2, <1>p, <1>t DEF Listed
    <2>4. Types' /\ \A f \in Event : Pooled(f)' <=> Pooled(f) \/ f = e
      BY <2>1, <1>t DEF Types, Pooled
    <2> QED
      BY <1>9, <1>t, <2>1, <2>2, <2>3, <2>4
  <1>11. ASSUME NEW e \in PeriodicEvent, CancelPeriodicTimerEvent(e)
         PROVE  TInv'
    <2>1. /\ Contains(mPeriodicQueue, e)
          /\ mPeriodicQueue' = Without(mPeriodicQueue, e) /\ mOneshotQueue' = mOneshotQueue
          /\ mPeriodicPool' = mPeriodicPool \cup {e} /\ mOneshotPool' = mOneshotPool
          /\ UNCHANGED <<setting, tasks>>
      BY <1>11 DEF CancelPeriodicTimerEvent, ReturnPeriodic
    <2>2. Lists' /\ \A f : Contains(mPeriodicQueue', f) <=> Contains(mPeriodicQueue, f) /\ f # e
      BY <2>1, <1>t, ListWithout DEF Lists
    <2>3. Listed(e) /\ \A f : Listed(f)' <=> Listed(f) /\ f # e
      BY <2>1, <2>2, <1>o, <1>t DEF Listed
    <2>4. Types' /\ \A f \in Event : Pooled(f)' <=> Pooled(f) \/ f = e
      BY <2>1, <1>t DEF Types, Pooled
    <2> QED
      BY <1>9, <1>t, <2>1, <2>2, <2>3, <2>4
  <1>12. ASSUME NEW e \in Event, NEW t \in Trigger, FinishTask(e, t)
         PROVE  TInv'
    <2>1. /\ tasks[e][t] > 0 /\ tasks' = [tasks EXCEPT ![e] = [tasks[e] EXCEPT ![t] = tasks[e][t] - 1]]
          /\ UNCHANGED <<mOneshotQueue, mPeriodicQueue, setting, mPeriodicPool>>
          /\ mOneshotPool' = IF e \in OneshotEvent THEN mOneshotPool \cup {e} ELSE mOneshotPool
      BY <1>12 DEF FinishTask, ReturnOneshot
    <2>2. tasks[e] \in [Trigger -> Nat] /\ tasks \in [Event -> [Trigger -> Nat]]
      BY <1>t DEF Types
    <2>3. tasks[e][t] - 1 \in Nat
      BY <2>1, <2>2
    <2>4. /\ tasks' \in [Event -> [Trigger -> Nat]]
          /\ tasks'[e][t] = tasks[e][t] - 1
          /\ \A u \in Trigger \ {t} : tasks'[e][u] = tasks[e][u]
          /\ \A f \in Event \ {e} : tasks'[f] = tasks[f]
      BY <2>1, <2>2, <2>3
    <2>5. Lists' /\ \A f : Listed(f)' <=> Listed(f)
      BY <2>1, <1>t DEF Lists, Listed
    <2>6. Types' /\ \A f \in Event : Pooled(f)' <=> Pooled(f) \/ (e \in OneshotEvent /\ f = e)
      BY <2>1, <2>4, <1>t DEF Types, Pooled
    <2>7. e \in OneshotEvent =>
              /\ setting[e] = Nil /\ ~Listed(e)
              /\ \A u \in Trigger : tasks'[e][u] = 0
      <3>1. ASSUME e \in OneshotEvent
            PROVE  /\ tasks[e][t] = 1 /\ setting[e] = Nil /\ ~Listed(e)
                   /\ \A u \in Trigger \ {t} : ~(tasks[e][u] > 0)
        BY <2>1, <3>1, <1>t DEF OneUser
      <3> QED
        BY <2>2, <2>4, <3>1
    <2>8. OneUser'
      <3>1. \A f \in OneshotEvent, u \in Trigger : tasks'[f][u] > 0 =>
                f # e /\ tasks'[f] = tasks[f]
        BY <2>4, <2>7, <1>t
      <3>2. \A f \in Event : /\ ~(Pooled(f)' /\ setting'[f] # Nil)
                             /\ ~(Pooled(f)' /\ Listed(f)')
                             /\ ~(setting'[f] # Nil /\ Listed(f)')
        BY <2>1, <2>5, <2>6, <2>7, <1>t DEF OneUser
      <3>3. \A f \in OneshotEvent, u \in Trigger : tasks'[f][u] > 0 =>
                /\ tasks'[f][u] = 1
                /\ \A v \in Trigger : tasks'[f][v] > 0 => v = u
                /\ ~Pooled(f)' /\ setting'[f] = Nil /\ ~Listed(f)'
        BY <2>1, <2>5, <2>6, <3>1, <1>t DEF OneUser
      <3> QED
        BY <3>2, <3>3 DEF OneUser
    <2> QED
      BY <2>5, <2>6, <2>8 DEF TInv
  <1>13. CASE FireOneshot
    <2>0. mOneshotQueue # <<>> /\ Head(mOneshotQueue) \in OneshotEvent
      BY <1>13, <1>t, ListTail DEF FireOneshot, Lists
    <2>e. PICK e \in OneshotEvent : e = Head(mOneshotQueue)
      BY <2>0
    <2>1. /\ mOneshotQueue' = Tail(mOneshotQueue)
          /\ EventTriggered(e)
          /\ UNCHANGED <<mPeriodicQueue, mOneshotPool, mPeriodicPool, setting>>
      BY <1>13, <2>e DEF FireOneshot
    <2>2. /\ Lists' /\ Contains(mOneshotQueue, e)
          /\ \A f : Contains(mOneshotQueue', f) <=> Contains(mOneshotQueue, f) /\ f # e
      BY <2>0, <2>e, <2>1, <1>t, ListTail DEF Lists
    <2>3. /\ tasks' \in [Event -> [Trigger -> Nat]]
          /\ \A f \in Event \ {e} : tasks'[f] = tasks[f]
          /\ \A t \in Trigger :
                 \/ tasks'[e][t] = tasks[e][t]
                 \/ t = Head(mSubscribers[e]) /\ tasks'[e][t] = tasks[e][t] + 1
      BY <2>1, <2>2, <1>t, Triggered
    <2>4. Listed(e) /\ ~Listed(e)' /\ \A f : Listed(f)' => Listed(f)
      <3>1. ~Contains(mPeriodicQueue, e)
        BY <2>2, <1>p, <1>t
      <3>2. mPeriodicQueue' = mPeriodicQueue
        BY <2>1
      <3> QED
        BY <2>2, <3>1, <3>2 DEF Listed
    <2>5. Types' /\ \A f : Pooled(f)' <=> Pooled(f)
      BY <2>1, <2>3, <1>t DEF Types, Pooled
    <2>6. /\ ~Pooled(e) /\ setting[e] = Nil
          /\ \A t \in Trigger : tasks[e][t] \in Nat /\ ~(tasks[e][t] > 0)
      BY <2>2, <2>4, <1>t DEF OneUser, Types
    <2>7. \A t \in Trigger : tasks'[e][t] > 0 => tasks'[e][t] = 1 /\ t = Head(mSubscribers[e])
      BY <2>3, <2>6
    <2>8. OneUser'
      <3>1. \A f \in Event : /\ ~(Pooled(f)' /\ setting'[f] # Nil)
                             /\ ~(Pooled(f)' /\ Listed(f)')
                             /\ ~(setting'[f] # Nil /\ Listed(f)')
        BY <2>1, <2>4, <2>5, <1>t DEF OneUser
      <3>2. \A f \in OneshotEvent, u \in Trigger : tasks'[f][u] > 0 =>
                /\ tasks'[f][u] = 1
                /\ \A v \in Trigger : tasks'[f][v] > 0 => v = u
                /\ ~Pooled(f)' /\ setting'[f] = Nil /\ ~Listed(f)'
        <4>1. ASSUME NEW f \in OneshotEvent, f # e
              PROVE  tasks'[f] = tasks[f] /\ setting'[f] = setting[f]
          BY <2>1, <2>3, <4>1, <1>t
        <4>2. ASSUME NEW f \in OneshotEvent, f # e, NEW u \in Trigger, tasks'[f][u] > 0
              PROVE  /\ tasks'[f][u] = 1
                     /\ \A v \in Trigger : tasks'[f][v] > 0 => v = u
                     /\ ~Pooled(f)' /\ setting'[f] = Nil /\ ~Listed(f)'
          BY <2>4, <2>5, <4>1, <4>2, <1>t DEF OneUser
        <4>3. ASSUME NEW u \in Trigger, tasks'[e][u] > 0
              PROVE  /\ tasks'[e][u] = 1
                     /\ \A v \in Trigger : tasks'[e][v] > 0 => v = u
                     /\ ~Pooled(e)' /\ setting'[e] = Nil /\ ~Listed(e)'
          BY <2>1, <2>4, <2>5, <2>6, <2>7, <4>3
        <4> QED
          BY <4>2, <4>3
      <3> QED
        BY <3>1, <3>2 DEF OneUser
    <2> QED
      BY <2>2, <2>5, <2>8 DEF TInv
  <1>14. CASE CountPeriodic
    <2> DEFINE e == mPeriodicQueue[pos]
    <2>1. /\ UNCHANGED <<mOneshotQueue, mPeriodicQueue, mOneshotPool, mPeriodicPool, setting>>
          /\ tasks' = tasks \/ EventTriggered(e)
      BY <1>14 DEF CountPeriodic
    <2>2. CASE tasks' = tasks
      BY <1>u, <2>1, <2>2
    <2>3. CASE EventTriggered(e) /\ e \in PeriodicEvent
      <3>1. tasks' \in [Event -> [Trigger -> Nat]] /\ \A f \in Event \ {e} : tasks'[f] = tasks[f]
        BY <2>3, <1>t, Triggered
      <3>2. \A f \in OneshotEvent : tasks'[f] = tasks[f]
        BY <2>3, <3>1, <1>t
      <3> QED
        BY <2>1, <3>1, <3>2, <1>t DEF TInv, Types, Lists, OneUser, Pooled, Listed
    <2>4. mPeriodicQueue[pos] \in PeriodicEvent
      <3>1. pos \in 1 .. Len(mPeriodicQueue) /\ mPeriodicQueue \in Seq(PeriodicEvent)
        BY <1>14, <1>t, LenProperties DEF CountPeriodic, Lists
      <3> QED
        BY <3>1, ElementOfSeq
    <2> QED
      BY <2>1, <2>2, <2>3, <2>4
  <1> QED
    BY <1>1, <1>2, <1>4, <1>5, <1>7, <1>8, <1>10, <1>11, <1>12, <1>13, <1>14
    DEF Next, HandleTick

LEMMA TimerInvariant == Spec => [](TInv /\ pos \in Nat \ {0})
  <1>1. Init => TInv /\ pos \in Nat \ {0}
    <2>1. ASSUME Init
          PROVE  TInv
      <3>1. \A e : ~Listed(e)
        BY <2>1 DEF Init, Listed, Contains
      <3>2. Types /\ Lists
        BY <2>1 DEF Init, Types, Lists, IsInjective
      <3>3. OneUser
        BY <2>1, <3>1, TimerAssumption DEF Init, OneUser, Event, TimerAssumption
      <3> QED
        BY <3>2, <3>3 DEF TInv
    <2>2. Init => pos = 1
      BY DEF Init
    <2> QED
      BY <2>1, <2>2
  <1>2. TInv /\ pos \in Nat \ {0} /\ [Next]_vars => (TInv /\ pos \in Nat \ {0})'
    BY TimerInductive
  <1> QED
    BY <1>1, <1>2, PTL DEF Spec

(* A timer event object has one user: a free one is in no list, one that   *)
(* is being set is in none yet, and one that has fired is not handed out   *)
(* before its task has ended, whoever sets, cancels and fires it.          *)
THEOREM EventsHaveOneUser == Spec => []EventsNotShared
  <1>1. ASSUME TInv
        PROVE  EventsNotShared
    <2>1. Lists /\ OneUser
      BY <1>1 DEF TInv
    <2>2. mOneshotQueue \in Seq(OneshotEvent) /\ mPeriodicQueue \in Seq(PeriodicEvent)
      BY <2>1 DEF Lists
    <2> DEFINE both == mOneshotQueue \o mPeriodicQueue
    <2>3. \A e \in Event : Contains(both, e) <=> Listed(e)
      BY <2>2, BothLists DEF Listed
    <2> HIDE DEF both
    <2>4. \A e \in Event : /\ Places(e)[1] <=> Pooled(e)
                           /\ Places(e)[2] <=> setting[e] # Nil
                           /\ Places(e)[3] <=> Listed(e)
      BY <2>3 DEF Places, Pooled, both
    <2>5. \A e \in Event : \A i, j \in 1 .. 3 : Places(e)[i] /\ Places(e)[j] => i = j
      BY <2>1, <2>4 DEF OneUser
    <2>6. ASSUME NEW e \in OneshotEvent, NEW t \in Trigger, tasks[e][t] > 0
          PROVE  tasks[e][t] = 1 /\ Places(e) = <<FALSE, FALSE, FALSE>>
      <3>1. tasks[e][t] = 1 /\ ~Pooled(e) /\ setting[e] = Nil /\ ~Listed(e) /\ e \in Event
        BY <2>1, <2>6 DEF OneUser, Event
      <3>2. /\ e \notin mOneshotPool \cup mPeriodicPool
            /\ ~Contains(mOneshotQueue \o mPeriodicQueue, e)
        BY <2>3, <3>1 DEF Pooled, both
      <3>3. /\ (e \in mOneshotPool \cup mPeriodicPool) = FALSE
            /\ (setting[e] # Nil) = FALSE
            /\ Contains(mOneshotQueue \o mPeriodicQueue, e) = FALSE
        BY <3>1, <3>2 DEF Contains
      <3> QED
        BY <3>1, <3>3 DEF Places
    <2> QED
      BY <2>1, <2>5, <2>6 DEF EventsNotShared, Lists
  <1> QED
    BY <1>1, TimerInvariant, PTL
----------------------------------------------------------------------------
(* Sums *)

(* The sum of the ticks of the first i events of a list, as sumDelay adds  *)
(* them up, and the functions that it computes on its way.                 *)
SumTo(q, r, i) ==
    LET sum[k \in 0 .. i] ==
            IF k = 0 THEN 0 ELSE (sum[k - 1] + r[q[k]]) % Modulus
    IN  sum[i]

Adds(q, r, n, f) ==
    f = [k \in 0 .. n |-> IF k = 0 THEN 0 ELSE (f[k - 1] + r[q[k]]) % Modulus]

LEMMA SumIsChosen ==
    ASSUME NEW q, NEW r, NEW i
    PROVE  SumTo(q, r, i) = (CHOOSE f : Adds(q, r, i, f))[i]
  BY DEF SumTo, Adds

LEMMA DelayIsSum ==
    ASSUME NEW i
    PROVE  SumDelay(i) = SumTo(mOneshotQueue, mRemainingTicks, i)
  BY DEF SumTo, SumDelay

(* A recursive function over 0 .. n exists: by induction on n. *)
LEMMA SumsExist ==
    ASSUME NEW q, NEW r, NEW n \in Nat
    PROVE  \E f : Adds(q, r, n, f)
  <1> DEFINE S == {m \in Nat : \E f : Adds(q, r, m, f)}
  <1>1. 0 \in S
    <2>1. Adds(q, r, 0, [k \in 0 .. 0 |-> 0])
      BY DEF Adds
    <2> QED
      BY <2>1
  <1>2. ASSUME NEW m \in S
        PROVE  m + 1 \in S
    <2>1. PICK f : Adds(q, r, m, f)
      OBVIOUS
    <2> DEFINE g == [k \in 0 .. m + 1 |->
                        IF k = m + 1 THEN (f[m] + r[q[m + 1]]) % Modulus ELSE f[k]]
    <2>2. \A k \in 0 .. m : f[k] = IF k = 0 THEN 0 ELSE (f[k - 1] + r[q[k]]) % Modulus
      BY <2>1 DEF Adds
    <2>3. ASSUME NEW k \in 0 .. m + 1
          PROVE  g[k] = IF k = 0 THEN 0 ELSE (g[k - 1] + r[q[k]]) % Modulus
      <3>1. CASE k = m + 1
        <4>1. k # 0 /\ m \in 0 .. m + 1 /\ k - 1 = m /\ m # m + 1
          BY <3>1
        <4>2. g[m] = f[m] /\ g[k] = (f[m] + r[q[m + 1]]) % Modulus
          BY <3>1, <4>1
        <4> QED
          BY <3>1, <4>1, <4>2
      <3>2. CASE k # m + 1
        <4>1. k \in 0 .. m
          BY <3>2
        <4>2. g[k] = f[k]
          BY <3>2
        <4>3. k # 0 => k - 1 \in 0 .. m + 1 /\ k - 1 # m + 1
          BY <4>1
        <4>4. k # 0 => g[k - 1] = f[k - 1]
          BY <4>3
        <4> QED
          BY <2>2, <4>1, <4>2, <4>4
      <3> QED
        BY <3>1, <3>2
    <2>4. g = [k \in 0 .. m + 1 |-> g[k]]
      OBVIOUS
    <2> HIDE DEF g
    <2>5. Adds(q, r, m + 1, g)
      BY <2>3, <2>4 DEF Adds
    <2> QED
      BY <2>5
  <1> HIDE DEF S
  <1>3. S = Nat
    BY <1>1, <1>2, Induction DEF S
  <1> QED
    BY <1>3 DEF S

LEMMA ModRange == \A n \in Int : n % Modulus \in 0 .. Modulus - 1
  BY TimerAssumption DEF TimerAssumption

LEMMA ModSmall == \A n \in 0 .. Modulus - 1 : n % Modulus = n
  BY TimerAssumption DEF TimerAssumption

Runs(q, r, n, g) ==
    g[0] = 0 /\ \A k \in 1 .. n : g[k] = (g[k - 1] + r[q[k]]) % Modulus

LEMMA SumIs ==
    ASSUME NEW q, NEW r, NEW n \in Nat, NEW g, Runs(q, r, n, g)
    PROVE  \A k \in 0 .. n : SumTo(q, r, k) = g[k]
  <1> SUFFICES ASSUME NEW m \in 0 .. n
               PROVE  SumTo(q, r, m) = g[m]
    OBVIOUS
  <1>0. g[0] = 0 /\ \A k \in 1 .. n : g[k] = (g[k - 1] + r[q[k]]) % Modulus
    BY DEF Runs
  <1>1. PICK f : f = CHOOSE h : Adds(q, r, m, h)
    OBVIOUS
  <1>2. Adds(q, r, m, f) /\ SumTo(q, r, m) = f[m]
    <2>1. \E h : Adds(q, r, m, h)
      BY SumsExist
    <2>2. Adds(q, r, m, f)
      BY <1>1, <2>1, Zenon
    <2> QED
      BY <1>1, <2>2, SumIsChosen
  <1>3. \A k \in 0 .. m : f[k] = IF k = 0 THEN 0 ELSE (f[k - 1] + r[q[k]]) % Modulus
    BY <1>2 DEF Adds
  <1> DEFINE S == {k \in Nat : k <= m => f[k] = g[k]}
  <1>4. 0 \in S
    BY <1>0, <1>3
  <1>5. ASSUME NEW k \in S
        PROVE  k + 1 \in S
    <2>1. SUFFICES ASSUME k + 1 <= m PROVE f[k + 1] = g[k + 1]
      BY <1>5
    <2>2. k \in Nat /\ f[k] = g[k] /\ k + 1 \in 0 .. m /\ k + 1 # 0 /\ (k + 1) - 1 = k
      BY <2>1
    <2>3. f[k + 1] = (f[k] + r[q[k + 1]]) % Modulus
      BY <1>3, <2>2
    <2>4. k + 1 \in 1 .. n
      BY <2>1, <2>2
    <2>5. g[k + 1] = (g[k] + r[q[k + 1]]) % Modulus
      BY <1>0, <2>2, <2>4
    <2> QED
      BY <2>2, <2>3, <2>5
  <1>6. S = Nat
    <2> HIDE DEF S
    <2>1. S \in SUBSET Nat
      BY DEF S
    <2> QED
      BY <1>4, <1>5, <2>1, Induction
  <1>7. m \in S
    BY <1>6
  <1> QED
    BY <1>2, <1>7

LEMMA SumSteps ==
    ASSUME NEW q, NEW r, NEW n \in Nat
    PROVE  /\ SumTo(q, r, 0) = 0
           /\ \A k \in 1 .. n : SumTo(q, r, k) = (SumTo(q, r, k - 1) + r[q[k]]) % Modulus
  <1>1. PICK f : Adds(q, r, n, f)
    BY SumsExist
  <1>2. \A k \in 0 .. n : f[k] = IF k = 0 THEN 0 ELSE (f[k - 1] + r[q[k]]) % Modulus
    BY <1>1 DEF Adds
  <1>3. f[0] = 0 /\ \A k \in 1 .. n : f[k] = (f[k - 1] + r[q[k]]) % Modulus
    BY <1>2
  <1>4. \A k \in 0 .. n : SumTo(q, r, k) = f[k]
    <2>1. Runs(q, r, n, f)
      BY <1>3 DEF Runs
    <2> QED
      BY <2>1, SumIs
  <1> QED
    BY <1>3, <1>4

LEMMA SumRange ==
    ASSUME NEW q, NEW r, NEW n \in Nat, \A k \in 1 .. n : r[q[k]] \in Nat
    PROVE  \A k \in 0 .. n : SumTo(q, r, k) \in 0 .. Modulus - 1
  <1>1. /\ SumTo(q, r, 0) = 0
        /\ \A k \in 1 .. n : SumTo(q, r, k) = (SumTo(q, r, k - 1) + r[q[k]]) % Modulus
    BY SumSteps
  <1> DEFINE S == {k \in Nat : k <= n => SumTo(q, r, k) \in 0 .. Modulus - 1}
  <1>2. 0 \in S
    BY <1>1, TimerAssumption DEF TimerAssumption
  <1>3. ASSUME NEW k \in S
        PROVE  k + 1 \in S
    <2>1. SUFFICES ASSUME k + 1 <= n PROVE SumTo(q, r, k + 1) \in 0 .. Modulus - 1
      BY <1>3
    <2>2. k \in Nat /\ SumTo(q, r, k) \in 0 .. Modulus - 1 /\ k + 1 \in 1 .. n /\ (k + 1) - 1 = k
      BY <2>1
    <2>3. SumTo(q, r, k) + r[q[k + 1]] \in Int
      BY <2>2, TimerAssumption DEF TimerAssumption
    <2> QED
      BY <1>1, <2>2, <2>3, ModRange
  <1>4. S = Nat
    <2> HIDE DEF S
    <2>1. S \in SUBSET Nat
      BY DEF S
    <2> QED
      BY <1>2, <1>3, <2>1, Induction
  <1> QED
    BY <1>4

(* No event of the list is due later than the numbers reach: the sum of    *)
(* its ticks and of those before it does not wrap.                         *)
NoWrap(q, r) == \A k \in 1 .. Len(q) : SumTo(q, r, k - 1) + r[q[k]] < Modulus

LEMMA ExactSums ==
    ASSUME NEW q, NEW r, Len(q) \in Nat, \A k \in 1 .. Len(q) : r[q[k]] \in Nat, NoWrap(q, r)
    PROVE  /\ SumTo(q, r, 0) = 0
           /\ \A k \in 0 .. Len(q) : SumTo(q, r, k) \in 0 .. Modulus - 1
           /\ \A k \in 1 .. Len(q) : SumTo(q, r, k) = SumTo(q, r, k - 1) + r[q[k]]
  <1>1. \A k \in 0 .. Len(q) : SumTo(q, r, k) \in 0 .. Modulus - 1
    BY SumRange
  <1>2. /\ SumTo(q, r, 0) = 0
        /\ \A k \in 1 .. Len(q) : SumTo(q, r, k) = (SumTo(q, r, k - 1) + r[q[k]]) % Modulus
    BY SumSteps
  <1>3. ASSUME NEW k \in 1 .. Len(q)
        PROVE  SumTo(q, r, k) = SumTo(q, r, k - 1) + r[q[k]]
    <2>1. k - 1 \in 0 .. Len(q) /\ SumTo(q, r, k - 1) \in 0 .. Modulus - 1
      BY <1>1
    <2>2. SumTo(q, r, k - 1) + r[q[k]] \in 0 .. Modulus - 1
      BY <2>1, TimerAssumption DEF NoWrap, TimerAssumption
    <2> QED
      BY <1>2, <2>2, ModSmall
  <1> QED
    BY <1>1, <1>2, <1>3

Adding(q, r, n, g) ==
    /\ Len(q) = n /\ g[0] = 0
    /\ \A k \in 0 .. n : g[k] \in 0 .. Modulus - 1
    /\ \A k \in 1 .. n : g[k] = g[k - 1] + r[q[k]]

LEMMA ExactSumsAre ==
    ASSUME NEW q, NEW r, NEW n \in Nat, NEW g, Adding(q, r, n, g)
    PROVE  NoWrap(q, r) /\ \A k \in 0 .. n : SumTo(q, r, k) = g[k]
  <1>0. /\ Len(q) = n /\ g[0] = 0
        /\ \A k \in 0 .. n : g[k] \in 0 .. Modulus - 1
        /\ \A k \in 1 .. n : g[k] = g[k - 1] + r[q[k]]
    BY DEF Adding
  <1>1. \A k \in 1 .. n : g[k] = (g[k - 1] + r[q[k]]) % Modulus
    <2> TAKE k \in 1 .. n
    <2>1. k \in 0 .. n
      OBVIOUS
    <2>2. g[k - 1] + r[q[k]] \in 0 .. Modulus - 1
      BY <1>0, <2>1
    <2> QED
      BY <1>0, <2>2, ModSmall
  <1>2. \A k \in 0 .. n : SumTo(q, r, k) = g[k]
    <2>1. Runs(q, r, n, g)
      BY <1>0, <1>1 DEF Runs
    <2> QED
      BY <2>1, SumIs
  <1>3. ASSUME NEW k \in 1 .. n
        PROVE  SumTo(q, r, k - 1) + r[q[k]] < Modulus
    <2>1. k - 1 \in 0 .. n /\ k \in 0 .. n
      OBVIOUS
    <2>2. SumTo(q, r, k - 1) + r[q[k]] = g[k] /\ g[k] \in 0 .. Modulus - 1
      BY <1>0, <1>2, <2>1
    <2> QED
      BY <2>2, TimerAssumption DEF TimerAssumption
  <1> QED
    BY <1>0, <1>2, <1>3 DEF NoWrap

(* What inserting and removing do to the places, in one word each.         *)
Inserted(q, i, e, s) ==
    /\ Len(s) = Len(q) + 1
    /\ \A k \in 1 .. Len(q) + 1 :
          s[k] = IF k < i THEN q[k] ELSE IF k = i THEN e ELSE q[k - 1]

Removed(q, i, s) ==
    /\ Len(s) = Len(q) - 1
    /\ \A k \in 1 .. Len(q) - 1 : s[k] = IF k < i THEN q[k] ELSE q[k + 1]

LEMMA InsertedAt ==
    ASSUME NEW S, NEW q \in Seq(S), NEW i \in 1 .. Len(q) + 1, NEW e \in S
    PROVE  InsertAt(q, i, e) \in Seq(S) /\ Inserted(q, i, e, InsertAt(q, i, e))
  BY InsertAtElements DEF Inserted

LEMMA RemovedAt ==
    ASSUME NEW S, NEW q \in Seq(S), NEW i \in 1 .. Len(q)
    PROVE  RemoveAt(q, i) \in Seq(S) /\ Removed(q, i, RemoveAt(q, i))
  BY RemoveAtElements DEF Removed

(* A new event finds its place: what is due no later stays before it.      *)
Fits(q, i, e, r, r2, n) ==
    /\ \A k \in 1 .. Len(q) : r[q[k]] \in Nat
    /\ NoWrap(q, r)
    /\ SumTo(q, r, i - 1) <= n /\ (i <= Len(q) => n < SumTo(q, r, i))
    /\ r2[e] = (n - SumTo(q, r, i - 1)) % Modulus
    /\ i <= Len(q) => r2[q[i]] = (r[q[i]] - r2[e]) % Modulus
    /\ \A k \in 1 .. Len(q) : k # i => r2[q[k]] = r[q[k]]

SumInserted(q, i, e, r, r2, n) ==
    \A k \in 0 .. Len(q) + 1 :
        SumTo(InsertAt(q, i, e), r2, k) =
            IF k < i THEN SumTo(q, r, k) ELSE IF k = i THEN n ELSE SumTo(q, r, k - 1)

LEMMA InsertKeepsSums ==
    ASSUME NEW S, NEW q \in Seq(S), NEW e \in S, NEW i \in 1 .. Len(q) + 1,
           NEW r, NEW r2, NEW n \in 0 .. Modulus - 1, Fits(q, i, e, r, r2, n)
    PROVE  NoWrap(InsertAt(q, i, e), r2) /\ SumInserted(q, i, e, r, r2, n)
  <1> PICK own : own = r2[e]
    OBVIOUS
  <1>0. /\ \A k \in 1 .. Len(q) : r[q[k]] \in Nat
        /\ NoWrap(q, r)
        /\ SumTo(q, r, i - 1) <= n /\ (i <= Len(q) => n < SumTo(q, r, i))
        /\ own = (n - SumTo(q, r, i - 1)) % Modulus /\ r2[e] = own
        /\ i <= Len(q) => r2[q[i]] = (r[q[i]] - own) % Modulus
        /\ \A k \in 1 .. Len(q) : k # i => r2[q[k]] = r[q[k]]
    BY DEF Fits
  <1> DEFINE T(k) == SumTo(q, r, k)
             s == InsertAt(q, i, e)
             g == [k \in 0 .. Len(q) + 1 |-> IF k < i THEN T(k) ELSE IF k = i THEN n ELSE T(k - 1)]
  <1>1. /\ T(0) = 0 /\ \A k \in 0 .. Len(q) : T(k) \in 0 .. Modulus - 1
        /\ \A k \in 1 .. Len(q) : T(k) = T(k - 1) + r[q[k]]
    BY <1>0, LenProperties, ExactSums
  <1>2. /\ Len(s) = Len(q) + 1
        /\ \A k \in 1 .. Len(q) + 1 :
              s[k] = IF k < i THEN q[k] ELSE IF k = i THEN e ELSE q[k - 1]
    <2>1. s \in Seq(S) /\ Inserted(q, i, e, s)
      BY InsertedAt
    <2> HIDE DEF s
    <2> QED
      BY <2>1 DEF Inserted
  <1>3. Len(q) \in Nat /\ i \in Nat /\ 1 <= i /\ i <= Len(q) + 1 /\ n \in Nat /\ Modulus \in Nat
    BY LenProperties, TimerAssumption DEF TimerAssumption
  <1> HIDE DEF s, T
  <1>4. i - 1 \in 0 .. Len(q) /\ T(i - 1) <= n /\ (i <= Len(q) => n < T(i))
    BY <1>0, <1>3 DEF T
  <1>5. own = n - T(i - 1)
    <2>1. T(i - 1) \in 0 .. Modulus - 1
      BY <1>1, <1>4
    <2>2. n - T(i - 1) \in 0 .. Modulus - 1
      BY <1>3, <1>4, <2>1
    <2> QED
      BY <1>0, <2>2, ModSmall DEF T
  <1>6. ASSUME i <= Len(q)
        PROVE  r2[q[i]] = T(i) - n
    <2>1. i \in 1 .. Len(q) /\ i \in 0 .. Len(q) /\ T(i) = T(i - 1) + r[q[i]]
      BY <1>1, <1>3, <1>6
    <2>2. T(i) \in 0 .. Modulus - 1 /\ T(i - 1) \in 0 .. Modulus - 1
      BY <1>1, <1>4, <2>1
    <2>3. r[q[i]] - own = T(i) - n
      BY <1>0, <1>3, <1>5, <2>1, <2>2, SMTT(60)
    <2>4. T(i) - n \in 0 .. Modulus - 1
      BY <1>3, <1>4, <1>6, <2>2
    <2> QED
      BY <1>0, <1>6, <2>3, <2>4, ModSmall
  <1>7. g[0] = 0
    BY <1>1, <1>3
  <1>8. \A k \in 0 .. Len(q) + 1 : g[k] \in 0 .. Modulus - 1
    <2> TAKE k \in 0 .. Len(q) + 1
    <2>1. CASE k < i
      BY <1>1, <1>3, <2>1
    <2>2. CASE k = i
      BY <1>3, <2>2
    <2>3. CASE k > i
      <3>1. k - 1 \in 0 .. Len(q)
        BY <1>3, <2>3
      <3> QED
        BY <1>1, <1>3, <2>3, <3>1
    <2> QED
      BY <1>3, <2>1, <2>2, <2>3
  <1>9. \A k \in 1 .. Len(q) + 1 : g[k] = g[k - 1] + r2[s[k]]
    <2> TAKE k \in 1 .. Len(q) + 1
    <2>1. k \in 0 .. Len(q) + 1 /\ k - 1 \in 0 .. Len(q) + 1
      BY <1>3
    <2>2. CASE k < i
      <3>1. g[k] = T(k) /\ g[k - 1] = T(k - 1) /\ s[k] = q[k] /\ k \in 1 .. Len(q)
        BY <1>2, <1>3, <2>1, <2>2
      <3> QED
        BY <1>0, <1>1, <2>2, <3>1
    <2>3. CASE k = i
      <3>1. g[k] = n /\ g[k - 1] = T(i - 1) /\ s[k] = e
        BY <1>2, <1>3, <2>1, <2>3
      <3>2. T(i - 1) \in 0 .. Modulus - 1
        BY <1>1, <1>4
      <3>3. r2[s[k]] = n - T(i - 1)
        BY <1>0, <1>5, <3>1
      <3> HIDE DEF g
      <3> QED
        BY <1>3, <3>1, <3>2, <3>3
    <2>4. CASE k = i + 1
      <3>1. g[k] = T(i) /\ g[k - 1] = n /\ s[k] = q[i] /\ i <= Len(q)
        BY <1>2, <1>3, <2>1, <2>4
      <3>2. T(i) \in 0 .. Modulus - 1
        BY <1>1, <1>3, <3>1
      <3> QED
        BY <1>3, <1>6, <3>1, <3>2
    <2>5. CASE k > i + 1
      <3>1. /\ g[k] = T(k - 1) /\ g[k - 1] = T((k - 1) - 1) /\ s[k] = q[k - 1]
            /\ k - 1 \in 1 .. Len(q) /\ k - 1 # i
        BY <1>2, <1>3, <2>1, <2>5, SMTT(60)
      <3> QED
        BY <1>0, <1>1, <3>1
    <2> QED
      BY <1>3, <2>2, <2>3, <2>4, <2>5
  <1> HIDE DEF g
  <1>10. NoWrap(s, r2) /\ \A k \in 0 .. Len(q) + 1 : SumTo(s, r2, k) = g[k]
    <2>1. Adding(s, r2, Len(q) + 1, g)
      BY <1>2, <1>7, <1>8, <1>9 DEF Adding
    <2> QED
      BY <1>3, <2>1, ExactSumsAre
  <1> QED
    BY <1>10 DEF SumInserted, g, s, T

(* When an event is cancelled the others stay due when they were. *)
Inherits(q, i, r, r2) ==
    /\ i < Len(q) => r2[q[i + 1]] = (r[q[i + 1]] + r[q[i]]) % Modulus
    /\ \A k \in 1 .. Len(q) : k # i /\ k # i + 1 => r2[q[k]] = r[q[k]]

SumRemoved(q, i, r, r2) ==
    \A k \in 0 .. Len(q) - 1 :
        SumTo(RemoveAt(q, i), r2, k) = IF k < i THEN SumTo(q, r, k) ELSE SumTo(q, r, k + 1)

LEMMA RemoveKeepsSums ==
    ASSUME NEW S, NEW q \in Seq(S), NEW i \in 1 .. Len(q), NEW r, NEW r2,
           \A k \in 1 .. Len(q) : r[q[k]] \in Nat, NoWrap(q, r), Inherits(q, i, r, r2)
    PROVE  NoWrap(RemoveAt(q, i), r2) /\ SumRemoved(q, i, r, r2)
  <1>0. /\ i < Len(q) => r2[q[i + 1]] = (r[q[i + 1]] + r[q[i]]) % Modulus
        /\ \A k \in 1 .. Len(q) : k # i /\ k # i + 1 => r2[q[k]] = r[q[k]]
    BY DEF Inherits
  <1> DEFINE T(k) == SumTo(q, r, k)
             s == RemoveAt(q, i)
             g == [k \in 0 .. Len(q) - 1 |-> IF k < i THEN T(k) ELSE T(k + 1)]
  <1>1. /\ T(0) = 0 /\ \A k \in 0 .. Len(q) : T(k) \in 0 .. Modulus - 1
        /\ \A k \in 1 .. Len(q) : T(k) = T(k - 1) + r[q[k]]
    BY LenProperties, ExactSums
  <1>2. /\ Len(s) = Len(q) - 1
        /\ \A k \in 1 .. Len(q) - 1 : s[k] = IF k < i THEN q[k] ELSE q[k + 1]
    <2>1. s \in Seq(S) /\ Removed(q, i, s)
      BY RemovedAt
    <2> HIDE DEF s
    <2> QED
      BY <2>1 DEF Removed
  <1>3. /\ Len(q) \in Nat /\ i \in Nat /\ 1 <= i /\ i <= Len(q) /\ Len(q) - 1 \in Nat
        /\ Modulus \in Nat
    BY LenProperties, TimerAssumption DEF TimerAssumption
  <1> HIDE DEF s, T
  <1>4. ASSUME i < Len(q)
        PROVE  r2[q[i + 1]] = T(i + 1) - T(i - 1)
    <2>1. /\ i + 1 \in 1 .. Len(q) /\ i \in 1 .. Len(q) /\ i - 1 \in 0 .. Len(q)
          /\ (i + 1) - 1 = i /\ i \in 0 .. Len(q) /\ i + 1 \in 0 .. Len(q)
      BY <1>3, <1>4
    <2>2. T(i + 1) = T(i) + r[q[i + 1]] /\ T(i) = T(i - 1) + r[q[i]]
      BY <1>1, <2>1
    <2>3. /\ T(i + 1) \in 0 .. Modulus - 1 /\ T(i - 1) \in 0 .. Modulus - 1
          /\ r[q[i]] \in Nat /\ r[q[i + 1]] \in Nat
      BY <1>1, <2>1
    <2>4. r[q[i + 1]] + r[q[i]] = T(i + 1) - T(i - 1)
      <3>1. T(i + 1) = (T(i - 1) + r[q[i]]) + r[q[i + 1]]
        BY <2>2
      <3>2. \A a, b, x, y \in Int : b = (a + x) + y => y + x = b - a
        OBVIOUS
      <3> QED
        BY <2>3, <3>1, <3>2, SMTT(60)
    <2>5. T(i + 1) - T(i - 1) \in 0 .. Modulus - 1
      BY <1>3, <2>3, <2>4, SMTT(60)
    <2> QED
      BY <1>0, <1>4, <2>4, <2>5, ModSmall
  <1>5. g[0] = 0
    BY <1>1, <1>3
  <1>6. \A k \in 0 .. Len(q) - 1 : g[k] \in 0 .. Modulus - 1
    <2> TAKE k \in 0 .. Len(q) - 1
    <2>1. k \in 0 .. Len(q) /\ k + 1 \in 0 .. Len(q)
      BY <1>3
    <2> QED
      BY <1>1, <2>1
  <1>7. \A k \in 1 .. Len(q) - 1 : g[k] = g[k - 1] + r2[s[k]]
    <2> TAKE k \in 1 .. Len(q) - 1
    <2>1. k \in 0 .. Len(q) - 1 /\ k - 1 \in 0 .. Len(q) - 1
      BY <1>3
    <2>2. CASE k < i
      <3>1. g[k] = T(k) /\ g[k - 1] = T(k - 1)
        BY <1>3, <2>1, <2>2
      <3>2. s[k] = q[k] /\ k \in 1 .. Len(q) /\ k # i /\ k # i + 1
        BY <1>2, <1>3, <2>2
      <3> QED
        BY <1>0, <1>1, <3>1, <3>2
    <2>3. CASE k = i
      <3>1. g[k] = T(i + 1) /\ g[k - 1] = T(i - 1) /\ s[k] = q[i + 1] /\ i < Len(q)
        BY <1>2, <1>3, <2>1, <2>3
      <3>2. i + 1 \in 0 .. Len(q) /\ i - 1 \in 0 .. Len(q)
        BY <1>3, <3>1
      <3>3. T(i + 1) \in 0 .. Modulus - 1 /\ T(i - 1) \in 0 .. Modulus - 1
        BY <1>1, <3>2
      <3> QED
        BY <1>3, <1>4, <3>1, <3>3
    <2>4. CASE k > i
      <3>1. /\ g[k] = T(k + 1) /\ g[k - 1] = T(k) /\ s[k] = q[k + 1]
            /\ k + 1 \in 1 .. Len(q) /\ k + 1 # i /\ k + 1 # i + 1 /\ (k + 1) - 1 = k
        BY <1>2, <1>3, <2>1, <2>4, SMTT(60)
      <3>2. T(k + 1) = T(k) + r[q[k + 1]]
        BY <1>1, <3>1
      <3>3. r2[q[k + 1]] = r[q[k + 1]]
        BY <1>0, <3>1
      <3> QED
        BY <3>1, <3>2, <3>3
    <2> QED
      BY <1>3, <2>2, <2>3, <2>4
  <1> HIDE DEF g
  <1>8. NoWrap(s, r2) /\ \A k \in 0 .. Len(q) - 1 : SumTo(s, r2, k) = g[k]
    <2>1. PICK m \in Nat : m = Len(q) - 1
      BY <1>3
    <2>2. Adding(s, r2, m, g)
      BY <1>2, <1>5, <1>6, <1>7, <2>1 DEF Adding
    <2>3. NoWrap(s, r2) /\ \A k \in 0 .. m : SumTo(s, r2, k) = g[k]
      BY <2>2, ExactSumsAre
    <2> QED
      BY <2>1, <2>3
  <1> QED
    BY <1>8 DEF SumRemoved, g, s, T

(* ... and so when the first one leaves the list because it is due.        *)
LEMMA TailKeepsSums ==
    ASSUME NEW S, NEW q \in Seq(S), q # <<>>,
           NEW r, \A k \in 1 .. Len(q) : r[q[k]] \in Nat, NoWrap(q, r), r[Head(q)] = 0
    PROVE  /\ NoWrap(Tail(q), r)
           /\ \A k \in 0 .. Len(q) - 1 : SumTo(Tail(q), r, k) = SumTo(q, r, k + 1)
  <1> DEFINE T(k) == SumTo(q, r, k)
             s == Tail(q)
             g == [k \in 0 .. Len(q) - 1 |-> T(k + 1)]
  <1>1. /\ T(0) = 0 /\ \A k \in 0 .. Len(q) : T(k) \in 0 .. Modulus - 1
        /\ \A k \in 1 .. Len(q) : T(k) = T(k - 1) + r[q[k]]
    BY LenProperties, ExactSums
  <1>2. /\ Len(s) = Len(q) - 1 /\ Head(q) = q[1]
        /\ \A k \in 1 .. Len(q) - 1 : s[k] = q[k + 1]
    BY HeadTailProperties
  <1>3. Len(q) \in Nat \ {0} /\ Len(q) - 1 \in Nat
    BY LenProperties, EmptySeq
  <1> HIDE DEF s, T
  <1>4. g[0] = 0
    <2>1. T(1) = T(1 - 1) + r[q[1]] /\ 1 - 1 = 0
      BY <1>1, <1>3
    <2> QED
      BY <1>1, <1>2, <1>3, <2>1
  <1>5. \A k \in 0 .. Len(q) - 1 : g[k] \in 0 .. Modulus - 1
    <2> TAKE k \in 0 .. Len(q) - 1
    <2>1. k + 1 \in 0 .. Len(q)
      BY <1>3
    <2> QED
      BY <1>1, <2>1
  <1>6. \A k \in 1 .. Len(q) - 1 : g[k] = g[k - 1] + r[s[k]]
    <2> TAKE k \in 1 .. Len(q) - 1
    <2>1. /\ k \in 0 .. Len(q) - 1 /\ k - 1 \in 0 .. Len(q) - 1 /\ k + 1 \in 1 .. Len(q)
          /\ (k + 1) - 1 = k /\ (k - 1) + 1 = k
      BY <1>3
    <2>2. g[k] = T(k + 1) /\ g[k - 1] = T(k) /\ s[k] = q[k + 1]
      BY <1>2, <2>1
    <2>3. T(k + 1) = T(k) + r[q[k + 1]]
      BY <1>1, <2>1
    <2> QED
      BY <2>2, <2>3
  <1> HIDE DEF g
  <1>7. NoWrap(s, r) /\ \A k \in 0 .. Len(q) - 1 : SumTo(s, r, k) = g[k]
    <2>1. Adding(s, r, Len(q) - 1, g)
      BY <1>2, <1>4, <1>5, <1>6 DEF Adding
    <2> QED
      BY <1>3, <2>1, ExactSumsAre
  <1> QED
    BY <1>7 DEF g, s, T

(* No event is due before the first one. *)
LEMMA NoneDueBeforeFirst ==
    ASSUME NEW q, NEW n \in Nat, Len(q) = n, n > 0,
           NEW r, \A k \in 1 .. n : r[q[k]] \in Nat, NoWrap(q, r), r[q[1]] > 0
    PROVE  SumTo(q, r, 1) = r[q[1]] /\ \A k \in 1 .. n : SumTo(q, r, k) > 0
  <1> DEFINE T(k) == SumTo(q, r, k)
             Up == {k \in Nat : k + 1 <= n => T(k + 1) > 0}
  <1>0. Modulus \in Nat
    BY TimerAssumption DEF TimerAssumption
  <1>1. /\ T(0) = 0 /\ \A k \in 0 .. n : T(k) \in 0 .. Modulus - 1
        /\ \A k \in 1 .. n : T(k) = T(k - 1) + r[q[k]]
    BY ExactSums
  <1> HIDE DEF T
  <1>2. T(1) = r[q[1]] /\ 1 \in 1 .. n /\ r[q[1]] \in Nat
    <2>1. 1 \in 1 .. n /\ 1 - 1 = 0
      OBVIOUS
    <2> QED
      BY <1>1, <2>1
  <1>3. 0 \in Up
    BY <1>2
  <1>4. ASSUME NEW k \in Up
        PROVE  k + 1 \in Up
    <2>1. SUFFICES ASSUME (k + 1) + 1 <= n PROVE T((k + 1) + 1) > 0
      BY <1>4
    <2>2. k + 1 \in 0 .. n /\ (k + 1) + 1 \in 1 .. n /\ ((k + 1) + 1) - 1 = k + 1 /\ T(k + 1) > 0
      BY <1>4, <2>1
    <2>3. /\ T((k + 1) + 1) = T(k + 1) + r[q[(k + 1) + 1]] /\ T(k + 1) \in 0 .. Modulus - 1
          /\ r[q[(k + 1) + 1]] \in Nat
      BY <1>1, <2>2
    <2> QED
      BY <2>2, <2>3
  <1>5. Up = Nat
    <2> HIDE DEF Up
    <2>1. Up \in SUBSET Nat
      BY DEF Up
    <2> QED
      BY <1>3, <1>4, <2>1, Induction
  <1>6. ASSUME NEW k \in 1 .. n
        PROVE  T(k) > 0
    <2>1. k - 1 \in Nat /\ (k - 1) + 1 = k /\ k <= n
      OBVIOUS
    <2>2. k - 1 \in Up
      BY <1>5, <2>1, Zenon
    <2>3. (k - 1) + 1 <= n => T((k - 1) + 1) > 0
      BY <2>2
    <2> QED
      BY <2>1, <2>3
  <1> QED
    BY <1>2, <1>6 DEF T

(* A tick counts one number down and brings every event of the list one    *)
(* tick nearer.                                                            *)
LEMMA TickLowersSums ==
    ASSUME NEW q, NEW n \in Nat, Len(q) = n, n > 0,
           NEW r, NEW r2, \A k \in 1 .. n : r[q[k]] \in Nat, NoWrap(q, r),
           r[q[1]] > 0, r2[q[1]] = (r[q[1]] - 1) % Modulus,
           \A k \in 2 .. n : r2[q[k]] = r[q[k]]
    PROVE  /\ NoWrap(q, r2)
           /\ \A k \in 1 .. n : SumTo(q, r2, k) = SumTo(q, r, k) - 1
  <1> DEFINE T(k) == SumTo(q, r, k)
             g == [k \in 0 .. n |-> IF k = 0 THEN 0 ELSE T(k) - 1]
  <1>1. /\ T(0) = 0 /\ \A k \in 0 .. n : T(k) \in 0 .. Modulus - 1
        /\ \A k \in 1 .. n : T(k) = T(k - 1) + r[q[k]]
    BY ExactSums
  <1>0. Modulus \in Nat
    BY TimerAssumption DEF TimerAssumption
  <1>3. T(1) = r[q[1]] /\ \A k \in 1 .. n : T(k) > 0
    BY NoneDueBeforeFirst
  <1>2. T(1) = r[q[1]] /\ 1 \in 1 .. n /\ r[q[1]] \in Nat
    BY <1>3
  <1> HIDE DEF T
  <1>4. r2[q[1]] = r[q[1]] - 1
    <2>1. r[q[1]] - 1 \in 0 .. Modulus - 1
      <3>1. 1 \in 0 .. n
        OBVIOUS
      <3>2. T(1) \in 0 .. Modulus - 1
        BY <1>1, <3>1
      <3> QED
        BY <1>0, <1>2, <3>2
    <2> QED
      BY <2>1, ModSmall
  <1>5. \A k \in 0 .. n : g[k] \in 0 .. Modulus - 1
    <2> TAKE k \in 0 .. n
    <2>1. CASE k = 0
      BY <2>1, TimerAssumption DEF TimerAssumption
    <2>2. CASE k # 0
      <3>1. k \in 1 .. n /\ g[k] = T(k) - 1
        BY <2>2
      <3> HIDE DEF g
      <3>2. T(k) \in 0 .. Modulus - 1 /\ T(k) > 0
        BY <1>1, <1>3, <3>1
      <3> QED
        BY <1>0, <3>1, <3>2
    <2> QED
      BY <2>1, <2>2
  <1>6. \A k \in 1 .. n : g[k] = g[k - 1] + r2[q[k]]
    <2> TAKE k \in 1 .. n
    <2>1. k \in 0 .. n /\ k - 1 \in 0 .. n /\ g[k] = T(k) - 1
      OBVIOUS
    <2>2. CASE k = 1
      <3>1. g[k - 1] = 0
        BY <2>1, <2>2
      <3> QED
        BY <1>2, <1>4, <2>1, <2>2, <3>1
    <2>3. CASE k # 1
      <3>1. g[k - 1] = T(k - 1) - 1 /\ k \in 2 .. n
        BY <2>1, <2>3
      <3> HIDE DEF g
      <3>2. T(k) = T(k - 1) + r[q[k]] /\ T(k - 1) \in 0 .. Modulus - 1 /\ r[q[k]] \in Nat
        BY <1>1, <2>1
      <3>3. r2[q[k]] = r[q[k]]
        BY <3>1
      <3> QED
        BY <1>0, <2>1, <3>1, <3>2, <3>3, SMTT(60)
    <2> QED
      BY <2>2, <2>3
  <1>7. g[0] = 0
    OBVIOUS
  <1>8. \A k \in 1 .. n : g[k] = T(k) - 1
    OBVIOUS
  <1> HIDE DEF g
  <1>9. NoWrap(q, r2) /\ \A k \in 0 .. n : SumTo(q, r2, k) = g[k]
    <2>1. Adding(q, r2, n, g)
      BY <1>5, <1>6, <1>7 DEF Adding
    <2> QED
      BY <2>1, ExactSumsAre
  <1>10. \A k \in 1 .. n : SumTo(q, r2, k) = T(k) - 1
    BY <1>8, <1>9
  <1> QED
    BY <1>9, <1>10 DEF T

----------------------------------------------------------------------------
(* The ticks until the oneshot events of a list are due. *)
Place(q, e) == SelectInSeq(q, LAMBDA f : f = e)

DueIn(q, r) ==
    [e \in OneshotEvent |-> IF Contains(q, e) THEN SumTo(q, r, Place(q, e)) ELSE Nil]

LEMMA PlaceIs ==
    ASSUME NEW S, NEW q \in Seq(S), IsInjective(q), NEW k \in 1 .. Len(q)
    PROVE  Place(q, q[k]) = k
  <1> DEFINE I == {i \in 1 .. Len(q) : q[i] = q[k]}
  <1>1. DOMAIN q = 1 .. Len(q)
    BY LenProperties
  <1>2. I = {k}
    BY <1>1 DEF IsInjective
  <1>3. Min({k}) = k
    BY DEF Min
  <1>4. Place(q, q[k]) = IF I # {} THEN Min(I) ELSE 0
    BY DEF Place, SelectInSeq
  <1> QED
    BY <1>2, <1>3, <1>4

LEMMA DueInIs ==
    ASSUME NEW q \in Seq(OneshotEvent), IsInjective(q), NEW r
    PROVE  /\ DueIn(q, r) = [e \in OneshotEvent |-> DueIn(q, r)[e]]
           /\ \A k \in 1 .. Len(q) : q[k] \in OneshotEvent /\ DueIn(q, r)[q[k]] = SumTo(q, r, k)
           /\ \A e \in OneshotEvent :
                 \/ ~Contains(q, e) /\ DueIn(q, r)[e] = Nil
                 \/ \E k \in 1 .. Len(q) : q[k] = e
  <1>1. \A k \in 1 .. Len(q) : q[k] \in OneshotEvent /\ Contains(q, q[k]) /\ Place(q, q[k]) = k
    BY ElementOfSeq, PlaceIs DEF Contains
  <1>2. \A e \in OneshotEvent :
            DueIn(q, r)[e] = IF Contains(q, e) THEN SumTo(q, r, Place(q, e)) ELSE Nil
    BY DEF DueIn
  <1>3. DueIn(q, r) = [e \in OneshotEvent |-> DueIn(q, r)[e]]
    BY DEF DueIn
  <1>4. \A k \in 1 .. Len(q) : DueIn(q, r)[q[k]] = SumTo(q, r, k)
    BY <1>1, <1>2
  <1>5. \A e \in OneshotEvent : ~Contains(q, e) \/ \E k \in 1 .. Len(q) : q[k] = e
    BY DEF Contains
  <1> QED
    BY <1>1, <1>2, <1>3, <1>4, <1>5

TellsDue(q, r, g) ==
    /\ g = [e \in OneshotEvent |-> g[e]]
    /\ \A k \in 1 .. Len(q) : g[q[k]] = SumTo(q, r, k)
    /\ \A e \in OneshotEvent : ~Contains(q, e) => g[e] = Nil

LEMMA SameDue ==
    ASSUME NEW q \in Seq(OneshotEvent), IsInjective(q), NEW r, NEW g, TellsDue(q, r, g)
    PROVE  DueIn(q, r) = g
  <1>0. /\ g = [e \in OneshotEvent |-> g[e]]
        /\ \A k \in 1 .. Len(q) : g[q[k]] = SumTo(q, r, k)
        /\ \A e \in OneshotEvent : ~Contains(q, e) => g[e] = Nil
    BY DEF TellsDue
  <1>1. \A e \in OneshotEvent : DueIn(q, r)[e] = g[e]
    BY <1>0, DueInIs
  <1>2. DueIn(q, r) = [e \in OneshotEvent |-> DueIn(q, r)[e]]
    BY DueInIs
  <1> QED
    BY <1>0, <1>1, <1>2

LEMMA DueInserted ==
    ASSUME NEW q \in Seq(OneshotEvent), IsInjective(q), NEW e \in OneshotEvent, ~Contains(q, e),
           NEW i \in 1 .. Len(q) + 1, NEW r, NEW r2, NEW n, SumInserted(q, i, e, r, r2, n)
    PROVE  DueIn(InsertAt(q, i, e), r2) = [DueIn(q, r) EXCEPT ![e] = n]
  <1> DEFINE s == InsertAt(q, i, e)
             g == [DueIn(q, r) EXCEPT ![e] = n]
  <1>1. /\ s \in Seq(OneshotEvent) /\ Len(s) = Len(q) + 1
        /\ \A k \in 1 .. Len(q) + 1 :
              s[k] = IF k < i THEN q[k] ELSE IF k = i THEN e ELSE q[k - 1]
    <2>1. s \in Seq(OneshotEvent) /\ Inserted(q, i, e, s)
      BY InsertedAt
    <2> HIDE DEF s
    <2> QED
      BY <2>1 DEF Inserted
  <1>2. IsInjective(s) /\ \A f : Contains(s, f) <=> Contains(q, f) \/ f = e
    BY ListInsert
  <1>3. Len(q) \in Nat /\ i \in Nat /\ 1 <= i /\ i <= Len(q) + 1
    BY LenProperties
  <1>4. /\ DueIn(q, r) = [f \in OneshotEvent |-> DueIn(q, r)[f]]
        /\ \A k \in 1 .. Len(q) : q[k] \in OneshotEvent /\ DueIn(q, r)[q[k]] = SumTo(q, r, k)
        /\ \A f \in OneshotEvent : ~Contains(q, f) => DueIn(q, r)[f] = Nil
    BY DueInIs DEF Contains
  <1>5. \A k \in 0 .. Len(q) + 1 :
           SumTo(s, r2, k) =
               IF k < i THEN SumTo(q, r, k) ELSE IF k = i THEN n ELSE SumTo(q, r, k - 1)
    BY DEF SumInserted
  <1>6. \A k \in 1 .. Len(q) : q[k] # e
    BY DEF Contains
  <1> HIDE DEF s
  <1>7. /\ g = [f \in OneshotEvent |-> g[f]] /\ g[e] = n
        /\ \A f \in OneshotEvent : f # e => g[f] = DueIn(q, r)[f]
    BY <1>4
  <1> HIDE DEF g
  <1>8. \A k \in 1 .. Len(s) : g[s[k]] = SumTo(s, r2, k)
    <2> TAKE k \in 1 .. Len(s)
    <2>1. k \in 1 .. Len(q) + 1 /\ k \in 0 .. Len(q) + 1
      BY <1>1, <1>3
    <2>2. CASE k < i
      <3>1. s[k] = q[k] /\ k \in 1 .. Len(q) /\ SumTo(s, r2, k) = SumTo(q, r, k)
        BY <1>1, <1>3, <1>5, <2>1, <2>2
      <3> QED
        BY <1>4, <1>6, <1>7, <3>1
    <2>3. CASE k = i
      BY <1>1, <1>5, <1>7, <2>1, <2>3
    <2>4. CASE k > i
      <3>1. /\ s[k] = q[k - 1] /\ k - 1 \in 1 .. Len(q)
            /\ SumTo(s, r2, k) = SumTo(q, r, k - 1)
        BY <1>1, <1>3, <1>5, <2>1, <2>4
      <3> QED
        BY <1>4, <1>6, <1>7, <3>1
    <2> QED
      BY <1>3, <2>1, <2>2, <2>3, <2>4
  <1>9. \A f \in OneshotEvent : ~Contains(s, f) => g[f] = Nil
    BY <1>2, <1>4, <1>7
  <1>10. DueIn(s, r2) = g
    <2>1. TellsDue(s, r2, g)
      BY <1>7, <1>8, <1>9 DEF TellsDue
    <2> QED
      BY <1>1, <1>2, <2>1, SameDue
  <1> QED
    BY <1>10 DEF s, g

LEMMA DueRemoved ==
    ASSUME NEW q \in Seq(OneshotEvent), IsInjective(q), NEW i \in 1 .. Len(q), NEW r, NEW r2,
           SumRemoved(q, i, r, r2)
    PROVE  DueIn(RemoveAt(q, i), r2) = [DueIn(q, r) EXCEPT ![q[i]] = Nil]
  <1> DEFINE s == RemoveAt(q, i)
             g == [DueIn(q, r) EXCEPT ![q[i]] = Nil]
  <1>1. /\ s \in Seq(OneshotEvent) /\ Len(s) = Len(q) - 1
        /\ \A k \in 1 .. Len(q) - 1 : s[k] = IF k < i THEN q[k] ELSE q[k + 1]
    <2>1. s \in Seq(OneshotEvent) /\ Removed(q, i, s)
      BY RemovedAt
    <2> HIDE DEF s
    <2> QED
      BY <2>1 DEF Removed
  <1>2. IsInjective(s) /\ \A f : Contains(s, f) <=> Contains(q, f) /\ f # q[i]
    BY ListRemove
  <1>3. Len(q) \in Nat /\ i \in Nat /\ 1 <= i /\ i <= Len(q) /\ DOMAIN q = 1 .. Len(q)
    BY LenProperties
  <1>4. /\ DueIn(q, r) = [f \in OneshotEvent |-> DueIn(q, r)[f]]
        /\ \A k \in 1 .. Len(q) : q[k] \in OneshotEvent /\ DueIn(q, r)[q[k]] = SumTo(q, r, k)
        /\ \A f \in OneshotEvent : ~Contains(q, f) => DueIn(q, r)[f] = Nil
    BY DueInIs DEF Contains
  <1>5. \A k \in 0 .. Len(q) - 1 :
           SumTo(s, r2, k) = IF k < i THEN SumTo(q, r, k) ELSE SumTo(q, r, k + 1)
    BY DEF SumRemoved
  <1>6. \A k \in 1 .. Len(q) : k # i => q[k] # q[i]
    BY <1>3 DEF IsInjective
  <1> HIDE DEF s
  <1>7. /\ g = [f \in OneshotEvent |-> g[f]] /\ g[q[i]] = Nil
        /\ \A f \in OneshotEvent : f # q[i] => g[f] = DueIn(q, r)[f]
    BY <1>4
  <1> HIDE DEF g
  <1>8. \A k \in 1 .. Len(s) : g[s[k]] = SumTo(s, r2, k)
    <2> TAKE k \in 1 .. Len(s)
    <2>1. k \in 1 .. Len(q) - 1 /\ k \in 0 .. Len(q) - 1
      BY <1>1, <1>3
    <2>2. CASE k < i
      <3>1. s[k] = q[k] /\ k \in 1 .. Len(q) /\ k # i /\ SumTo(s, r2, k) = SumTo(q, r, k)
        BY <1>1, <1>3, <1>5, <2>1, <2>2
      <3> QED
        BY <1>4, <1>6, <1>7, <3>1
    <2>3. CASE k >= i
      <3>1. /\ s[k] = q[k + 1] /\ k + 1 \in 1 .. Len(q) /\ k + 1 # i
            /\ SumTo(s, r2, k) = SumTo(q, r, k + 1)
        BY <1>1, <1>3, <1>5, <2>1, <2>3
      <3> QED
        BY <1>4, <1>6, <1>7, <3>1
    <2> QED
      BY <1>3, <2>1, <2>2, <2>3
  <1>9. \A f \in OneshotEvent : ~Contains(s, f) => g[f] = Nil
    BY <1>2, <1>4, <1>7
  <1>10. DueIn(s, r2) = g
    <2>1. TellsDue(s, r2, g)
      BY <1>7, <1>8, <1>9 DEF TellsDue
    <2> QED
      BY <1>1, <1>2, <2>1, SameDue
  <1> QED
    BY <1>10 DEF s, g

LEMMA DueFired ==
    ASSUME NEW q \in Seq(OneshotEvent), IsInjective(q), q # <<>>, NEW r,
           \A k \in 0 .. Len(q) - 1 : SumTo(Tail(q), r, k) = SumTo(q, r, k + 1)
    PROVE  DueIn(Tail(q), r) = [DueIn(q, r) EXCEPT ![Head(q)] = Nil]
  <1> DEFINE s == Tail(q)
             g == [DueIn(q, r) EXCEPT ![Head(q)] = Nil]
  <1>1. /\ s \in Seq(OneshotEvent) /\ Len(s) = Len(q) - 1 /\ Head(q) = q[1]
        /\ \A k \in 1 .. Len(q) - 1 : s[k] = q[k + 1]
    BY HeadTailProperties
  <1>2. IsInjective(s) /\ \A f : Contains(s, f) <=> Contains(q, f) /\ f # Head(q)
    BY ListTail
  <1>3. Len(q) \in Nat \ {0} /\ DOMAIN q = 1 .. Len(q)
    BY LenProperties, EmptySeq
  <1>4. /\ DueIn(q, r) = [f \in OneshotEvent |-> DueIn(q, r)[f]]
        /\ \A k \in 1 .. Len(q) : q[k] \in OneshotEvent /\ DueIn(q, r)[q[k]] = SumTo(q, r, k)
        /\ \A f \in OneshotEvent : ~Contains(q, f) => DueIn(q, r)[f] = Nil
    BY DueInIs DEF Contains
  <1>5. \A k \in 0 .. Len(q) - 1 : SumTo(s, r, k) = SumTo(q, r, k + 1)
    OBVIOUS
  <1>6. \A k \in 1 .. Len(q) : k # 1 => q[k] # q[1]
    BY <1>3 DEF IsInjective
  <1>e. PICK e \in OneshotEvent : e = Head(q)
    BY <1>1, <1>3, <1>4
  <1> HIDE DEF s
  <1>7. /\ g = [f \in OneshotEvent |-> g[f]] /\ g[e] = Nil
        /\ \A f \in OneshotEvent : f # e => g[f] = DueIn(q, r)[f]
    BY <1>4, <1>e
  <1> HIDE DEF g
  <1>8. \A k \in 1 .. Len(s) : g[s[k]] = SumTo(s, r, k)
    <2> TAKE k \in 1 .. Len(s)
    <2>1. k \in 1 .. Len(q) - 1 /\ k \in 0 .. Len(q) - 1 /\ k + 1 \in 1 .. Len(q) /\ k + 1 # 1
      BY <1>1, <1>3
    <2>2. s[k] = q[k + 1] /\ SumTo(s, r, k) = SumTo(q, r, k + 1) /\ q[k + 1] # e
      BY <1>1, <1>5, <1>6, <1>e, <2>1
    <2> QED
      BY <1>4, <1>7, <2>1, <2>2
  <1>9. \A f \in OneshotEvent : ~Contains(s, f) => g[f] = Nil
    BY <1>2, <1>4, <1>7, <1>e
  <1>10. DueIn(s, r) = g
    <2>1. TellsDue(s, r, g)
      BY <1>7, <1>8, <1>9 DEF TellsDue
    <2> QED
      BY <1>1, <1>2, <2>1, SameDue
  <1> QED
    BY <1>10 DEF s, g
LEMMA DueNearer ==
    ASSUME NEW q \in Seq(OneshotEvent), IsInjective(q), NEW r, NEW r2,
           \A k \in 1 .. Len(q) : /\ SumTo(q, r, k) # Nil
                                  /\ SumTo(q, r2, k) = SumTo(q, r, k) - 1
    PROVE  DueIn(q, r2) = [e \in OneshotEvent |->
               IF DueIn(q, r)[e] # Nil THEN DueIn(q, r)[e] - 1 ELSE Nil]
  <1> DEFINE g == [e \in OneshotEvent |->
                      IF DueIn(q, r)[e] # Nil THEN DueIn(q, r)[e] - 1 ELSE Nil]
  <1>1. /\ \A k \in 1 .. Len(q) : q[k] \in OneshotEvent /\ DueIn(q, r)[q[k]] = SumTo(q, r, k)
        /\ \A f \in OneshotEvent : ~Contains(q, f) => DueIn(q, r)[f] = Nil
    BY DueInIs DEF Contains
  <1>2. TellsDue(q, r2, g)
    BY <1>1 DEF TellsDue
  <1> HIDE DEF g
  <1>3. DueIn(q, r2) = g
    BY <1>2, SameDue
  <1> QED
    BY <1>3 DEF g

(* What other events do is nothing to the list. *)
LEMMA OthersKeepSums ==
    ASSUME NEW q \in Seq(OneshotEvent), IsInjective(q), NEW r, NEW r2,
           \A k \in 1 .. Len(q) : r2[q[k]] = r[q[k]]
    PROVE  /\ NoWrap(q, r) => NoWrap(q, r2)
           /\ DueIn(q, r2) = DueIn(q, r)
  <1>1. PICK n \in Nat : n = Len(q)
    BY LenProperties
  <1>2. PICK g : g = [k \in 0 .. n |-> SumTo(q, r, k)]
    OBVIOUS
  <1>3. /\ SumTo(q, r, 0) = 0
        /\ \A k \in 1 .. n : SumTo(q, r, k) = (SumTo(q, r, k - 1) + r[q[k]]) % Modulus
    BY SumSteps
  <1>4. Runs(q, r2, n, g)
    <2>1. \A k \in 1 .. n : k \in 0 .. n /\ k - 1 \in 0 .. n
      OBVIOUS
    <2>2. 0 \in 0 .. n
      OBVIOUS
    <2> QED
      BY <1>1, <1>2, <1>3, <2>1, <2>2 DEF Runs
  <1>5. \A k \in 0 .. n : SumTo(q, r2, k) = g[k]
    BY <1>4, SumIs
  <1>6. \A k \in 0 .. n : SumTo(q, r2, k) = SumTo(q, r, k)
    BY <1>2, <1>5
  <1>7. NoWrap(q, r) => NoWrap(q, r2)
    <2>1. \A k \in 1 .. n : k - 1 \in 0 .. n
      OBVIOUS
    <2> QED
      BY <1>1, <1>6, <2>1 DEF NoWrap
  <1>8. TellsDue(q, r2, DueIn(q, r))
    <2>1. \A k \in 1 .. Len(q) : k \in 0 .. n
      BY <1>1
    <2>2. /\ DueIn(q, r) = [e \in OneshotEvent |-> DueIn(q, r)[e]]
          /\ \A k \in 1 .. Len(q) : DueIn(q, r)[q[k]] = SumTo(q, r, k)
          /\ \A f \in OneshotEvent : ~Contains(q, f) => DueIn(q, r)[f] = Nil
      BY DueInIs DEF Contains
    <2> QED
      BY <1>6, <2>1, <2>2 DEF TellsDue
  <1>9. DueIn(q, r2) = DueIn(q, r)
    BY <1>8, SameDue
  <1> QED
    BY <1>7, <1>9

----------------------------------------------------------------------------
(* Times *)

(* The ticks until each oneshot event is due. *)
Due == DueIn(mOneshotQueue, mRemainingTicks)

NothingDue == \A e \in OneshotEvent : Due[e] # 0

Numbers ==
    /\ mRemainingTicks \in [Event -> 0 .. Modulus - 1]
    /\ mInterval \in [Event -> 0 .. Modulus - 1]

TicksOf(e) == IF e \in OneshotEvent THEN Ticks ELSE Intervals

(* Who has an event from the pool finds in it what it was set to. *)
CallOf(e) ==
    /\ Pooled(e) => mSubscribers[e] = <<>>
    /\ setting[e] # Nil =>
          /\ setting[e] \in [trigger : Trigger, ticks : TicksOf(e)]
          /\ mSubscribers[e] = <<setting[e].trigger>>
          /\ mRemainingTicks[e] = setting[e].ticks
          /\ e \in PeriodicEvent => mInterval[e] = setting[e].ticks

Calls ==
    /\ mSubscribers = [e \in Event |-> mSubscribers[e]]
    /\ \A e \in Event : CallOf(e)

Locks ==
    /\ mOneshotLock <=> pc = "oneshot"
    /\ mPeriodicLock <=> pc = "periodic"

(* Events are due only while handleTick has the lock of their list.        *)
OneshotTimes ==
    /\ NoWrap(mOneshotQueue, mRemainingTicks)
    /\ pc # "oneshot" => NothingDue

(* What holds whatever the clients ask for, and what needs that a oneshot  *)
(* event's time is a tick or more: a shorter one would be counted down     *)
(* from 0.                                                                 *)
Kept == Numbers /\ Calls /\ Locks

Timed == Numbers /\ Calls /\ Locks /\ OneshotTimes

WholeTicks == 0 \notin Ticks

LEMMA TimerSets ==
    /\ OneshotEvent \subseteq Event /\ PeriodicEvent \subseteq Event
    /\ \A e \in OneshotEvent : e \notin PeriodicEvent
    /\ Modulus \in Nat \ {0}
    /\ Ticks \subseteq 0 .. Modulus - 1 /\ Intervals \subseteq 0 .. Modulus - 1
    /\ Nil \notin Nat
  BY TimerAssumption DEF TimerAssumption, Event

(* What the list of oneshot events holds. *)
LEMMA OneshotList ==
    ASSUME TInv, Numbers
    PROVE  /\ mOneshotQueue \in Seq(OneshotEvent) /\ IsInjective(mOneshotQueue)
           /\ Len(mOneshotQueue) \in Nat
           /\ \A k \in 1 .. Len(mOneshotQueue) :
                 /\ mOneshotQueue[k] \in OneshotEvent
                 /\ mRemainingTicks[mOneshotQueue[k]] \in 0 .. Modulus - 1
                 /\ mRemainingTicks[mOneshotQueue[k]] \in Nat
           /\ \A e : Contains(mOneshotQueue, e) => e \in OneshotEvent
           /\ \A e \in Event : Contains(mOneshotQueue, e) => ~Pooled(e) /\ setting[e] = Nil
  <1>1. /\ mOneshotQueue \in Seq(OneshotEvent) /\ IsInjective(mOneshotQueue)
        /\ OneUser
    BY DEF TInv, Lists
  <1>2. Len(mOneshotQueue) \in Nat
    BY <1>1, LenProperties
  <1>3. \A k \in 1 .. Len(mOneshotQueue) : mOneshotQueue[k] \in OneshotEvent
    BY <1>1, ElementOfSeq
  <1>4. \A k \in 1 .. Len(mOneshotQueue) :
            /\ mRemainingTicks[mOneshotQueue[k]] \in 0 .. Modulus - 1
            /\ mRemainingTicks[mOneshotQueue[k]] \in Nat
    BY <1>3, TimerSets DEF Numbers
  <1>5. \A e : Contains(mOneshotQueue, e) => e \in OneshotEvent
    BY <1>3 DEF Contains
  <1>6. \A e \in Event : Contains(mOneshotQueue, e) => ~Pooled(e) /\ setting[e] = Nil
    BY <1>1 DEF OneUser, Listed
  <1> QED
    BY <1>1, <1>2, <1>3, <1>4, <1>5, <1>6

LEMMA OneshotSums ==
    ASSUME TInv, Numbers, OneshotTimes
    PROVE  /\ \A k \in 0 .. Len(mOneshotQueue) :
                 SumTo(mOneshotQueue, mRemainingTicks, k) \in 0 .. Modulus - 1
           /\ SumTo(mOneshotQueue, mRemainingTicks, 0) = 0
           /\ \A k \in 1 .. Len(mOneshotQueue) :
                 /\ SumTo(mOneshotQueue, mRemainingTicks, k) # Nil
                 /\ Due[mOneshotQueue[k]] = SumTo(mOneshotQueue, mRemainingTicks, k)
           /\ \A e \in OneshotEvent : Due[e] # Nil <=> Contains(mOneshotQueue, e)
  <1> DEFINE T(k) == SumTo(mOneshotQueue, mRemainingTicks, k)
             len == Len(mOneshotQueue)
  <1>1. /\ T(0) = 0 /\ \A k \in 0 .. len : T(k) \in 0 .. Modulus - 1
    BY OneshotList, ExactSums DEF OneshotTimes
  <1>2. /\ \A k \in 1 .. len : Due[mOneshotQueue[k]] = T(k)
        /\ \A e \in OneshotEvent : \/ ~Contains(mOneshotQueue, e) /\ Due[e] = Nil
                                   \/ \E k \in 1 .. len : mOneshotQueue[k] = e
    BY OneshotList, DueInIs DEF Due
  <1> HIDE DEF T
  <1>3. len \in Nat
    BY OneshotList
  <1> HIDE DEF len
  <1>4. \A k \in 1 .. len : T(k) # Nil
    <2> TAKE k \in 1 .. len
    <2>1. k \in 0 .. len
      BY <1>3
    <2>2. T(k) \in Nat
      BY <1>1, <2>1, TimerSets
    <2> QED
      BY <2>2, TimerSets
  <1>5. \A e \in OneshotEvent : Due[e] # Nil <=> Contains(mOneshotQueue, e)
    BY <1>2, <1>4 DEF Contains, len
  <1> QED
    BY <1>1, <1>2, <1>4, <1>5 DEF T, len

----------------------------------------------------------------------------
(* What each step does to the times of the oneshot events. *)

(* The position for a new event is the one at which the sums stay sorted.  *)
LEMMA InsertPositionSums ==
    ASSUME Len(mOneshotQueue) \in Nat, NEW n, NEW i, i = InsertPosition(n),
           SumTo(mOneshotQueue, mRemainingTicks, 0) <= n
    PROVE  /\ i \in 1 .. Len(mOneshotQueue) + 1
           /\ i <= Len(mOneshotQueue) => n < SumTo(mOneshotQueue, mRemainingTicks, i)
           /\ i = 1 => SumTo(mOneshotQueue, mRemainingTicks, i - 1) <= n
           /\ i # 1 => ~(n < SumTo(mOneshotQueue, mRemainingTicks, i - 1))
  <1> DEFINE len == Len(mOneshotQueue)
             Stops == {k \in 1 .. len + 1 : k <= len => Later(n, SumDelay(k))}
             First(k) == /\ k <= Len(mOneshotQueue) => Later(n, SumDelay(k))
                         /\ \A j \in 1 .. k - 1 : ~Later(n, SumDelay(j))
  <1>1. len + 1 \in Stops /\ Stops \in SUBSET Nat
    OBVIOUS
  <1>2. PICK k \in Stops : \A j \in Stops : k <= j
    BY <1>1, LeastNumber
  <1>3. k \in 1 .. len + 1 /\ First(k)
    BY <1>2
  <1>4. i \in 1 .. len + 1 /\ First(i)
    <2>1. i = CHOOSE k1 \in 1 .. len + 1 : First(k1)
      BY DEF InsertPosition
    <2>2. \E k1 \in 1 .. len + 1 : First(k1)
      BY <1>3
    <2> HIDE DEF First, len
    <2> QED
      BY <2>1, <2>2
  <1>5. i <= Len(mOneshotQueue) => n < SumTo(mOneshotQueue, mRemainingTicks, i)
    BY <1>4, DelayIsSum DEF Later
  <1>6. ASSUME i # 1
        PROVE  ~(n < SumTo(mOneshotQueue, mRemainingTicks, i - 1))
    <2>1. i - 1 \in 1 .. i - 1
      BY <1>4, <1>6
    <2>2. ~Later(n, SumDelay(i - 1))
      BY <1>4, <2>1
    <2> QED
      BY <2>2, DelayIsSum DEF Later
  <1>7. i = 1 => i - 1 = 0
    OBVIOUS
  <1> QED
    BY <1>4, <1>5, <1>6, <1>7

LEMMA SetOneshotTimes ==
    ASSUME TInv, Timed, WholeTicks, NEW e \in OneshotEvent, SetOneshotEvent(e)
    PROVE  /\ mRemainingTicks' \in [Event -> 0 .. Modulus - 1]
           /\ \A f \in Event : f # e /\ ~Contains(mOneshotQueue, f) =>
                  mRemainingTicks'[f] = mRemainingTicks[f]
           /\ NoWrap(mOneshotQueue', mRemainingTicks')
           /\ Due' = [Due EXCEPT ![e] = setting[e].ticks]
           /\ setting[e].ticks # 0
  <1> DEFINE q == mOneshotQueue
             r == mRemainingTicks
             r2 == mRemainingTicks'
             T(k) == SumTo(q, r, k)
  <1>1. /\ q \in Seq(OneshotEvent) /\ IsInjective(q) /\ Len(q) \in Nat
        /\ \A k \in 1 .. Len(q) : /\ q[k] \in OneshotEvent
                                  /\ r[q[k]] \in 0 .. Modulus - 1 /\ r[q[k]] \in Nat
        /\ NoWrap(q, r)
    BY OneshotList DEF Timed, OneshotTimes
  <1>2. \A k \in 0 .. Len(q) : T(k) \in 0 .. Modulus - 1
    BY OneshotSums DEF Timed
  <1>3. T(0) = 0
    BY OneshotSums DEF Timed
  <1>4. PICK n \in 0 .. Modulus - 1 : n = r[e]
    BY TimerSets DEF Timed, Numbers
  <1>5. setting[e].ticks = n /\ n # 0
    BY <1>4, TimerSets DEF SetOneshotEvent, Timed, Calls, CallOf, TicksOf, WholeTicks
  <1>6. PICK i : i = InsertPosition(n)
    OBVIOUS
  <1>7. /\ SetDelta(e, i) /\ mOneshotQueue' = InsertAt(q, i, e)
        /\ setting[e] # Nil
    BY <1>4, <1>6 DEF SetOneshotEvent
  <1>8. ~Contains(q, e) /\ \A k \in 1 .. Len(q) : q[k] # e
    BY <1>7, TimerSets DEF TInv, OneUser, Listed, Contains
  <1> HIDE DEF q, r, r2, T
  <1>9. n \in Nat /\ Modulus \in Nat
    BY TimerSets
  <1>10. /\ i \in 1 .. Len(q) + 1
         /\ i <= Len(q) => n < T(i)
         /\ i = 1 => T(i - 1) <= n
         /\ i # 1 => ~(n < T(i - 1))
    <2>1. T(0) <= n
      BY <1>3, <1>9
    <2> QED
      BY <1>1, <1>6, <2>1, InsertPositionSums DEF q, r, T
  <1>11. T(i - 1) <= n /\ T(i - 1) \in 0 .. Modulus - 1
    <2>1. i - 1 \in 0 .. Len(q)
      BY <1>1, <1>10
    <2>2. T(i - 1) \in 0 .. Modulus - 1
      BY <1>2, <2>1
    <2> QED
      BY <1>9, <1>10, <2>2
  <1>12. PICK own \in 0 .. Modulus - 1 : own = (n - T(i - 1)) % Modulus
    <2>1. n - T(i - 1) \in Int
      BY <1>9, <1>11
    <2> QED
      BY <2>1, ModRange
  <1> DEFINE next == IF i <= Len(q) THEN {q[i]} ELSE {}
  <1>13. r2 = [f \in Event |-> CASE f = e -> own
                                 [] f \in next -> (r[f] - own) % Modulus
                                 [] OTHER -> r[f]]
    <2>1. own = (r[e] - SumDelay(i - 1)) % Modulus
      BY <1>4, <1>12, DelayIsSum DEF q, r, T
    <2> QED
      BY <1>7, <2>1 DEF SetDelta, q, r, r2
  <1>14. e \notin next /\ next \subseteq {f \in Event : Contains(q, f)}
    BY <1>1, <1>8, <1>10, TimerSets DEF Contains
  <1>15. \A f \in Event : r[f] \in 0 .. Modulus - 1
    BY DEF Timed, Numbers, r
  <1>16. \A f \in Event : (r[f] - own) % Modulus \in 0 .. Modulus - 1
    <2> TAKE f \in Event
    <2>1. r[f] - own \in Int
      BY <1>9, <1>15
    <2> QED
      BY <2>1, ModRange
  <1>17. r2 \in [Event -> 0 .. Modulus - 1]
    BY <1>13, <1>15, <1>16
  <1>18. \A f \in Event : f # e /\ f \notin next => r2[f] = r[f]
    BY <1>13
  <1>19. r2[e] = own
    BY <1>13, <1>14, TimerSets
  <1>20. i <= Len(q) => r2[q[i]] = (r[q[i]] - own) % Modulus
    <2> SUFFICES ASSUME i <= Len(q)
                 PROVE  r2[q[i]] = (r[q[i]] - own) % Modulus
      OBVIOUS
    <2>1. q[i] \in next
      OBVIOUS
    <2> QED
      BY <1>13, <1>14, <2>1
  <1>21. \A k \in 1 .. Len(q) : k # i => r2[q[k]] = r[q[k]]
    <2> TAKE k \in 1 .. Len(q)
    <2>1. k # i /\ i <= Len(q) => q[k] # q[i]
      <3>1. DOMAIN q = 1 .. Len(q)
        BY <1>1, LenProperties
      <3> QED
        BY <1>1, <1>10, <3>1 DEF IsInjective
    <2> QED
      BY <1>1, <1>8, <1>18, <2>1, TimerSets
  <1> HIDE DEF next
  <1>22. Fits(q, i, e, r, r2, n)
    BY <1>1, <1>10, <1>11, <1>12, <1>19, <1>20, <1>21 DEF Fits, T
  <1>23. /\ NoWrap(InsertAt(q, i, e), r2)
         /\ DueIn(InsertAt(q, i, e), r2) = [DueIn(q, r) EXCEPT ![e] = n]
    <2>1. NoWrap(InsertAt(q, i, e), r2) /\ SumInserted(q, i, e, r, r2, n)
      BY <1>1, <1>10, <1>22, InsertKeepsSums
    <2> QED
      BY <1>1, <1>8, <1>10, <2>1, DueInserted
  <1>24. \A f \in Event : f # e /\ ~Contains(q, f) => r2[f] = r[f]
    BY <1>14, <1>18
  <1> QED
    BY <1>5, <1>7, <1>17, <1>23, <1>24 DEF q, r, r2, Due

LEMMA CancelOneshotTimes ==
    ASSUME TInv, Timed, NEW e \in OneshotEvent, CancelOneshotTimerEvent(e)
    PROVE  /\ mRemainingTicks' \in [Event -> 0 .. Modulus - 1]
           /\ \A f \in Event : ~Contains(mOneshotQueue, f) =>
                  mRemainingTicks'[f] = mRemainingTicks[f]
           /\ NoWrap(mOneshotQueue', mRemainingTicks')
           /\ Due' = [Due EXCEPT ![e] = Nil]
  <1> DEFINE q == mOneshotQueue
             r == mRemainingTicks
             r2 == mRemainingTicks'
  <1>1. /\ q \in Seq(OneshotEvent) /\ IsInjective(q) /\ Len(q) \in Nat
        /\ \A k \in 1 .. Len(q) : /\ q[k] \in OneshotEvent
                                  /\ r[q[k]] \in 0 .. Modulus - 1 /\ r[q[k]] \in Nat
        /\ NoWrap(q, r)
    BY OneshotList DEF Timed, OneshotTimes
  <1>2. r \in [Event -> 0 .. Modulus - 1]
    BY DEF Timed, Numbers
  <1>3. /\ Contains(q, e) /\ KeepDelta(e) /\ mOneshotQueue' = Without(q, e)
    BY DEF CancelOneshotTimerEvent
  <1>4. PICK i \in 1 .. Len(q) : q[i] = e
    BY <1>3 DEF Contains
  <1>5. Place(q, e) = i
    BY <1>1, <1>4, PlaceIs
  <1>6. Without(q, e) = RemoveAt(q, i)
    <2>1. DOMAIN q = 1 .. Len(q)
      BY <1>1, LenProperties
    <2>2. \A k \in DOMAIN q : q[k] = e => k = i
      BY <1>1, <1>4, <2>1 DEF IsInjective
    <2>3. i = CHOOSE k \in DOMAIN q : q[k] = e
      BY <1>4, <2>1, <2>2
    <2> HIDE DEF q
    <2> QED
      BY <2>3 DEF Without
  <1>7. r2 = IF i = Len(q) THEN r
             ELSE [r EXCEPT ![q[i + 1]] = (r[q[i + 1]] + r[e]) % Modulus]
    BY <1>3, <1>5 DEF KeepDelta, Place
  <1>8. ASSUME NEW j, NEW k, j \in 1 .. Len(q), k \in 1 .. Len(q), j # k
        PROVE  q[j] # q[k]
    <2>1. DOMAIN q = 1 .. Len(q)
      BY <1>1, LenProperties
    <2> QED
      BY <1>1, <1>8, <2>1 DEF IsInjective
  <1> HIDE DEF q, r, r2
  <1>9. CASE i = Len(q)
    <2>1. r2 = r /\ ~(i < Len(q))
      BY <1>1, <1>7, <1>9
    <2>2. Inherits(q, i, r, r2)
      BY <2>1 DEF Inherits
    <2> QED
      <3>1. NoWrap(RemoveAt(q, i), r2) /\ SumRemoved(q, i, r, r2)
        BY <1>1, <2>2, RemoveKeepsSums
      <3>2. DueIn(RemoveAt(q, i), r2) = [DueIn(q, r) EXCEPT ![q[i]] = Nil]
        BY <1>1, <3>1, DueRemoved
      <3> QED
        BY <1>2, <1>3, <1>4, <1>6, <2>1, <3>1, <3>2 DEF Due, q, r, r2
  <1>10. CASE i # Len(q)
    <2>1. i + 1 \in 1 .. Len(q) /\ i < Len(q)
      BY <1>1, <1>10
    <2>2. PICK f \in OneshotEvent : f = q[i + 1]
      BY <1>1, <2>1
    <2>3. PICK n : n = (r[f] + r[e]) % Modulus
      OBVIOUS
    <2>4. n \in 0 .. Modulus - 1
      <3>1. r[f] \in Int /\ r[e] \in Int
        BY <1>1, <1>4, <2>1, <2>2
      <3>2. r[f] + r[e] \in Int
        BY <3>1
      <3> QED
        BY <2>3, <3>2, ModRange
    <2>5. r2 = [r EXCEPT ![f] = n] /\ f \in Event
      BY <1>7, <1>10, <2>2, <2>3, TimerSets
    <2>6. /\ r2 \in [Event -> 0 .. Modulus - 1] /\ r2[f] = n
          /\ \A g \in Event : g # f => r2[g] = r[g]
      BY <1>2, <2>4, <2>5
    <2>7. \A k \in 1 .. Len(q) : k # i + 1 => q[k] \in Event /\ q[k] # f
      BY <1>1, <1>8, <2>1, <2>2, TimerSets
    <2>8. Inherits(q, i, r, r2)
      BY <1>4, <2>2, <2>3, <2>6, <2>7 DEF Inherits
    <2>9. NoWrap(RemoveAt(q, i), r2) /\ SumRemoved(q, i, r, r2)
      BY <1>1, <2>8, RemoveKeepsSums
    <2>10. DueIn(RemoveAt(q, i), r2) = [DueIn(q, r) EXCEPT ![q[i]] = Nil]
      BY <1>1, <2>9, DueRemoved
    <2>11. Contains(q, f)
      BY <2>1, <2>2 DEF Contains
    <2> QED
      BY <1>3, <1>4, <1>6, <2>6, <2>9, <2>10, <2>11 DEF Due, q, r, r2
  <1> QED
    BY <1>9, <1>10

LEMMA FireOneshotTimes ==
    ASSUME TInv, Timed, FireOneshot
    PROVE  /\ Head(mOneshotQueue) \in OneshotEvent
           /\ NoWrap(mOneshotQueue', mRemainingTicks')
           /\ Due[Head(mOneshotQueue)] = 0
           /\ Due' = [Due EXCEPT ![Head(mOneshotQueue)] = Nil]
  <1> DEFINE q == mOneshotQueue
             r == mRemainingTicks
  <1>1. /\ q \in Seq(OneshotEvent) /\ IsInjective(q) /\ Len(q) \in Nat
        /\ \A k \in 1 .. Len(q) : r[q[k]] \in Nat /\ q[k] \in OneshotEvent
        /\ NoWrap(q, r)
    BY OneshotList DEF Timed, OneshotTimes
  <1>2. q # <<>> /\ r[Head(q)] = 0 /\ mOneshotQueue' = Tail(q) /\ mRemainingTicks' = r
    BY DEF FireOneshot, RunDown
  <1>3. 1 \in 1 .. Len(q) /\ Head(q) = q[1]
    BY <1>1, <1>2, EmptySeq, HeadTailProperties
  <1>4. Due[q[1]] = SumTo(q, r, 1)
    BY <1>3, OneshotSums DEF Timed
  <1>5. SumTo(q, r, 1) = SumTo(q, r, 1 - 1) + r[q[1]] /\ SumTo(q, r, 0) = 0
    BY <1>1, <1>3, ExactSums
  <1> HIDE DEF q, r
  <1>6. Due[Head(q)] = 0
    BY <1>2, <1>3, <1>4, <1>5
  <1>7. NoWrap(Tail(q), r) /\ \A k \in 0 .. Len(q) - 1 : SumTo(Tail(q), r, k) = SumTo(q, r, k + 1)
    BY <1>1, <1>2, TailKeepsSums
  <1>8. DueIn(Tail(q), r) = [DueIn(q, r) EXCEPT ![Head(q)] = Nil]
    BY <1>1, <1>2, <1>7, DueFired
  <1>9. Head(q) \in OneshotEvent
    BY <1>1, <1>3
  <1> QED
    BY <1>2, <1>6, <1>7, <1>8, <1>9 DEF q, r, Due

LEMMA StartTickTimes ==
    ASSUME TInv, Timed, StartTick
    PROVE  /\ mRemainingTicks' \in [Event -> 0 .. Modulus - 1]
           /\ \A f \in Event : ~Contains(mOneshotQueue, f) =>
                  mRemainingTicks'[f] = mRemainingTicks[f]
           /\ NoWrap(mOneshotQueue', mRemainingTicks')
           /\ NothingDue
           /\ Due' = [e \in OneshotEvent |-> IF Due[e] # Nil THEN Due[e] - 1 ELSE Nil]
  <1> DEFINE q == mOneshotQueue
             r == mRemainingTicks
             r2 == mRemainingTicks'
  <1>1. /\ q \in Seq(OneshotEvent) /\ IsInjective(q) /\ Len(q) \in Nat
        /\ \A k \in 1 .. Len(q) : /\ q[k] \in OneshotEvent
                                  /\ r[q[k]] \in 0 .. Modulus - 1 /\ r[q[k]] \in Nat
        /\ NoWrap(q, r)
    BY OneshotList DEF Timed, OneshotTimes
  <1>2. r \in [Event -> 0 .. Modulus - 1]
    BY DEF Timed, Numbers
  <1>3. /\ mOneshotQueue' = q
        /\ r2 = IF q = <<>> THEN r ELSE [r EXCEPT ![Head(q)] = (r[Head(q)] - 1) % Modulus]
    BY DEF StartTick
  <1>4. NothingDue
    BY DEF Timed, OneshotTimes, StartTick
  <1>5. \A k \in 1 .. Len(q) : Due[q[k]] = SumTo(q, r, k) /\ SumTo(q, r, k) # Nil
    BY OneshotSums DEF Timed
  <1>6. ASSUME NEW j, NEW k, j \in 1 .. Len(q), k \in 1 .. Len(q), j # k
        PROVE  q[j] # q[k]
    <2>1. DOMAIN q = 1 .. Len(q)
      BY <1>1, LenProperties
    <2> QED
      BY <1>1, <1>6, <2>1 DEF IsInjective
  <1> HIDE DEF q, r, r2
  <1>7. CASE q = <<>>
    <2>1. r2 = r /\ \A k \in 1 .. Len(q) : FALSE
      BY <1>3, <1>7
    <2>2. DueIn(q, r2) = [e \in OneshotEvent |->
              IF DueIn(q, r)[e] # Nil THEN DueIn(q, r)[e] - 1 ELSE Nil]
      BY <1>1, <2>1, DueNearer
    <2> QED
      BY <1>1, <1>2, <1>3, <1>4, <2>1, <2>2 DEF Due, q, r, r2
  <1>8. CASE q # <<>>
    <2>1. Len(q) > 0 /\ 1 \in 1 .. Len(q) /\ Head(q) = q[1]
      BY <1>1, <1>8, EmptySeq, HeadTailProperties
    <2>2. PICK h \in OneshotEvent : h = q[1]
      BY <1>1, <2>1
    <2>3. r[h] \in 0 .. Modulus - 1 /\ r[h] \in Nat
      BY <1>1, <2>1, <2>2
    <2>4. r[h] > 0
      <3>1. SumTo(q, r, 1) # 0
        BY <1>1, <1>4, <1>5, <2>1 DEF NothingDue
      <3>2. SumTo(q, r, 1) = SumTo(q, r, 1 - 1) + r[q[1]] /\ SumTo(q, r, 0) = 0
        BY <1>1, <2>1, ExactSums
      <3> QED
        BY <2>2, <2>3, <3>1, <3>2
    <2>5. PICK n : n = (r[h] - 1) % Modulus
      OBVIOUS
    <2>6. n \in 0 .. Modulus - 1
      <3>1. r[h] - 1 \in Int
        BY <2>3
      <3> QED
        BY <2>5, <3>1, ModRange
    <2>7. r2 = [r EXCEPT ![h] = n] /\ h \in Event
      BY <1>3, <1>8, <2>1, <2>2, <2>5, TimerSets
    <2>8. /\ r2 \in [Event -> 0 .. Modulus - 1] /\ r2[h] = n
          /\ \A g \in Event : g # h => r2[g] = r[g]
      BY <1>2, <2>6, <2>7
    <2>9. \A k \in 2 .. Len(q) : r2[q[k]] = r[q[k]]
      <3> TAKE k \in 2 .. Len(q)
      <3>1. k \in 1 .. Len(q) /\ k # 1
        BY <1>1
      <3>2. q[k] # h /\ q[k] \in Event
        BY <1>1, <1>6, <2>1, <2>2, <3>1, TimerSets
      <3> QED
        BY <2>8, <3>2
    <2>10. PICK len \in Nat : len = Len(q) /\ len > 0
      BY <1>1, <2>1
    <2>11. /\ NoWrap(q, r2)
           /\ \A k \in 1 .. len : SumTo(q, r2, k) = SumTo(q, r, k) - 1
      <3>1. /\ \A k \in 1 .. len : r[q[k]] \in Nat
            /\ r[q[1]] > 0 /\ r2[q[1]] = (r[q[1]] - 1) % Modulus
            /\ \A k \in 2 .. len : r2[q[k]] = r[q[k]]
        BY <1>1, <2>2, <2>4, <2>5, <2>8, <2>9, <2>10
      <3> QED
        BY <1>1, <2>10, <3>1, TickLowersSums
    <2>12. DueIn(q, r2) = [e \in OneshotEvent |->
               IF DueIn(q, r)[e] # Nil THEN DueIn(q, r)[e] - 1 ELSE Nil]
      BY <1>1, <1>5, <2>10, <2>11, DueNearer
    <2>13. Contains(q, h)
      BY <2>1, <2>2 DEF Contains
    <2> QED
      BY <1>3, <1>4, <2>8, <2>11, <2>12, <2>13 DEF Due, q, r, r2
  <1> QED
    BY <1>7, <1>8

(* handleTick gives the lock back when no event is due any more. *)
LEMMA EndOneshotTimes ==
    ASSUME TInv, Timed, EndOneshot
    PROVE  NothingDue
  <1> DEFINE q == mOneshotQueue
             r == mRemainingTicks
  <1>1. /\ q \in Seq(OneshotEvent) /\ IsInjective(q) /\ Len(q) \in Nat
        /\ \A k \in 1 .. Len(q) : r[q[k]] \in Nat /\ NoWrap(q, r)
    BY OneshotList DEF Timed, OneshotTimes
  <1>2. /\ \A k \in 1 .. Len(q) : Due[q[k]] = SumTo(q, r, k)
        /\ \A e \in OneshotEvent : Due[e] # Nil <=> Contains(q, e)
    BY OneshotSums DEF Timed
  <1>3. q # <<>> => r[Head(q)] # 0
    BY DEF EndOneshot, RunDown
  <1> HIDE DEF q, r
  <1>4. ASSUME NEW e \in OneshotEvent
        PROVE  Due[e] # 0
    <2>1. CASE ~Contains(q, e)
      BY <1>2, <2>1, TimerSets
    <2>2. ASSUME NEW k \in 1 .. Len(q), q[k] = e
          PROVE  Due[e] # 0
      <3>1. PICK n \in Nat : n = Len(q) /\ n > 0
        BY <1>1
      <3>2. q # <<>> /\ 1 \in 1 .. n /\ Head(q) = q[1]
        BY <1>1, <3>1, EmptySeq, HeadTailProperties
      <3>3. NoWrap(q, r) /\ \A j \in 1 .. n : r[q[j]] \in Nat
        BY <1>1, <3>1
      <3>4. r[q[1]] > 0
        BY <1>3, <3>2, <3>3
      <3>5. \A j \in 1 .. n : SumTo(q, r, j) > 0
        BY <3>1, <3>3, <3>4, NoneDueBeforeFirst
      <3> QED
        BY <1>2, <2>2, <3>1, <3>5
    <2> QED
      BY <2>1, <2>2 DEF Contains
  <1> QED
    BY <1>4 DEF NothingDue

(* Whatever the sums are, only the events of the list and the new one are  *)
(* changed, and to numbers that fit.                                       *)
LEMMA SetOneshotKeeps ==
    ASSUME TInv, Numbers, NEW e \in OneshotEvent, SetOneshotEvent(e)
    PROVE  /\ mRemainingTicks' \in [Event -> 0 .. Modulus - 1]
           /\ \A f \in Event : f # e /\ ~Contains(mOneshotQueue, f) =>
                  mRemainingTicks'[f] = mRemainingTicks[f]
  <1>1. PICK i : i = InsertPosition(mRemainingTicks[e])
    OBVIOUS
  <1>2. i \in 1 .. Len(mOneshotQueue) + 1 /\ Len(mOneshotQueue) \in Nat
    BY <1>1, OneshotList, InsertPositionInList
  <1>3. PICK sum \in Int : sum = SumDelay(i - 1)
    <2>1. \A k \in 0 .. Len(mOneshotQueue) :
              SumTo(mOneshotQueue, mRemainingTicks, k) \in 0 .. Modulus - 1
      BY <1>2, OneshotList, SumRange
    <2>2. i - 1 \in 0 .. Len(mOneshotQueue)
      BY <1>2
    <2> QED
      BY <2>1, <2>2, DelayIsSum
  <1>4. \A f \in Event : mRemainingTicks[f] \in Int
    BY TimerSets DEF Numbers
  <1>5. PICK own : own = (mRemainingTicks[e] - sum) % Modulus
    OBVIOUS
  <1>6. own \in 0 .. Modulus - 1 /\ own \in Int
    <2>1. mRemainingTicks[e] - sum \in Int
      BY <1>4, TimerSets
    <2> QED
      BY <1>5, <2>1, ModRange
  <1>7. \A f \in Event : (mRemainingTicks[f] - own) % Modulus \in 0 .. Modulus - 1
    <2> TAKE f \in Event
    <2>1. mRemainingTicks[f] - own \in Int
      BY <1>4, <1>6
    <2> QED
      BY <2>1, ModRange
  <1> DEFINE next == IF i <= Len(mOneshotQueue) THEN {mOneshotQueue[i]} ELSE {}
  <1>8. \A f \in next : Contains(mOneshotQueue, f)
    BY <1>2 DEF Contains
  <1>9. mRemainingTicks' = [f \in Event |->
            CASE f = e -> own
              [] f \in next -> (mRemainingTicks[f] - own) % Modulus
              [] OTHER -> mRemainingTicks[f]]
    BY <1>1, <1>3, <1>5 DEF SetOneshotEvent, SetDelta
  <1> HIDE DEF next
  <1>10. \A f \in Event : mRemainingTicks[f] \in 0 .. Modulus - 1
    BY DEF Numbers
  <1> QED
    BY <1>6, <1>7, <1>8, <1>9, <1>10

LEMMA CancelOneshotKeeps ==
    ASSUME TInv, Numbers, NEW e \in OneshotEvent, CancelOneshotTimerEvent(e)
    PROVE  /\ mRemainingTicks' \in [Event -> 0 .. Modulus - 1]
           /\ \A f \in Event : ~Contains(mOneshotQueue, f) =>
                  mRemainingTicks'[f] = mRemainingTicks[f]
  <1>1. PICK i \in 1 .. Len(mOneshotQueue) : mOneshotQueue[i] = e
    BY DEF CancelOneshotTimerEvent, Contains
  <1>2. /\ mOneshotQueue \in Seq(OneshotEvent) /\ IsInjective(mOneshotQueue)
        /\ Len(mOneshotQueue) \in Nat
    BY OneshotList
  <1>3. Place(mOneshotQueue, e) = i
    BY <1>1, <1>2, PlaceIs
  <1>4. mRemainingTicks' =
            IF i = Len(mOneshotQueue) THEN mRemainingTicks
            ELSE [mRemainingTicks EXCEPT ![mOneshotQueue[i + 1]] =
                     (@ + mRemainingTicks[e]) % Modulus]
    BY <1>3 DEF CancelOneshotTimerEvent, KeepDelta, Place
  <1>5. CASE i = Len(mOneshotQueue)
    BY <1>4, <1>5 DEF Numbers
  <1>6. CASE i # Len(mOneshotQueue)
    <2>1. i + 1 \in 1 .. Len(mOneshotQueue)
      BY <1>2, <1>6
    <2>2. PICK f \in OneshotEvent : f = mOneshotQueue[i + 1]
      BY <2>1, OneshotList
    <2>3. f \in Event /\ e \in Event /\ Contains(mOneshotQueue, f)
      BY <2>1, <2>2, TimerSets DEF Contains
    <2>4. PICK n : n = (mRemainingTicks[f] + mRemainingTicks[e]) % Modulus
      OBVIOUS
    <2>5. n \in 0 .. Modulus - 1
      <3>1. mRemainingTicks[f] + mRemainingTicks[e] \in Int
        BY <2>3, TimerSets DEF Numbers
      <3> QED
        BY <2>4, <3>1, ModRange
    <2>6. mRemainingTicks' = [mRemainingTicks EXCEPT ![f] = n]
      BY <1>4, <1>6, <2>2, <2>3, <2>4 DEF Numbers
    <2> QED
      BY <2>3, <2>5, <2>6 DEF Numbers
  <1> QED
    BY <1>5, <1>6

LEMMA StartTickKeeps ==
    ASSUME TInv, Numbers, StartTick
    PROVE  /\ mRemainingTicks' \in [Event -> 0 .. Modulus - 1]
           /\ \A f \in Event : ~Contains(mOneshotQueue, f) =>
                  mRemainingTicks'[f] = mRemainingTicks[f]
  <1>1. mRemainingTicks' =
            IF mOneshotQueue = <<>> THEN mRemainingTicks
            ELSE [mRemainingTicks EXCEPT ![Head(mOneshotQueue)] = (@ - 1) % Modulus]
    BY DEF StartTick
  <1>2. CASE mOneshotQueue = <<>>
    BY <1>1, <1>2 DEF Numbers
  <1>3. CASE mOneshotQueue # <<>>
    <2>1. 1 \in 1 .. Len(mOneshotQueue) /\ Head(mOneshotQueue) = mOneshotQueue[1]
      BY <1>3, OneshotList, EmptySeq, HeadTailProperties
    <2>2. PICK h \in OneshotEvent : h = mOneshotQueue[1]
      BY <2>1, OneshotList
    <2>3. h \in Event /\ Contains(mOneshotQueue, h)
      BY <2>1, <2>2, TimerSets DEF Contains
    <2>4. PICK n : n = (mRemainingTicks[h] - 1) % Modulus
      OBVIOUS
    <2>5. n \in 0 .. Modulus - 1
      <3>1. mRemainingTicks[h] - 1 \in Int
        BY <2>3, TimerSets DEF Numbers
      <3> QED
        BY <2>4, <3>1, ModRange
    <2>6. mRemainingTicks' = [mRemainingTicks EXCEPT ![h] = n]
      BY <1>1, <1>3, <2>1, <2>2, <2>3, <2>4 DEF Numbers
    <2> QED
      BY <2>3, <2>5, <2>6 DEF Numbers
  <1> QED
    BY <1>2, <1>3

(* What leaves the list and its numbers alone leaves the times alone.      *)
LEMMA OtherTimes ==
    ASSUME TInv, Timed, mOneshotQueue' = mOneshotQueue,
           \A f \in OneshotEvent : Contains(mOneshotQueue, f) =>
               mRemainingTicks'[f] = mRemainingTicks[f]
    PROVE  NoWrap(mOneshotQueue', mRemainingTicks') /\ Due' = Due
  <1> DEFINE q == mOneshotQueue
             r == mRemainingTicks
             r2 == mRemainingTicks'
  <1>1. /\ q \in Seq(OneshotEvent) /\ IsInjective(q) /\ NoWrap(q, r)
        /\ \A k \in 1 .. Len(q) : q[k] \in OneshotEvent
    BY OneshotList DEF Timed, OneshotTimes
  <1>2. \A k \in 1 .. Len(q) : r2[q[k]] = r[q[k]]
    BY <1>1 DEF Contains
  <1>3. mOneshotQueue' = q
    OBVIOUS
  <1> HIDE DEF q, r, r2
  <1>4. NoWrap(q, r2) /\ DueIn(q, r2) = DueIn(q, r)
    BY <1>1, <1>2, OthersKeepSums
  <1> QED
    BY <1>3, <1>4 DEF q, r, r2, Due

----------------------------------------------------------------------------
(* The times stay correct in every step. *)
LEMMA KeptInductive ==
    ASSUME TInv, pos \in Nat \ {0}, Kept, [Next]_vars
    PROVE  Kept'
  <1> USE DEF vars, listVars, poolVars, lockVars
  <1>t. /\ Types /\ Lists /\ OneUser
        /\ Numbers /\ Calls /\ Locks
    BY DEF TInv, Kept
  <1>o. \A f : Contains(mOneshotQueue, f) => f \in OneshotEvent
    BY <1>t, OneshotList
  <1>p. \A f : Contains(mPeriodicQueue, f) => f \in PeriodicEvent
    BY <1>t, ElementOfSeq DEF Contains, Lists
  <1>l. Locks'
    BY <1>t DEF Locks, Next, HandleTick, StartTick, FireOneshot, EndOneshot, StartPeriodic,
       CountPeriodic, EndTick, GetOneshotEvent, GetPeriodicEvent, SetOneshotEvent,
       SetPeriodicEvent, CancelOneshotTimerEvent, CancelPeriodicTimerEvent, FinishTask
  <1>s. \A f \in Event : setting[f] # Nil =>
            ~Pooled(f) /\ ~Contains(mOneshotQueue, f) /\ ~Contains(mPeriodicQueue, f)
    BY <1>t DEF OneUser, Listed
  (* the four ways in which the owner of an event changes *)
  <1>c. ASSUME UNCHANGED <<mOneshotPool, mPeriodicPool, mSubscribers, setting, mInterval>>,
               \A f \in Event : setting[f] # Nil => mRemainingTicks'[f] = mRemainingTicks[f]
        PROVE  Calls'
    <2>1. \A f \in Event : Pooled(f)' <=> Pooled(f)
      BY <1>c DEF Pooled
    <2> QED
      BY <1>t, <1>c, <2>1 DEF Calls, CallOf
  <1>r. ASSUME NEW e \in Event, mSubscribers' = [mSubscribers EXCEPT ![e] = <<>>],
               UNCHANGED <<setting, mInterval>>, setting[e] = Nil,
               \A f \in Event : Pooled(f)' => Pooled(f) \/ f = e,
               \A f \in Event : setting[f] # Nil => mRemainingTicks'[f] = mRemainingTicks[f]
        PROVE  Calls'
    <2>1. /\ mSubscribers' = [f \in Event |-> mSubscribers'[f]]
          /\ mSubscribers'[e] = <<>>
          /\ \A f \in Event \ {e} : mSubscribers'[f] = mSubscribers[f]
      BY <1>t, <1>r DEF Calls, CallOf
    <2>2. ASSUME NEW f \in Event \ {e}
          PROVE  CallOf(f)'
      <3>1. CallOf(f)
        BY <1>t DEF Calls
      <3>2. /\ setting'[f] = setting[f] /\ mSubscribers'[f] = mSubscribers[f]
            /\ mInterval'[f] = mInterval[f]
            /\ setting[f] # Nil => mRemainingTicks'[f] = mRemainingTicks[f]
            /\ Pooled(f)' => Pooled(f)
        BY <1>r, <2>1
      <3> QED
        BY <3>1, <3>2 DEF CallOf
    <2> QED
      BY <1>r, <2>1, <2>2 DEF Calls, CallOf
  <1>g. ASSUME NEW e \in Event, NEW t \in Trigger, NEW n \in TicksOf(e), Pooled(e), ~Pooled(e)',
               mSubscribers' = [mSubscribers EXCEPT ![e] = Append(@, t)],
               setting' = [setting EXCEPT ![e] = [trigger |-> t, ticks |-> n]],
               \A f \in Event : Pooled(f)' => Pooled(f),
               mRemainingTicks' = [mRemainingTicks EXCEPT ![e] = n],
               \A f \in Event \ {e} : mInterval'[f] = mInterval[f],
               e \in PeriodicEvent => mInterval'[e] = n
        PROVE  Calls'
    <2>1. /\ mSubscribers' = [f \in Event |-> mSubscribers'[f]]
          /\ mSubscribers'[e] = Append(mSubscribers[e], t)
          /\ \A f \in Event \ {e} : mSubscribers'[f] = mSubscribers[f]
      BY <1>t, <1>g DEF Calls, CallOf
    <2>2. mSubscribers'[e] = <<t>>
      <3>1. mSubscribers[e] = <<>>
        BY <1>t, <1>g DEF Calls, CallOf
      <3>2. Append(<<>>, t) = <<t>>
        OBVIOUS
      <3> QED
        BY <2>1, <3>1, <3>2
    <2>3. /\ setting'[e] = [trigger |-> t, ticks |-> n]
          /\ \A f \in Event \ {e} : setting'[f] = setting[f]
      BY <1>t, <1>g DEF Types
    <2>4. /\ mRemainingTicks'[e] = n
          /\ \A f \in Event \ {e} : mRemainingTicks'[f] = mRemainingTicks[f]
      BY <1>t, <1>g DEF Numbers
    <2>5. ASSUME NEW f \in Event \ {e}
          PROVE  CallOf(f)'
      <3>1. CallOf(f)
        BY <1>t DEF Calls
      <3>2. /\ setting'[f] = setting[f] /\ mSubscribers'[f] = mSubscribers[f]
            /\ mRemainingTicks'[f] = mRemainingTicks[f] /\ mInterval'[f] = mInterval[f]
            /\ Pooled(f)' => Pooled(f)
        BY <1>g, <2>1, <2>3, <2>4
      <3> QED
        BY <3>1, <3>2 DEF CallOf
    <2>6. /\ setting'[e] \in [trigger : Trigger, ticks : TicksOf(e)]
          /\ mSubscribers'[e] = <<setting'[e].trigger>>
          /\ mRemainingTicks'[e] = setting'[e].ticks
          /\ e \in PeriodicEvent => mInterval'[e] = setting'[e].ticks
      BY <1>g, <2>2, <2>3, <2>4
    <2> QED
      BY <1>g, <2>1, <2>5, <2>6 DEF Calls, CallOf
  <1>e. ASSUME NEW e \in Event, setting' = [setting EXCEPT ![e] = Nil],
               UNCHANGED <<mOneshotPool, mPeriodicPool, mSubscribers, mInterval>>,
               \A f \in Event \ {e} : setting[f] # Nil => mRemainingTicks'[f] = mRemainingTicks[f]
        PROVE  Calls'
    <2>1. setting'[e] = Nil /\ \A f \in Event \ {e} : setting'[f] = setting[f]
      BY <1>t, <1>e DEF Types
    <2>2. \A f \in Event : Pooled(f)' <=> Pooled(f)
      BY <1>e DEF Pooled
    <2> QED
      BY <1>t, <1>e, <2>1, <2>2 DEF Calls, CallOf
  <1>1. CASE UNCHANGED vars
    <2>1. Calls' BY <1>1, <1>c
    <2> QED BY <1>1, <1>l, <1>t, <2>1 DEF Kept, Numbers
  <1>2. CASE EndOneshot \/ StartPeriodic \/ EndTick \/ FireOneshot
    <2>0. UNCHANGED <<mRemainingTicks, mInterval, mSubscribers, setting,
                      mOneshotPool, mPeriodicPool>>
      BY <1>2 DEF EndOneshot, StartPeriodic, EndTick, FireOneshot
    <2>1. Calls' BY <2>0, <1>c
    <2> QED BY <2>0, <1>l, <1>t, <2>1 DEF Kept, Numbers
  <1>3. CASE StartTick
    <2>0. UNCHANGED <<mInterval, poolVars>>
      BY <1>3 DEF StartTick
    <2>1. /\ mRemainingTicks' \in [Event -> 0 .. Modulus - 1]
          /\ \A f \in Event : ~Contains(mOneshotQueue, f) =>
                  mRemainingTicks'[f] = mRemainingTicks[f]
      BY <1>3, <1>t, StartTickKeeps
    <2>2. Calls' BY <2>0, <2>1, <1>c, <1>s
    <2> QED BY <1>l, <1>t, <2>0, <2>1, <2>2 DEF Kept, Numbers
  <1>4. CASE CountPeriodic
    <2>0. /\ UNCHANGED <<mOneshotQueue, mPeriodicQueue, mInterval, poolVars, pc>>
          /\ pos <= Len(mPeriodicQueue)
      BY <1>4 DEF CountPeriodic
    <2>1. PICK e : e = mPeriodicQueue[pos]
      OBVIOUS
    <2>2. PICK left : left = (mRemainingTicks[e] - 1) % Modulus
      OBVIOUS
    <2>3. PICK n : n = IF left = 0 THEN mInterval[e] ELSE left
      OBVIOUS
    <2>4. mRemainingTicks' = [mRemainingTicks EXCEPT ![e] = n]
      BY <1>4, <2>1, <2>2, <2>3 DEF CountPeriodic, Reload
    <2>5. CASE e \in PeriodicEvent /\ Contains(mPeriodicQueue, e)
      <3>1. e \in Event /\ e \notin OneshotEvent /\ setting[e] = Nil
        BY <2>5, <1>s, TimerSets
      <3>2. n \in 0 .. Modulus - 1
        <4>1. mRemainingTicks[e] - 1 \in Int
          BY <1>t, <3>1, TimerSets DEF Numbers
        <4>2. left \in 0 .. Modulus - 1
          BY <2>2, <4>1, ModRange
        <4>3. mInterval[e] \in 0 .. Modulus - 1
          BY <1>t, <3>1 DEF Numbers
        <4> QED
          BY <2>3, <4>2, <4>3
      <3>3. /\ mRemainingTicks' \in [Event -> 0 .. Modulus - 1]
            /\ mRemainingTicks'[e] = n
            /\ \A f \in Event \ {e} : mRemainingTicks'[f] = mRemainingTicks[f]
        BY <1>t, <2>4, <3>1, <3>2 DEF Numbers
      <3>4. Calls' BY <2>0, <3>1, <3>3, <1>c
      <3> QED BY <1>l, <1>t, <2>0, <3>3, <3>4 DEF Kept, Numbers
    <2> QED
      <3>1. pos \in 1 .. Len(mPeriodicQueue)
        BY <1>t, <2>0, LenProperties DEF Lists
      <3>2. Contains(mPeriodicQueue, e)
        BY <2>1, <3>1 DEF Contains
      <3> QED
        BY <1>p, <2>5, <3>2
  <1>5. ASSUME NEW e \in OneshotEvent, NEW t \in Trigger, NEW n \in Ticks,
               GetOneshotEvent(e, t, n)
        PROVE  Kept'
    <2>1. /\ e \in mOneshotPool /\ mOneshotPool' = mOneshotPool \ {e}
          /\ mSubscribers' = [mSubscribers EXCEPT ![e] = Append(@, t)]
          /\ mRemainingTicks' = [mRemainingTicks EXCEPT ![e] = n]
          /\ setting' = [setting EXCEPT ![e] = [trigger |-> t, ticks |-> n]]
          /\ UNCHANGED <<mOneshotQueue, mPeriodicQueue, mInterval, mPeriodicPool, pc>>
      BY <1>5 DEF GetOneshotEvent, getOneshotEventFromPool
    <2>2. e \in Event /\ e \notin PeriodicEvent /\ n \in 0 .. Modulus - 1
      BY TimerSets
    <2>3. /\ Pooled(e) /\ ~Pooled(e)' /\ \A f \in Event : Pooled(f)' => Pooled(f)
      BY <1>t, <2>1, <2>2 DEF Pooled, Types
    <2>5. /\ mRemainingTicks' \in [Event -> 0 .. Modulus - 1]
          /\ \A f \in Event \ {e} : mRemainingTicks'[f] = mRemainingTicks[f]
      BY <1>t, <2>1, <2>2 DEF Numbers
    <2>6. Calls' BY <1>g, <2>1, <2>2, <2>3 DEF TicksOf
    <2> QED BY <1>l, <1>t, <2>1, <2>5, <2>6 DEF Kept, Numbers
  <1>6. ASSUME NEW e \in PeriodicEvent, NEW t \in Trigger, NEW n \in Intervals,
               GetPeriodicEvent(e, t, n)
        PROVE  Kept'
    <2>1. /\ e \in mPeriodicPool /\ mPeriodicPool' = mPeriodicPool \ {e}
          /\ mSubscribers' = [mSubscribers EXCEPT ![e] = Append(@, t)]
          /\ mInterval' = [mInterval EXCEPT ![e] = n]
          /\ mRemainingTicks' = [mRemainingTicks EXCEPT ![e] = n]
          /\ setting' = [setting EXCEPT ![e] = [trigger |-> t, ticks |-> n]]
          /\ UNCHANGED <<mOneshotQueue, mPeriodicQueue, mOneshotPool, pc>>
      BY <1>6 DEF GetPeriodicEvent, getPeriodicEventFromPool
    <2>2. e \in Event /\ e \notin OneshotEvent /\ n \in 0 .. Modulus - 1
      BY TimerSets
    <2>3. /\ Pooled(e) /\ ~Pooled(e)' /\ \A f \in Event : Pooled(f)' => Pooled(f)
      BY <1>t, <2>1, <2>2 DEF Pooled, Types
    <2>5. /\ mRemainingTicks' \in [Event -> 0 .. Modulus - 1]
          /\ mInterval' \in [Event -> 0 .. Modulus - 1] /\ mInterval'[e] = n
          /\ \A f \in Event \ {e} : /\ mRemainingTicks'[f] = mRemainingTicks[f]
                                     /\ mInterval'[f] = mInterval[f]
      BY <1>t, <2>1, <2>2 DEF Numbers
    <2>6. Calls' BY <1>g, <2>1, <2>2, <2>3, <2>5 DEF TicksOf
    <2> QED BY <1>l, <2>5, <2>6 DEF Kept, Numbers
  <1>7. ASSUME NEW e \in OneshotEvent, SetOneshotEvent(e)
        PROVE  Kept'
    <2>1. /\ setting' = [setting EXCEPT ![e] = Nil]
          /\ UNCHANGED <<mPeriodicQueue, mInterval, mOneshotPool, mPeriodicPool, mSubscribers, pc>>
      BY <1>7 DEF SetOneshotEvent
    <2>2. /\ mRemainingTicks' \in [Event -> 0 .. Modulus - 1]
          /\ \A f \in Event : f # e /\ ~Contains(mOneshotQueue, f) =>
                  mRemainingTicks'[f] = mRemainingTicks[f]
      BY <1>t, <1>7, SetOneshotKeeps
    <2>3. Calls' BY <1>e, <1>s, <2>1, <2>2, TimerSets
    <2> QED BY <1>l, <1>t, <2>1, <2>2, <2>3 DEF Kept, Numbers
  <1>8. ASSUME NEW e \in PeriodicEvent, SetPeriodicEvent(e)
         PROVE  Kept'
    <2>1. /\ setting' = [setting EXCEPT ![e] = Nil] /\ setting[e] # Nil
          /\ mPeriodicQueue' = Append(mPeriodicQueue, e)
          /\ UNCHANGED <<mOneshotQueue, mRemainingTicks, mInterval, mOneshotPool, mPeriodicPool,
                         mSubscribers, pc>>
      BY <1>8 DEF SetPeriodicEvent
    <2>2. e \in Event BY TimerSets
    <2>5. Calls' BY <1>e, <2>1, <2>2
    <2> QED BY <1>l, <1>t, <2>1, <2>5 DEF Kept, Numbers
  <1>9. ASSUME NEW e \in OneshotEvent, CancelOneshotTimerEvent(e)
         PROVE  Kept'
    <2>1. /\ Contains(mOneshotQueue, e)
          /\ mSubscribers' = [mSubscribers EXCEPT ![e] = <<>>]
          /\ mOneshotPool' = mOneshotPool \cup {e}
          /\ UNCHANGED <<mPeriodicQueue, mInterval, mPeriodicPool, setting, pc>>
      BY <1>9 DEF CancelOneshotTimerEvent, ReturnOneshot
    <2>2. /\ mRemainingTicks' \in [Event -> 0 .. Modulus - 1]
          /\ \A f \in Event : ~Contains(mOneshotQueue, f) =>
                  mRemainingTicks'[f] = mRemainingTicks[f]
      BY <1>t, <1>9, CancelOneshotKeeps
    <2>3. e \in Event BY TimerSets
    <2>4. setting[e] = Nil BY <1>s, <2>1, <2>3
    <2>5. \A f \in Event : Pooled(f)' => Pooled(f) \/ f = e
      BY <2>1 DEF Pooled
    <2>6. Calls' BY <1>r, <1>s, <2>1, <2>2, <2>3, <2>4, <2>5
    <2> QED BY <1>l, <1>t, <2>1, <2>2, <2>6 DEF Kept, Numbers
  <1>10. ASSUME NEW e \in PeriodicEvent, CancelPeriodicTimerEvent(e)
         PROVE  Kept'
    <2>1. /\ Contains(mPeriodicQueue, e) /\ mPeriodicQueue' = Without(mPeriodicQueue, e)
          /\ mSubscribers' = [mSubscribers EXCEPT ![e] = <<>>]
          /\ mPeriodicPool' = mPeriodicPool \cup {e}
          /\ UNCHANGED <<mOneshotQueue, mRemainingTicks, mInterval, mOneshotPool, setting, pc>>
      BY <1>10 DEF CancelPeriodicTimerEvent, ReturnPeriodic
    <2>2. e \in Event BY TimerSets
    <2>3. setting[e] = Nil BY <1>s, <2>1, <2>2
    <2>4. \A f \in Event : Pooled(f)' => Pooled(f) \/ f = e
      BY <2>1 DEF Pooled
    <2>6. Calls' BY <1>r, <2>1, <2>2, <2>3, <2>4
    <2> QED BY <1>l, <1>t, <2>1, <2>6 DEF Kept, Numbers
  <1>11. ASSUME NEW e \in Event, NEW t \in Trigger, FinishTask(e, t)
         PROVE  Kept'
    <2>1. /\ UNCHANGED <<listVars, mPeriodicPool, setting, pc>> /\ tasks[e][t] > 0
          /\ e \in OneshotEvent => /\ mOneshotPool' = mOneshotPool \cup {e}
                                   /\ mSubscribers' = [mSubscribers EXCEPT ![e] = <<>>]
          /\ e \notin OneshotEvent => UNCHANGED <<mOneshotPool, mSubscribers>>
      BY <1>11 DEF FinishTask, ReturnOneshot
    <2>2. Calls'
      <3>1. CASE e \in OneshotEvent
        <4>1. setting[e] = Nil BY <1>t, <2>1, <3>1 DEF OneUser
        <4>2. \A f \in Event : Pooled(f)' => Pooled(f) \/ f = e
          BY <2>1, <3>1 DEF Pooled
        <4> QED BY <1>r, <2>1, <3>1, <4>1, <4>2
      <3>2. CASE e \notin OneshotEvent
        BY <1>c, <2>1, <3>2
      <3> QED BY <3>1, <3>2
    <2> QED BY <1>l, <1>t, <2>1, <2>2 DEF Kept, Numbers
  <1> QED
    BY <1>1, <1>2, <1>3, <1>4, <1>5, <1>6, <1>7, <1>8, <1>9, <1>10, <1>11
    DEF Next, HandleTick

LEMMA TimedInductive ==
    ASSUME TInv, pos \in Nat \ {0}, Timed, WholeTicks, [Next]_vars
    PROVE  Timed'
  <1> USE DEF vars, listVars, poolVars, lockVars
  <1>t. /\ Types /\ Lists /\ OneUser
        /\ Numbers /\ Calls /\ Locks /\ OneshotTimes
    BY DEF TInv, Timed
  <1>k. Kept'
    BY <1>t, KeptInductive DEF Kept
  <1>p. \A f : Contains(mPeriodicQueue, f) => f \in PeriodicEvent
    BY <1>t, ElementOfSeq DEF Contains, Lists
  <1>d. ASSUME mOneshotQueue' = mOneshotQueue, pc = pc' \/ pc # "oneshot" \/ NothingDue,
               \A f \in OneshotEvent : Contains(mOneshotQueue, f) =>
                   mRemainingTicks'[f] = mRemainingTicks[f]
        PROVE  OneshotTimes'
    <2>1. NoWrap(mOneshotQueue', mRemainingTicks') /\ Due' = Due
      BY <1>d, OtherTimes
    <2>2. NothingDue' <=> NothingDue
      BY <2>1 DEF NothingDue
    <2> QED
      BY <1>d, <1>t, <2>1, <2>2 DEF OneshotTimes
  <1>u. ASSUME UNCHANGED <<mOneshotQueue, mRemainingTicks>>,
               pc = pc' \/ pc # "oneshot" \/ NothingDue
        PROVE  OneshotTimes'
    BY <1>d, <1>u
  <1> SUFFICES OneshotTimes'
    BY <1>k DEF Kept, Timed
  <1>1. CASE \/ UNCHANGED vars \/ StartPeriodic \/ EndTick
             \/ \E e \in PeriodicEvent : SetPeriodicEvent(e) \/ CancelPeriodicTimerEvent(e)
             \/ \E e \in Event, t \in Trigger : FinishTask(e, t)
    <2>1. /\ UNCHANGED <<mOneshotQueue, mRemainingTicks>>
          /\ pc = pc' \/ pc # "oneshot"
      BY <1>1 DEF StartPeriodic, EndTick, SetPeriodicEvent, CancelPeriodicTimerEvent, FinishTask
    <2> QED BY <2>1, <1>u
  <1>2. CASE EndOneshot
    <2>1. UNCHANGED <<mOneshotQueue, mRemainingTicks>> /\ NothingDue
      BY <1>2, EndOneshotTimes DEF EndOneshot
    <2> QED BY <2>1, <1>u
  <1>3. CASE StartTick
    <2>1. pc' = "oneshot" /\ NoWrap(mOneshotQueue', mRemainingTicks')
      BY <1>3, StartTickTimes DEF StartTick
    <2> QED BY <2>1 DEF OneshotTimes
  <1>4. CASE FireOneshot
    <2>1. pc' = "oneshot" /\ NoWrap(mOneshotQueue', mRemainingTicks')
      BY <1>4, FireOneshotTimes DEF FireOneshot
    <2> QED BY <2>1 DEF OneshotTimes
  <1>5. CASE CountPeriodic
    <2>1. PICK e : e = mPeriodicQueue[pos]
      OBVIOUS
    <2>2. pos \in 1 .. Len(mPeriodicQueue)
      BY <1>5, <1>t, LenProperties DEF Lists, CountPeriodic
    <2>3. e \in PeriodicEvent
      BY <1>p, <2>1, <2>2 DEF Contains
    <2>4. /\ UNCHANGED <<mOneshotQueue, pc>>
          /\ \E n : mRemainingTicks' = [mRemainingTicks EXCEPT ![e] = n]
      BY <1>5, <2>1 DEF CountPeriodic
    <2>5. \A f \in OneshotEvent : mRemainingTicks'[f] = mRemainingTicks[f]
      BY <1>t, <2>3, <2>4, TimerSets DEF Numbers
    <2> QED BY <1>d, <2>4, <2>5
  <1>6. ASSUME NEW e \in OneshotEvent, NEW t \in Trigger, NEW n \in Ticks,
               GetOneshotEvent(e, t, n)
        PROVE  OneshotTimes'
    <2>1. /\ e \in mOneshotPool
          /\ mRemainingTicks' = [mRemainingTicks EXCEPT ![e] = n]
          /\ UNCHANGED <<mOneshotQueue, pc>>
      BY <1>6 DEF GetOneshotEvent, getOneshotEventFromPool
    <2>2. ~Contains(mOneshotQueue, e)
      BY <1>t, <2>1, TimerSets DEF OneUser, Listed, Pooled
    <2>3. \A f \in Event \ {e} : mRemainingTicks'[f] = mRemainingTicks[f]
      BY <1>t, <2>1 DEF Numbers
    <2> QED BY <1>d, <2>1, <2>2, <2>3, TimerSets
  <1>7. ASSUME NEW e \in PeriodicEvent, NEW t \in Trigger, NEW n \in Intervals,
               GetPeriodicEvent(e, t, n)
        PROVE  OneshotTimes'
    <2>1. /\ mRemainingTicks' = [mRemainingTicks EXCEPT ![e] = n]
          /\ UNCHANGED <<mOneshotQueue, pc>>
      BY <1>7 DEF GetPeriodicEvent
    <2>2. \A f \in OneshotEvent : mRemainingTicks'[f] = mRemainingTicks[f]
      BY <1>t, <2>1, TimerSets DEF Numbers
    <2> QED BY <1>d, <2>1, <2>2
  <1>8. ASSUME NEW e \in OneshotEvent, SetOneshotEvent(e)
        PROVE  OneshotTimes'
    <2>1. /\ NoWrap(mOneshotQueue', mRemainingTicks')
          /\ Due' = [Due EXCEPT ![e] = setting[e].ticks] /\ setting[e].ticks # 0
      BY <1>8, SetOneshotTimes
    <2>2. NothingDue
      BY <1>8, <1>t DEF OneshotTimes, Locks, SetOneshotEvent
    <2>3. Due = [f \in OneshotEvent |-> Due[f]]
      BY <1>t, OneshotList, DueInIs DEF Due
    <2>4. NothingDue'
      BY <2>1, <2>2, <2>3 DEF NothingDue
    <2> QED
      BY <2>1, <2>4 DEF OneshotTimes
  <1>9. ASSUME NEW e \in OneshotEvent, CancelOneshotTimerEvent(e)
        PROVE  OneshotTimes'
    <2>1. NoWrap(mOneshotQueue', mRemainingTicks') /\ Due' = [Due EXCEPT ![e] = Nil]
      BY <1>9, CancelOneshotTimes
    <2>2. NothingDue
      BY <1>9, <1>t DEF OneshotTimes, Locks, CancelOneshotTimerEvent
    <2>3. Due = [f \in OneshotEvent |-> Due[f]]
      BY <1>t, OneshotList, DueInIs DEF Due
    <2>4. NothingDue'
      BY <2>1, <2>2, <2>3, TimerSets DEF NothingDue
    <2> QED
      BY <2>1, <2>4 DEF OneshotTimes
  <1> QED
    BY <1>1, <1>2, <1>3, <1>4, <1>5, <1>6, <1>7, <1>8, <1>9 DEF Next, HandleTick

LEMMA KeptInvariant == Spec => [](TInv /\ Kept)
  <1>1. Init => Kept
    <2> SUFFICES ASSUME Init PROVE Kept
      OBVIOUS
    <2>1. Numbers BY TimerSets DEF Init, Numbers
    <2>2. Calls BY DEF Init, Calls, CallOf
    <2>3. Locks BY DEF Init, Locks
    <2> QED BY <2>1, <2>2, <2>3 DEF Kept
  <1>2. TInv /\ pos \in Nat \ {0} /\ Kept /\ [Next]_vars => Kept'
    BY KeptInductive
  <1> QED
    BY <1>1, <1>2, TimerInvariant, PTL DEF Spec

LEMMA TimedInvariant ==
    ASSUME WholeTicks
    PROVE  Spec => [](TInv /\ Timed)
  <1>1. Init => Timed
    <2> SUFFICES ASSUME Init PROVE Timed
      OBVIOUS
    <2>1. Numbers BY TimerSets DEF Init, Numbers
    <2>2. Calls BY DEF Init, Calls, CallOf
    <2>3. Locks BY DEF Init, Locks
    <2>4. \A f : ~Contains(mOneshotQueue, f) /\ ~Contains(mPeriodicQueue, f)
      BY DEF Init, Contains
    <2>6. NothingDue BY <2>4, TimerSets DEF NothingDue, Due, DueIn
    <2>7. NoWrap(mOneshotQueue, mRemainingTicks) BY DEF Init, NoWrap
    <2> QED BY <2>1, <2>2, <2>3, <2>6, <2>7 DEF Timed, OneshotTimes
  <1>2. TInv /\ pos \in Nat \ {0} /\ Timed /\ [Next]_vars => Timed'
    BY TimedInductive
  <1> QED
    BY <1>1, <1>2, TimerInvariant, PTL DEF Spec

----------------------------------------------------------------------------
(* The periodic events as the abstract service sees them. *)
PRequest ==
    [e \in PeriodicEvent |->
        IF setting[e] = Nil THEN Nil
        ELSE [trigger |-> setting[e].trigger, ticks |-> Wrapped(setting[e].ticks)]]

PClient ==
    [e \in PeriodicEvent |-> IF Contains(mPeriodicQueue, e) THEN Head(mSubscribers[e]) ELSE Nil]

PLeft ==
    [e \in PeriodicEvent |->
        IF ~Contains(mPeriodicQueue, e) THEN Nil
        ELSE IF Counted(e) THEN Wrapped(mRemainingTicks[e])
             ELSE (mRemainingTicks[e] - 1) % Modulus]

PPeriod ==
    [e \in PeriodicEvent |->
        IF Contains(mPeriodicQueue, e) THEN Wrapped(mInterval[e]) ELSE Nil]

LEMMA WrappedIs ==
    ASSUME NEW n \in 0 .. Modulus - 1
    PROVE  /\ Wrapped(n) \in Nat \ {0} /\ Wrapped(n) # Nil
           /\ n # 0 => Wrapped(n) = n
           /\ (n - 1) % Modulus = Wrapped(n) - 1
           /\ (n - 1) % Modulus \in 0 .. Modulus - 1
  <1>1. Wrapped(n) \in Nat \ {0} /\ (n # 0 => Wrapped(n) = n)
    BY TimerSets DEF Wrapped
  <1>2. Wrapped(n) # Nil
    BY <1>1, TimerSets
  <1>3. (n - 1) % Modulus \in 0 .. Modulus - 1
    BY ModRange
  <1>4. CASE n = 0
    <2>1. Modulus - 1 \in 0 .. Modulus - 1
      BY TimerSets
    <2>2. (0 - 1) % Modulus = Modulus - 1
      BY TimerSets
    <2> QED
      BY <1>1, <1>2, <1>3, <1>4, <2>2 DEF Wrapped
  <1>5. CASE n # 0
    <2>1. n - 1 \in 0 .. Modulus - 1
      BY <1>5, TimerSets
    <2> QED
      BY <1>1, <1>2, <1>3, <1>5, <2>1, ModSmall
  <1> QED
    BY <1>4, <1>5

PCalls == [e \in PeriodicEvent |-> tasks[e]]

(* What of these a step has to change to be a step of the service.         *)
LEMMA PeriodicRequests ==
    ASSUME NEW e \in PeriodicEvent, PLeft[e] = Nil, PRequest[e] = Nil,
           PRequest'[e] \in [trigger : DOMAIN PCalls[e], ticks : Nat \ {0}],
           PRequest' = [PRequest EXCEPT ![e] = PRequest'[e]],
           UNCHANGED <<PClient, PLeft, PPeriod, PCalls>>
    PROVE  Periodic!Request(e)
  BY DEF Periodic!Request, Periodic!Armed, PRequest, PClient, PLeft, PPeriod, PCalls

LEMMA PeriodicArms ==
    ASSUME NEW e \in PeriodicEvent, PRequest[e] # Nil,
           PRequest' = [PRequest EXCEPT ![e] = Nil],
           PClient' = [PClient EXCEPT ![e] = PRequest[e].trigger],
           PLeft' = [PLeft EXCEPT ![e] = PRequest[e].ticks],
           PPeriod' = [PPeriod EXCEPT ![e] = PRequest[e].ticks],
           UNCHANGED PCalls
    PROVE  Periodic!Arm(e)
  BY DEF Periodic!Arm, PRequest, PClient, PLeft, PPeriod, PCalls

LEMMA PeriodicCancels ==
    ASSUME NEW e \in PeriodicEvent, PLeft[e] # Nil, PLeft[e] # 0,
           PClient' = [PClient EXCEPT ![e] = Nil],
           PLeft' = [PLeft EXCEPT ![e] = Nil],
           PPeriod' = [PPeriod EXCEPT ![e] = Nil],
           UNCHANGED <<PRequest, PCalls>>
    PROVE  Periodic!Cancel(e)
  BY DEF Periodic!Cancel, Periodic!Armed, Periodic!Due, Periodic!Disarm, PRequest, PClient, PLeft,
     PPeriod, PCalls

LEMMA PeriodicFires ==
    ASSUME NEW e \in PeriodicEvent, PLeft[e] = 0,
           \/ PCalls' = [PCalls EXCEPT ![e][PClient[e]] = @ + 1]
           \/ UNCHANGED PCalls,
           PLeft' = [PLeft EXCEPT ![e] = PPeriod[e]],
           UNCHANGED <<PRequest, PClient, PPeriod>>
    PROVE  Periodic!Fire(e)
  BY DEF Periodic!Fire, Periodic!Due, PRequest, PClient, PLeft, PPeriod, PCalls

LEMMA PeriodicEndsCall ==
    ASSUME NEW e \in PeriodicEvent, NEW t \in DOMAIN PCalls[e], PCalls[e][t] > 0,
           PCalls' = [PCalls EXCEPT ![e][t] = @ - 1],
           UNCHANGED <<PRequest, PClient, PLeft, PPeriod>>
    PROVE  Periodic!EndCall(e)
  BY DEF Periodic!EndCall, PRequest, PClient, PLeft, PPeriod, PCalls

LEMMA PeriodicTick ==
    ASSUME \A e \in PeriodicEvent : PLeft[e] # 0,
           PLeft' = [e \in PeriodicEvent |-> IF PLeft[e] # Nil THEN PLeft[e] - 1 ELSE Nil],
           UNCHANGED <<PRequest, PClient, PPeriod, PCalls>>
    PROVE  Periodic!Tick
  BY DEF Periodic!Tick, Periodic!Armed, Periodic!Due, PRequest, PClient, PLeft, PPeriod, PCalls

LEMMA PeriodicStutter ==
    ASSUME UNCHANGED <<PRequest, PClient, PLeft, PPeriod, PCalls>>
    PROVE  UNCHANGED Periodic!vars
  BY DEF Periodic!vars, PRequest, PClient, PLeft, PPeriod, PCalls

(* A step that leaves the list of periodic events alone. *)
PeriodicFrame(e) ==
    /\ setting'[e] = setting[e] /\ tasks'[e] = tasks[e]
    /\ Contains(mPeriodicQueue, e) =>
          /\ mSubscribers'[e] = mSubscribers[e]
          /\ mRemainingTicks'[e] = mRemainingTicks[e]
          /\ mInterval'[e] = mInterval[e]

LEMMA PeriodicUntouched ==
    ASSUME mPeriodicQueue' = mPeriodicQueue,
           \A e \in PeriodicEvent : PeriodicFrame(e),
           \A e \in PeriodicEvent : Contains(mPeriodicQueue, e) => (Counted(e)' <=> Counted(e))
    PROVE  UNCHANGED Periodic!vars
  <1>1. PRequest' = PRequest BY DEF PRequest, PeriodicFrame
  <1>2. PCalls' = PCalls BY DEF PCalls, PeriodicFrame
  <1>3. PClient' = PClient BY DEF PClient, PeriodicFrame
  <1>4. PPeriod' = PPeriod BY DEF PPeriod, PeriodicFrame
  <1>5. PLeft' = PLeft
    <2>1. ASSUME NEW e \in PeriodicEvent
          PROVE  PLeft'[e] = PLeft[e]
      <3>1. CASE ~Contains(mPeriodicQueue, e)
        BY <3>1 DEF PLeft
      <3>2. CASE Contains(mPeriodicQueue, e) /\ Counted(e)
        BY <3>2 DEF PLeft, PeriodicFrame
      <3>3. CASE Contains(mPeriodicQueue, e) /\ ~Counted(e)
        BY <3>3 DEF PLeft, PeriodicFrame
      <3> QED BY <3>1, <3>2, <3>3
    <2> QED BY <2>1 DEF PLeft
  <1> QED BY <1>1, <1>2, <1>3, <1>4, <1>5, PeriodicStutter

(* Every step of the timer is one of the service for periodic events: the  *)
(* tick begins for all of them when handleTick takes their lock.           *)
LEMMA PeriodicStep ==
    ASSUME TInv, pos \in Nat \ {0}, Kept, Next
    PROVE  [Periodic!Next]_(Periodic!vars)
  <1> USE DEF listVars, poolVars, lockVars
  <1>t. /\ Types /\ Lists /\ OneUser
        /\ Numbers /\ Calls /\ Locks
    BY DEF TInv, Kept
  <1>p. \A f : Contains(mPeriodicQueue, f) => f \in PeriodicEvent
    BY <1>t, ElementOfSeq DEF Contains, Lists
  <1>s. \A f \in PeriodicEvent :
            /\ f \in Event /\ f \notin OneshotEvent /\ ~Contains(mOneshotQueue, f)
            /\ Contains(mPeriodicQueue, f) => ~Pooled(f) /\ setting[f] = Nil
    BY <1>t, OneshotList, TimerSets DEF OneUser, Listed
  <1>n. \A t \in Trigger, n \in Nat : [trigger |-> t, ticks |-> n] # Nil
    BY TimerAssumption DEF TimerAssumption
  <1>1. CASE StartTick \/ EndOneshot
    <2>1. /\ UNCHANGED <<mPeriodicQueue, mInterval, mSubscribers, setting, tasks, pos>>
          /\ pc # "periodic" /\ pc' # "periodic"
      BY <1>1 DEF StartTick, EndOneshot
    <2>2. \A f \in PeriodicEvent : mRemainingTicks'[f] = mRemainingTicks[f]
      BY <1>1, <1>s, <1>t, StartTickKeeps DEF EndOneshot
    <2>3. UNCHANGED Periodic!vars
      BY <2>1, <2>2, PeriodicUntouched DEF PeriodicFrame, Counted
    <2> QED BY <2>3
  <1>2. CASE FireOneshot
    <2>1. /\ UNCHANGED <<mPeriodicQueue, mInterval, mSubscribers, mRemainingTicks, setting, pc, pos>>
          /\ EventTriggered(Head(mOneshotQueue))
      BY <1>2 DEF FireOneshot
    <2>2. PICK h \in OneshotEvent : h = Head(mOneshotQueue)
      <3>1. mOneshotQueue # <<>> BY <1>2 DEF FireOneshot
      <3> QED BY <1>t, <3>1, HeadTailProperties DEF Lists
    <2>3. \A f \in Event \ {h} : tasks'[f] = tasks[f]
      BY <1>t, <2>1, <2>2, TimerSets, Triggered
    <2>4. UNCHANGED Periodic!vars
      BY <1>s, <2>1, <2>3, PeriodicUntouched DEF PeriodicFrame, Counted
    <2> QED BY <2>4
  <1>3. CASE StartPeriodic
    <2>1. /\ UNCHANGED <<mPeriodicQueue, mInterval, mSubscribers, mRemainingTicks, setting, tasks>>
          /\ pc # "periodic" /\ pc' = "periodic" /\ pos' = 1
      BY <1>3 DEF StartPeriodic
    <2>2. \A f \in PeriodicEvent : Counted(f) /\ ~Counted(f)'
      BY <2>1 DEF Counted
    <2>3. UNCHANGED <<PRequest, PClient, PPeriod, PCalls>>
      BY <2>1 DEF PRequest, PClient, PPeriod, PCalls
    <2>4. \A f \in PeriodicEvent : PLeft[f] # 0
      BY <1>s, <1>t, <2>2, TimerSets, WrappedIs DEF PLeft, Numbers
    <2>5. PLeft' = [f \in PeriodicEvent |-> IF PLeft[f] # Nil THEN PLeft[f] - 1 ELSE Nil]
      <3>1. ASSUME NEW f \in PeriodicEvent, Contains(mPeriodicQueue, f)
            PROVE  PLeft[f] # Nil /\ PLeft'[f] = PLeft[f] - 1
        <4>1. mRemainingTicks[f] \in 0 .. Modulus - 1
          BY <1>s, <1>t DEF Numbers
        <4>2. /\ PLeft[f] = Wrapped(mRemainingTicks[f])
              /\ PLeft'[f] = (mRemainingTicks[f] - 1) % Modulus
          BY <2>1, <2>2, <3>1 DEF PLeft
        <4> QED BY <4>1, <4>2, WrappedIs
      <3>2. ASSUME NEW f \in PeriodicEvent, ~Contains(mPeriodicQueue, f)
            PROVE  PLeft[f] = Nil /\ PLeft'[f] = Nil
        BY <2>1, <3>2 DEF PLeft
      <3>3. PLeft' = [f \in PeriodicEvent |-> PLeft'[f]]
        BY DEF PLeft
      <3> QED BY <3>1, <3>2, <3>3
    <2>6. Periodic!Tick BY <2>3, <2>4, <2>5, PeriodicTick
    <2> QED BY <2>6 DEF Periodic!Next
  <1>4. CASE EndTick
    <2>1. /\ UNCHANGED <<mPeriodicQueue, mInterval, mSubscribers, mRemainingTicks, setting, tasks>>
          /\ pc = "periodic" /\ pc' = "idle" /\ pos > Len(mPeriodicQueue)
      BY <1>4 DEF EndTick
    <2>2. \A f \in PeriodicEvent : Contains(mPeriodicQueue, f) => (Counted(f)' <=> Counted(f))
      <3> TAKE f \in PeriodicEvent
      <3> SUFFICES ASSUME Contains(mPeriodicQueue, f) PROVE Counted(f)' /\ Counted(f)
        OBVIOUS
      <3>1. PICK i \in 1 .. Len(mPeriodicQueue) : mPeriodicQueue[i] = f
        BY DEF Contains
      <3>2. i \in 1 .. pos - 1
        BY <1>t, <2>1, LenProperties DEF Lists
      <3> QED BY <2>1, <3>1, <3>2 DEF Counted
    <2>3. UNCHANGED Periodic!vars
      BY <2>1, <2>2, PeriodicUntouched DEF PeriodicFrame
    <2> QED BY <2>3
  <1>5. CASE CountPeriodic
    <2>0. /\ UNCHANGED <<mPeriodicQueue, mInterval, mSubscribers, setting, pc>>
          /\ pc = "periodic" /\ pos \in 1 .. Len(mPeriodicQueue) /\ pos' = pos + 1
      <3>1. /\ UNCHANGED <<mPeriodicQueue, mInterval, mSubscribers, setting, pc>>
            /\ pc = "periodic" /\ pos <= Len(mPeriodicQueue) /\ pos' = pos + 1
        BY <1>5 DEF CountPeriodic
      <3> QED BY <1>t, <3>1, LenProperties DEF Lists
    <2>1. PICK e : e = mPeriodicQueue[pos]
      OBVIOUS
    <2>2. Contains(mPeriodicQueue, e) /\ e \in PeriodicEvent /\ e \in Event
      BY <1>p, <1>s, <2>0, <2>1 DEF Contains
    <2>3. ~Counted(e) /\ Counted(e)' /\ \A f : f # e => (Counted(f)' <=> Counted(f))
      <3>1. ASSUME NEW i \in 1 .. pos - 1 PROVE mPeriodicQueue[i] # e
        <4>1. DOMAIN mPeriodicQueue = 1 .. Len(mPeriodicQueue) /\ Len(mPeriodicQueue) \in Nat
          BY <1>t, LenProperties DEF Lists
        <4>2. i \in DOMAIN mPeriodicQueue /\ pos \in DOMAIN mPeriodicQueue /\ i # pos
          BY <2>0, <4>1
        <4> QED BY <1>t, <2>1, <4>2 DEF Lists, IsInjective
      <3>2. pos \in 1 .. pos' - 1 /\ \A i : i \in 1 .. pos' - 1 <=> i \in 1 .. pos - 1 \/ i = pos
        BY <2>0
      <3>3. ~Counted(e) BY <2>0, <3>1 DEF Counted
      <3>4. Counted(e)' BY <2>0, <2>1, <3>2 DEF Counted
      <3>5. ASSUME NEW f, f # e PROVE Counted(f)' <=> Counted(f)
        BY <2>0, <2>1, <3>2, <3>5 DEF Counted
      <3> QED BY <3>3, <3>4, <3>5
    <2>4. PICK left : left = (mRemainingTicks[e] - 1) % Modulus
      OBVIOUS
    <2>5. /\ mRemainingTicks'[e] = IF left = 0 THEN mInterval[e] ELSE left
          /\ \A f \in Event \ {e} : mRemainingTicks'[f] = mRemainingTicks[f]
          /\ left = 0 => EventTriggered(e)
          /\ left # 0 => tasks' = tasks
      <3>1. /\ mRemainingTicks' =
                  [mRemainingTicks EXCEPT ![e] = IF left = 0 THEN mInterval[e] ELSE left]
            /\ left = 0 => EventTriggered(e)
            /\ left # 0 => tasks' = tasks
        BY <1>5, <2>1, <2>4 DEF CountPeriodic, Reload
      <3> QED BY <1>t, <2>2, <3>1 DEF Numbers
    <2>l. left \in 0 .. Modulus - 1
      BY <1>t, <2>2, <2>4, WrappedIs DEF Numbers
    <2>6. PLeft[e] = left /\ PLeft'[e] = Wrapped(mRemainingTicks'[e])
      BY <2>0, <2>2, <2>3, <2>4 DEF PLeft
    <2>7. \A f \in PeriodicEvent \ {e} : PLeft'[f] = PLeft[f]
      <3> TAKE f \in PeriodicEvent \ {e}
      <3>1. mRemainingTicks'[f] = mRemainingTicks[f] /\ (Counted(f)' <=> Counted(f))
        BY <1>s, <2>3, <2>5
      <3>2. CASE ~Contains(mPeriodicQueue, f) BY <2>0, <3>2 DEF PLeft
      <3>3. CASE Contains(mPeriodicQueue, f) /\ Counted(f) BY <2>0, <3>1, <3>3 DEF PLeft
      <3>4. CASE Contains(mPeriodicQueue, f) /\ ~Counted(f) BY <2>0, <3>1, <3>4 DEF PLeft
      <3> QED BY <3>2, <3>3, <3>4
    <2>8. UNCHANGED <<PRequest, PClient, PPeriod>>
      BY <2>0 DEF PRequest, PClient, PPeriod
    <2>9. CASE left # 0
      <3>1. PLeft' = PLeft
        <4>1. PLeft'[e] = PLeft[e] BY <2>l, <2>5, <2>6, <2>9, WrappedIs
        <4> QED BY <2>7, <4>1 DEF PLeft
      <3>2. PCalls' = PCalls BY <2>5, <2>9 DEF PCalls
      <3> QED BY <2>8, <3>1, <3>2, PeriodicStutter
    <2>10. CASE left = 0
      <3>1. PPeriod[e] = Wrapped(mInterval[e]) /\ PClient[e] = Head(mSubscribers[e])
        BY <2>2 DEF PPeriod, PClient
      <3>2. PLeft' = [PLeft EXCEPT ![e] = PPeriod[e]]
        <4>1. PLeft' = [f \in PeriodicEvent |-> PLeft'[f]] /\ PLeft = [f \in PeriodicEvent |-> PLeft[f]]
          BY DEF PLeft
        <4>2. PLeft'[e] = PPeriod[e]
          BY <2>5, <2>6, <2>10, <3>1
        <4> QED BY <2>2, <2>7, <4>1, <4>2
      <3>3. \/ PCalls' = [PCalls EXCEPT ![e][PClient[e]] = @ + 1]
            \/ UNCHANGED PCalls
        <4>1. CASE tasks' = tasks BY <4>1 DEF PCalls
        <4>2. CASE tasks' = [tasks EXCEPT ![e][PClient[e]] = @ + 1]
          BY <1>t, <1>s, <2>2, <4>2 DEF PCalls, Types
        <4> QED BY <2>5, <2>10, <3>1, <4>1, <4>2 DEF EventTriggered
      <3>4. Periodic!Fire(e)
        BY <2>2, <2>6, <2>8, <2>10, <3>2, <3>3, PeriodicFires
      <3> QED BY <2>2, <3>4 DEF Periodic!Next
    <2> QED BY <2>9, <2>10
  <1>6. ASSUME NEW e \in OneshotEvent, NEW t \in Trigger, NEW n \in Ticks, GetOneshotEvent(e, t, n)
        PROVE  UNCHANGED Periodic!vars
    <2>1. /\ mSubscribers' = [mSubscribers EXCEPT ![e] = Append(@, t)]
          /\ mRemainingTicks' = [mRemainingTicks EXCEPT ![e] = n]
          /\ setting' = [setting EXCEPT ![e] = [trigger |-> t, ticks |-> n]]
          /\ UNCHANGED <<mPeriodicQueue, mInterval, tasks, pc, pos>>
      BY <1>6 DEF GetOneshotEvent
    <2>2. \A f \in PeriodicEvent : PeriodicFrame(f)
      BY <1>s, <1>t, <2>1 DEF PeriodicFrame, Numbers, Calls, Types
    <2> QED BY <2>1, <2>2, PeriodicUntouched DEF Counted
  <1>7. ASSUME NEW e \in OneshotEvent, SetOneshotEvent(e)
        PROVE  UNCHANGED Periodic!vars
    <2>1. /\ setting' = [setting EXCEPT ![e] = Nil]
          /\ UNCHANGED <<mPeriodicQueue, mInterval, mSubscribers, tasks, pc, pos>>
      BY <1>7 DEF SetOneshotEvent
    <2>2. \A f \in PeriodicEvent : mRemainingTicks'[f] = mRemainingTicks[f]
      BY <1>s, <1>t, <1>7, SetOneshotKeeps
    <2>3. \A f \in PeriodicEvent : PeriodicFrame(f)
      BY <1>s, <1>t, <2>1, <2>2 DEF PeriodicFrame, Types
    <2> QED BY <2>1, <2>3, PeriodicUntouched DEF Counted
  <1>8. ASSUME NEW e \in OneshotEvent, CancelOneshotTimerEvent(e)
        PROVE  UNCHANGED Periodic!vars
    <2>1. /\ mSubscribers' = [mSubscribers EXCEPT ![e] = <<>>]
          /\ UNCHANGED <<mPeriodicQueue, mInterval, setting, tasks, pc, pos>>
      BY <1>8 DEF CancelOneshotTimerEvent, ReturnOneshot
    <2>2. \A f \in PeriodicEvent : mRemainingTicks'[f] = mRemainingTicks[f]
      BY <1>s, <1>t, <1>8, CancelOneshotKeeps
    <2>3. \A f \in PeriodicEvent : PeriodicFrame(f)
      BY <1>s, <1>t, <2>1, <2>2 DEF PeriodicFrame, Calls
    <2> QED BY <2>1, <2>3, PeriodicUntouched DEF Counted
  <1>9. ASSUME NEW e \in Event, NEW t \in Trigger, FinishTask(e, t)
        PROVE  [Periodic!Next]_(Periodic!vars)
    <2>1. /\ UNCHANGED <<mPeriodicQueue, mInterval, mRemainingTicks, setting, pc, pos>>
          /\ tasks[e][t] > 0 /\ tasks' = [tasks EXCEPT ![e][t] = @ - 1]
          /\ e \in OneshotEvent => mSubscribers' = [mSubscribers EXCEPT ![e] = <<>>]
          /\ e \notin OneshotEvent => mSubscribers' = mSubscribers
      BY <1>9 DEF FinishTask, ReturnOneshot
    <2>2. CASE e \in OneshotEvent
      <3>1. \A f \in PeriodicEvent : tasks'[f] = tasks[f] /\ mSubscribers'[f] = mSubscribers[f]
        BY <1>s, <1>t, <2>1, <2>2 DEF Types, Calls
      <3>2. \A f \in PeriodicEvent : PeriodicFrame(f)
        BY <2>1, <3>1 DEF PeriodicFrame
      <3> QED BY <2>1, <3>2, PeriodicUntouched DEF Counted
    <2>3. CASE e \notin OneshotEvent
      <3>1. e \in PeriodicEvent BY <2>3 DEF Event
      <3>2. UNCHANGED <<PRequest, PClient, PLeft, PPeriod>>
        BY <2>1, <2>3 DEF PRequest, PClient, PLeft, PPeriod, Counted
      <3>3. /\ PCalls[e][t] > 0 /\ t \in DOMAIN PCalls[e]
            /\ PCalls' = [PCalls EXCEPT ![e][t] = @ - 1]
        BY <1>s, <1>t, <2>1, <3>1 DEF PCalls, Types
      <3>4. Periodic!EndCall(e) BY <3>1, <3>2, <3>3, PeriodicEndsCall
      <3> QED BY <3>1, <3>4 DEF Periodic!Next
    <2> QED BY <2>2, <2>3
  <1>10. ASSUME NEW e \in PeriodicEvent, NEW t \in Trigger, NEW n \in Intervals, GetPeriodicEvent(e, t, n)
         PROVE  Periodic!Request(e)
    <2>1. /\ e \in mPeriodicPool
          /\ mSubscribers' = [mSubscribers EXCEPT ![e] = Append(@, t)]
          /\ mInterval' = [mInterval EXCEPT ![e] = n]
          /\ mRemainingTicks' = [mRemainingTicks EXCEPT ![e] = n]
          /\ setting' = [setting EXCEPT ![e] = [trigger |-> t, ticks |-> n]]
          /\ UNCHANGED <<mPeriodicQueue, tasks, pc, pos>>
      BY <1>10 DEF GetPeriodicEvent, getPeriodicEventFromPool
    <2>2. setting[e] = Nil /\ ~Contains(mPeriodicQueue, e)
      BY <1>s, <1>t, <2>1 DEF Pooled, OneUser, Listed
    <2>3. \A f \in PeriodicEvent \ {e} :
              /\ mSubscribers'[f] = mSubscribers[f] /\ mInterval'[f] = mInterval[f]
              /\ mRemainingTicks'[f] = mRemainingTicks[f]
      BY <1>s, <1>t, <2>1 DEF Numbers, Calls
    <2>4. PClient' = PClient BY <2>1, <2>2, <2>3 DEF PClient
    <2>5. PPeriod' = PPeriod BY <2>1, <2>2, <2>3 DEF PPeriod
    <2>6. PLeft' = PLeft BY <2>1, <2>2, <2>3 DEF PLeft, Counted
    <2>7. PCalls' = PCalls /\ DOMAIN PCalls[e] = Trigger
      BY <1>s, <1>t, <2>1 DEF PCalls, Types
    <2>s. n \in Nat BY TimerSets
    <2>8. Wrapped(n) \in Nat \ {0} BY TimerSets, WrappedIs
    <2>9. setting'[e] = [trigger |-> t, ticks |-> n]
      BY <1>s, <1>t, <2>1 DEF Types
    <2>10. /\ PRequest'[e] = [trigger |-> t, ticks |-> Wrapped(n)]
           /\ PRequest' = [PRequest EXCEPT ![e] = PRequest'[e]]
      <3>1. PRequest'[e] = [trigger |-> t, ticks |-> Wrapped(n)]
        <4>1. setting'[e] # Nil BY <1>n, <2>9, <2>s
        <4> QED BY <2>9, <4>1 DEF PRequest
      <3>2. \A f \in PeriodicEvent \ {e} : setting'[f] = setting[f]
        BY <1>s, <1>t, <2>1 DEF Types
      <3> QED BY <3>1, <3>2 DEF PRequest
    <2>11. PRequest'[e] \in [trigger : DOMAIN PCalls[e], ticks : Nat \ {0}]
      BY <2>7, <2>8, <2>10
    <2>12. PLeft[e] = Nil /\ PRequest[e] = Nil BY <2>2 DEF PLeft, PRequest
    <2> QED BY <2>4, <2>5, <2>6, <2>7, <2>10, <2>11, <2>12, PeriodicRequests
  <1>11. ASSUME NEW e \in PeriodicEvent, SetPeriodicEvent(e)
         PROVE  Periodic!Arm(e)
    <2>1. /\ setting[e] # Nil /\ ~mPeriodicLock
          /\ mPeriodicQueue' = Append(mPeriodicQueue, e)
          /\ setting' = [setting EXCEPT ![e] = Nil]
          /\ UNCHANGED <<mRemainingTicks, mInterval, mSubscribers, tasks, pc>>
      BY <1>11 DEF SetPeriodicEvent
    <2>2. pc # "periodic" /\ \A f : Counted(f) /\ Counted(f)'
      BY <1>t, <2>1 DEF Locks, Counted
    <2>3. \A f : Contains(mPeriodicQueue', f) <=> Contains(mPeriodicQueue, f) \/ f = e
      BY <1>t, <1>s, <2>1, ListAppend DEF Lists
    <2>4. /\ mSubscribers[e] = <<setting[e].trigger>>
          /\ mRemainingTicks[e] = setting[e].ticks /\ mInterval[e] = setting[e].ticks
      BY <1>s, <1>t, <2>1 DEF Calls, CallOf
    <2>5. Head(mSubscribers[e]) = setting[e].trigger
      BY <2>4
    <2>6. /\ PRequest[e] # Nil /\ PRequest[e].trigger = setting[e].trigger
          /\ PRequest[e].ticks = Wrapped(setting[e].ticks)
      <3>1. setting[e].trigger \in Trigger /\ setting[e].ticks \in Intervals
        BY <1>s, <1>t, <2>1 DEF Calls, CallOf, TicksOf
      <3>2. Wrapped(setting[e].ticks) \in Nat
        BY <3>1, TimerSets, WrappedIs
      <3>3. PRequest[e] = [trigger |-> setting[e].trigger, ticks |-> Wrapped(setting[e].ticks)]
        BY <2>1 DEF PRequest
      <3> QED BY <1>n, <3>1, <3>2, <3>3
    <2>7. PRequest' = [PRequest EXCEPT ![e] = Nil]
      <3>1. setting'[e] = Nil /\ \A f \in PeriodicEvent \ {e} : setting'[f] = setting[f]
        BY <1>s, <1>t, <2>1 DEF Types
      <3> QED BY <3>1 DEF PRequest
    <2>8. PClient' = [PClient EXCEPT ![e] = PRequest[e].trigger]
      BY <2>1, <2>3, <2>5, <2>6 DEF PClient
    <2>9. PLeft' = [PLeft EXCEPT ![e] = PRequest[e].ticks]
      BY <2>1, <2>2, <2>3, <2>4, <2>6 DEF PLeft
    <2>10. PPeriod' = [PPeriod EXCEPT ![e] = PRequest[e].ticks]
      BY <2>1, <2>3, <2>4, <2>6 DEF PPeriod
    <2>11. PCalls' = PCalls BY <2>1 DEF PCalls
    <2> QED BY <2>1, <2>6, <2>7, <2>8, <2>9, <2>10, <2>11, PeriodicArms
  <1>12. ASSUME NEW e \in PeriodicEvent, CancelPeriodicTimerEvent(e)
         PROVE  Periodic!Cancel(e)
    <2>1. /\ Contains(mPeriodicQueue, e) /\ ~mPeriodicLock
          /\ mPeriodicQueue' = Without(mPeriodicQueue, e)
          /\ mSubscribers' = [mSubscribers EXCEPT ![e] = <<>>]
          /\ UNCHANGED <<mRemainingTicks, mInterval, setting, tasks, pc>>
      BY <1>12 DEF CancelPeriodicTimerEvent, ReturnPeriodic
    <2>2. pc # "periodic" /\ \A f : Counted(f) /\ Counted(f)'
      BY <1>t, <2>1 DEF Locks, Counted
    <2>3. \A f : Contains(mPeriodicQueue', f) <=> Contains(mPeriodicQueue, f) /\ f # e
      BY <1>t, <2>1, ListWithout DEF Lists
    <2>4. \A f \in PeriodicEvent \ {e} : mSubscribers'[f] = mSubscribers[f]
      BY <1>s, <1>t, <2>1 DEF Calls
    <2>5. PLeft[e] # Nil /\ PLeft[e] # 0
      BY <1>s, <1>t, <2>1, <2>2, WrappedIs DEF PLeft, Numbers
    <2>6. PClient' = [PClient EXCEPT ![e] = Nil]
      BY <2>3, <2>4 DEF PClient
    <2>7. PLeft' = [PLeft EXCEPT ![e] = Nil]
      BY <2>1, <2>2, <2>3 DEF PLeft
    <2>8. PPeriod' = [PPeriod EXCEPT ![e] = Nil]
      BY <2>1, <2>3 DEF PPeriod
    <2>9. UNCHANGED <<PRequest, PCalls>> BY <2>1 DEF PRequest, PCalls
    <2> QED BY <2>5, <2>6, <2>7, <2>8, <2>9, PeriodicCancels
  <1>13. ASSUME NEW e \in PeriodicEvent, NEW t \in Trigger, NEW n \in Intervals, GetPeriodicEvent(e, t, n)
         PROVE  Periodic!Next
    BY <1>10, <1>13 DEF Periodic!Next
  <1>14. ASSUME NEW e \in PeriodicEvent, SetPeriodicEvent(e) \/ CancelPeriodicTimerEvent(e)
         PROVE  Periodic!Next
    BY <1>11, <1>12, <1>14 DEF Periodic!Next
  <1> QED
    BY <1>1, <1>2, <1>3, <1>4, <1>5, <1>6, <1>7, <1>8, <1>9, <1>13, <1>14
    DEF Next, HandleTick

LEMMA PeriodicStart == Init => Periodic!Init
  <1> SUFFICES ASSUME Init PROVE Periodic!Init
    OBVIOUS
  <1>1. \A f : ~Contains(mPeriodicQueue, f) BY DEF Init, Contains
  <1>2. /\ PRequest = [e \in PeriodicEvent |-> Nil]
        /\ PClient = [e \in PeriodicEvent |-> Nil]
        /\ PLeft = [e \in PeriodicEvent |-> Nil]
        /\ PPeriod = [e \in PeriodicEvent |-> Nil]
    BY <1>1, TimerSets DEF Init, PRequest, PClient, PLeft, PPeriod
  <1>3. \A e \in PeriodicEvent : \A t \in DOMAIN PCalls[e] : PCalls[e][t] = 0
    BY TimerSets DEF Init, PCalls
  <1> QED
    BY <1>2, <1>3 DEF Periodic!Init, PRequest, PClient, PLeft, PPeriod, PCalls

(* handleTick fires every periodic event in each mInterval-th tick, whose  *)
(* trigger its client set, while events are set and cancelled around it:   *)
(* the timer implements the service for every interval that a client may   *)
(* ask for.  One below a tick (the CAN talker asks for 1000 us of a tick   *)
(* of 1 s) is 0 ticks, and its event fires in every Modulus-th tick only.  *)
THEOREM PeriodicEventsFire == Spec => FiresPeriodically
  <1>1. TInv /\ pos \in Nat \ {0} /\ Kept /\ [Next]_vars
            => [Periodic!Next]_(Periodic!vars)
    <2>1. ASSUME UNCHANGED vars
          PROVE  UNCHANGED Periodic!vars
      <3>1. UNCHANGED <<PRequest, PClient, PLeft, PPeriod, PCalls>>
        BY <2>1 DEF vars, listVars, poolVars, PRequest, PClient, PLeft, PPeriod, PCalls, Counted
      <3> QED BY <3>1, PeriodicStutter
    <2> QED BY <2>1, PeriodicStep
  <1> QED
    BY <1>1, PeriodicStart, TimerInvariant, KeptInvariant, PTL
    DEF Spec, FiresPeriodically, Periodic!Spec

----------------------------------------------------------------------------
(* The oneshot events as the abstract service sees them. *)
ORequest == [e \in OneshotEvent |-> setting[e]]

OClient ==
    [e \in OneshotEvent |-> IF Contains(mOneshotQueue, e) THEN Head(mSubscribers[e]) ELSE Nil]

OLeft ==
    [e \in OneshotEvent |->
        IF Contains(mOneshotQueue, e)
        THEN SumDelay(SelectInSeq(mOneshotQueue, LAMBDA f : f = e)) ELSE Nil]

OPeriod == [e \in OneshotEvent |-> Nil]

OCalls == [e \in OneshotEvent |-> tasks[e]]

LEMMA OneshotLeft == OLeft = Due
  BY DelayIsSum DEF OLeft, Due, DueIn, Place

LEMMA OneshotLeftNext == OLeft' = Due'
  <1>1. Due' = DueIn(mOneshotQueue', mRemainingTicks')
    BY DEF Due
  <1>2. OLeft' = [e \in OneshotEvent |->
            IF Contains(mOneshotQueue', e)
            THEN SumTo(mOneshotQueue', mRemainingTicks', Place(mOneshotQueue', e)) ELSE Nil]
    <2>1. ASSUME NEW e \in OneshotEvent, Contains(mOneshotQueue', e)
          PROVE  OLeft'[e] = SumTo(mOneshotQueue', mRemainingTicks', Place(mOneshotQueue', e))
      <3>1. OLeft'[e] = SumDelay(Place(mOneshotQueue, e))'
        BY <2>1 DEF OLeft, Place
      <3>2. SumDelay(Place(mOneshotQueue, e))'
                = SumTo(mOneshotQueue', mRemainingTicks', Place(mOneshotQueue', e))
        BY DEF SumDelay, SumTo
      <3> QED BY <3>1, <3>2
    <2>2. ASSUME NEW e \in OneshotEvent, ~Contains(mOneshotQueue', e)
          PROVE  OLeft'[e] = Nil
      BY <2>2 DEF OLeft
    <2> QED BY <2>1, <2>2 DEF OLeft
  <1> QED BY <1>1, <1>2 DEF DueIn

LEMMA OneshotRequests ==
    ASSUME NEW e \in OneshotEvent, OLeft[e] = Nil, ORequest[e] = Nil,
           ORequest'[e] \in [trigger : DOMAIN OCalls[e], ticks : Nat \ {0}],
           ORequest' = [ORequest EXCEPT ![e] = ORequest'[e]],
           UNCHANGED <<OClient, OLeft, OCalls>>
    PROVE  Oneshot!Request(e)
  BY DEF Oneshot!Request, Oneshot!Armed, ORequest, OClient, OLeft, OPeriod, OCalls

LEMMA OneshotArms ==
    ASSUME NEW e \in OneshotEvent, ORequest[e] # Nil,
           ORequest' = [ORequest EXCEPT ![e] = Nil],
           OClient' = [OClient EXCEPT ![e] = ORequest[e].trigger],
           OLeft' = [OLeft EXCEPT ![e] = ORequest[e].ticks],
           UNCHANGED OCalls
    PROVE  Oneshot!Arm(e)
  BY DEF Oneshot!Arm, ORequest, OClient, OLeft, OPeriod, OCalls

LEMMA OneshotCancels ==
    ASSUME NEW e \in OneshotEvent, OLeft[e] # Nil, OLeft[e] # 0,
           OClient' = [OClient EXCEPT ![e] = Nil],
           OLeft' = [OLeft EXCEPT ![e] = Nil],
           UNCHANGED <<ORequest, OCalls>>
    PROVE  Oneshot!Cancel(e)
  BY DEF Oneshot!Cancel, Oneshot!Armed, Oneshot!Due, Oneshot!Disarm, ORequest, OClient, OLeft,
     OPeriod, OCalls

LEMMA OneshotFires ==
    ASSUME NEW e \in OneshotEvent, OLeft[e] = 0,
           \/ OCalls' = [OCalls EXCEPT ![e][OClient[e]] = @ + 1]
           \/ UNCHANGED OCalls,
           OClient' = [OClient EXCEPT ![e] = Nil],
           OLeft' = [OLeft EXCEPT ![e] = Nil],
           UNCHANGED ORequest
    PROVE  Oneshot!Fire(e)
  BY DEF Oneshot!Fire, Oneshot!Due, Oneshot!Disarm, ORequest, OClient, OLeft, OPeriod, OCalls

LEMMA OneshotEndsCall ==
    ASSUME NEW e \in OneshotEvent, NEW t \in DOMAIN OCalls[e], OCalls[e][t] > 0,
           OCalls' = [OCalls EXCEPT ![e][t] = @ - 1],
           UNCHANGED <<ORequest, OClient, OLeft>>
    PROVE  Oneshot!EndCall(e)
  BY DEF Oneshot!EndCall, ORequest, OClient, OLeft, OPeriod, OCalls

LEMMA OneshotTick ==
    ASSUME \A e \in OneshotEvent : OLeft[e] # 0,
           OLeft' = [e \in OneshotEvent |-> IF OLeft[e] # Nil THEN OLeft[e] - 1 ELSE Nil],
           UNCHANGED <<ORequest, OClient, OCalls>>
    PROVE  Oneshot!Tick
  BY DEF Oneshot!Tick, Oneshot!Armed, Oneshot!Due, ORequest, OClient, OLeft, OPeriod, OCalls

LEMMA OneshotStutter ==
    ASSUME UNCHANGED <<ORequest, OClient, OLeft, OCalls>>
    PROVE  UNCHANGED Oneshot!vars
  BY DEF Oneshot!vars, ORequest, OClient, OLeft, OPeriod, OCalls

(* A step that leaves the list of oneshot events alone. *)
OneshotFrame(e) ==
    /\ setting'[e] = setting[e] /\ tasks'[e] = tasks[e]
    /\ Contains(mOneshotQueue, e) =>
          mSubscribers'[e] = mSubscribers[e] /\ mRemainingTicks'[e] = mRemainingTicks[e]

LEMMA OneshotUntouched ==
    ASSUME TInv, Timed, mOneshotQueue' = mOneshotQueue,
           \A e \in OneshotEvent : OneshotFrame(e)
    PROVE  UNCHANGED Oneshot!vars
  <1>1. ORequest' = ORequest BY DEF ORequest, OneshotFrame
  <1>2. OCalls' = OCalls BY DEF OCalls, OneshotFrame
  <1>3. OClient' = OClient BY DEF OClient, OneshotFrame
  <1>4. OLeft' = OLeft
    BY OtherTimes, OneshotLeft, OneshotLeftNext DEF OneshotFrame
  <1> QED BY <1>1, <1>2, <1>3, <1>4, OneshotStutter

(* Every step of the timer is one of the service for oneshot events: the   *)
(* tick is the decrement of the first event of the list.                   *)
LEMMA OneshotStep ==
    ASSUME TInv, pos \in Nat \ {0}, Timed, WholeTicks, Next
    PROVE  [Oneshot!Next]_(Oneshot!vars)
  <1> USE DEF listVars, poolVars, lockVars
  <1>t. /\ Types /\ Lists /\ OneUser
        /\ Numbers /\ Calls /\ Locks /\ OneshotTimes
    BY DEF TInv, Timed
  <1>p. \A f : Contains(mPeriodicQueue, f) => f \in PeriodicEvent
    BY <1>t, ElementOfSeq DEF Contains, Lists
  <1>s. \A f \in OneshotEvent :
            /\ f \in Event /\ f \notin PeriodicEvent
            /\ Contains(mOneshotQueue, f) => ~Pooled(f) /\ setting[f] = Nil
    BY <1>t, OneshotList, TimerSets DEF OneUser, Listed
  <1>d. ~mOneshotLock => NothingDue
    BY <1>t DEF Locks, OneshotTimes
  <1>1. CASE StartTick
    <2>1. UNCHANGED <<mOneshotQueue, mSubscribers, setting, tasks>>
      BY <1>1 DEF StartTick
    <2>2. UNCHANGED <<ORequest, OClient, OCalls>>
      BY <2>1 DEF ORequest, OClient, OCalls
    <2>3. /\ \A e \in OneshotEvent : OLeft[e] # 0
          /\ OLeft' = [e \in OneshotEvent |-> IF OLeft[e] # Nil THEN OLeft[e] - 1 ELSE Nil]
      BY <1>1, StartTickTimes, OneshotLeft, OneshotLeftNext DEF NothingDue
    <2>4. Oneshot!Tick BY <2>2, <2>3, OneshotTick
    <2> QED BY <2>4 DEF Oneshot!Next
  <1>2. CASE FireOneshot
    <2>1. /\ UNCHANGED <<mSubscribers, setting>>
          /\ mOneshotQueue # <<>> /\ mOneshotQueue' = Tail(mOneshotQueue)
          /\ EventTriggered(Head(mOneshotQueue))
      BY <1>2 DEF FireOneshot
    <2>2. PICK h \in OneshotEvent : h = Head(mOneshotQueue)
      BY <1>2, FireOneshotTimes
    <2>3. /\ \A f : Contains(mOneshotQueue', f) <=> Contains(mOneshotQueue, f) /\ f # h
          /\ Contains(mOneshotQueue, h)
      BY <1>t, <2>1, <2>2, ListTail DEF Lists
    <2>4. OLeft[h] = 0 /\ OLeft' = [OLeft EXCEPT ![h] = Nil]
      BY <1>2, <2>2, FireOneshotTimes, OneshotLeft, OneshotLeftNext
    <2>5. OClient' = [OClient EXCEPT ![h] = Nil]
      BY <2>1, <2>3 DEF OClient
    <2>6. OClient[h] = Head(mSubscribers[h])
      BY <2>3 DEF OClient
    <2>7. \/ OCalls' = [OCalls EXCEPT ![h][OClient[h]] = @ + 1]
          \/ UNCHANGED OCalls
      <3>1. CASE tasks' = tasks BY <3>1 DEF OCalls
      <3>2. CASE tasks' = [tasks EXCEPT ![h][OClient[h]] = @ + 1]
        BY <1>t, <1>s, <3>2 DEF OCalls, Types
      <3> QED BY <2>1, <2>2, <2>6, <3>1, <3>2 DEF EventTriggered
    <2>8. ORequest' = ORequest BY <2>1 DEF ORequest
    <2>9. Oneshot!Fire(h) BY <2>4, <2>5, <2>7, <2>8, OneshotFires
    <2> QED BY <2>9 DEF Oneshot!Next
  <1>3. CASE EndOneshot \/ StartPeriodic \/ EndTick
    <2>1. UNCHANGED <<mOneshotQueue, mRemainingTicks, mSubscribers, setting, tasks>>
      BY <1>3 DEF EndOneshot, StartPeriodic, EndTick
    <2>2. UNCHANGED Oneshot!vars BY <2>1, OneshotUntouched DEF OneshotFrame
    <2> QED BY <2>2
  <1>4. CASE CountPeriodic
    <2>1. PICK e : e = mPeriodicQueue[pos]
      OBVIOUS
    <2>2. e \in PeriodicEvent
      <3>1. pos \in 1 .. Len(mPeriodicQueue)
        BY <1>4, <1>t, LenProperties DEF Lists, CountPeriodic
      <3> QED BY <1>t, <2>1, <3>1, ElementOfSeq DEF Lists
    <2>3. /\ UNCHANGED <<mOneshotQueue, mSubscribers, setting>>
          /\ \E n : mRemainingTicks' = [mRemainingTicks EXCEPT ![e] = n]
          /\ tasks' = tasks \/ EventTriggered(e)
      BY <1>4, <2>1 DEF CountPeriodic
    <2>4. \A f \in OneshotEvent : tasks'[f] = tasks[f]
      BY <1>s, <1>t, <2>2, <2>3, Triggered, TimerSets
    <2>5. \A f \in OneshotEvent : mRemainingTicks'[f] = mRemainingTicks[f]
      BY <1>s, <1>t, <2>2, <2>3 DEF Numbers
    <2> QED BY <2>3, <2>4, <2>5, OneshotUntouched DEF OneshotFrame
  <1>5. ASSUME NEW e \in PeriodicEvent, NEW t \in Trigger, NEW n \in Intervals, GetPeriodicEvent(e, t, n)
        PROVE  UNCHANGED Oneshot!vars
    <2>1. /\ mSubscribers' = [mSubscribers EXCEPT ![e] = Append(@, t)]
          /\ mRemainingTicks' = [mRemainingTicks EXCEPT ![e] = n]
          /\ setting' = [setting EXCEPT ![e] = [trigger |-> t, ticks |-> n]]
          /\ UNCHANGED <<mOneshotQueue, tasks>>
      BY <1>5 DEF GetPeriodicEvent
    <2>2. \A f \in OneshotEvent : OneshotFrame(f)
      BY <1>s, <1>t, <2>1 DEF OneshotFrame, Numbers, Calls, Types
    <2> QED BY <2>1, <2>2, OneshotUntouched
  <1>6. ASSUME NEW e \in PeriodicEvent, SetPeriodicEvent(e)
        PROVE  UNCHANGED Oneshot!vars
    <2>1. /\ setting' = [setting EXCEPT ![e] = Nil]
          /\ UNCHANGED <<mOneshotQueue, mSubscribers, mRemainingTicks, tasks>>
      BY <1>6 DEF SetPeriodicEvent
    <2>2. \A f \in OneshotEvent : OneshotFrame(f)
      BY <1>s, <1>t, <2>1 DEF OneshotFrame, Types
    <2> QED BY <2>1, <2>2, OneshotUntouched
  <1>7. ASSUME NEW e \in PeriodicEvent, CancelPeriodicTimerEvent(e)
        PROVE  UNCHANGED Oneshot!vars
    <2>1. /\ mSubscribers' = [mSubscribers EXCEPT ![e] = <<>>]
          /\ UNCHANGED <<mOneshotQueue, mRemainingTicks, setting, tasks>>
      BY <1>7 DEF CancelPeriodicTimerEvent, ReturnPeriodic
    <2>2. \A f \in OneshotEvent : OneshotFrame(f)
      BY <1>s, <1>t, <2>1 DEF OneshotFrame, Calls
    <2> QED BY <2>1, <2>2, OneshotUntouched
  <1>8. ASSUME NEW e \in Event, NEW t \in Trigger, FinishTask(e, t)
        PROVE  [Oneshot!Next]_(Oneshot!vars)
    <2>1. /\ UNCHANGED <<mOneshotQueue, mRemainingTicks, setting>>
          /\ tasks[e][t] > 0 /\ tasks' = [tasks EXCEPT ![e][t] = @ - 1]
          /\ e \in OneshotEvent => mSubscribers' = [mSubscribers EXCEPT ![e] = <<>>]
          /\ e \notin OneshotEvent => mSubscribers' = mSubscribers
      BY <1>8 DEF FinishTask, ReturnOneshot
    <2>2. CASE e \notin OneshotEvent
      <3>1. \A f \in OneshotEvent : tasks'[f] = tasks[f]
        BY <1>s, <1>t, <2>1, <2>2 DEF Types
      <3> QED BY <2>1, <2>2, <3>1, OneshotUntouched DEF OneshotFrame
    <2>3. CASE e \in OneshotEvent
      <3>1. ~Contains(mOneshotQueue, e)
        BY <1>t, <2>1, <2>3 DEF OneUser, Listed
      <3>2. \A f \in OneshotEvent \ {e} : mSubscribers'[f] = mSubscribers[f]
        BY <1>s, <1>t, <2>1, <2>3 DEF Calls
      <3>3. ORequest' = ORequest BY <2>1 DEF ORequest
      <3>4. OClient' = OClient BY <2>1, <3>1, <3>2 DEF OClient
      <3>5. OLeft' = OLeft BY <2>1, OtherTimes, OneshotLeft, OneshotLeftNext
      <3>6. /\ OCalls[e][t] > 0 /\ t \in DOMAIN OCalls[e]
            /\ OCalls' = [OCalls EXCEPT ![e][t] = @ - 1]
        BY <1>s, <1>t, <2>1, <2>3 DEF OCalls, Types
      <3>7. Oneshot!EndCall(e) BY <2>3, <3>3, <3>4, <3>5, <3>6, OneshotEndsCall
      <3> QED BY <2>3, <3>7 DEF Oneshot!Next
    <2> QED BY <2>2, <2>3
  <1>9. ASSUME NEW e \in OneshotEvent, NEW t \in Trigger, NEW n \in Ticks, GetOneshotEvent(e, t, n)
        PROVE  Oneshot!Next
    <2>1. /\ e \in mOneshotPool
          /\ mSubscribers' = [mSubscribers EXCEPT ![e] = Append(@, t)]
          /\ mRemainingTicks' = [mRemainingTicks EXCEPT ![e] = n]
          /\ setting' = [setting EXCEPT ![e] = [trigger |-> t, ticks |-> n]]
          /\ UNCHANGED <<mOneshotQueue, tasks>>
      BY <1>9 DEF GetOneshotEvent, getOneshotEventFromPool
    <2>2. setting[e] = Nil /\ ~Contains(mOneshotQueue, e)
      BY <1>s, <1>t, <2>1 DEF Pooled, OneUser, Listed
    <2>3. \A f \in OneshotEvent \ {e} :
              mSubscribers'[f] = mSubscribers[f] /\ mRemainingTicks'[f] = mRemainingTicks[f]
      BY <1>s, <1>t, <2>1 DEF Numbers, Calls
    <2>4. OClient' = OClient BY <2>1, <2>2, <2>3 DEF OClient
    <2>5. OLeft' = OLeft BY <2>1, <2>2, <2>3, OtherTimes, OneshotLeft, OneshotLeftNext
    <2>6. OCalls' = OCalls /\ DOMAIN OCalls[e] = Trigger
      BY <1>s, <1>t, <2>1 DEF OCalls, Types
    <2>7. n \in Nat \ {0} BY TimerSets DEF WholeTicks
    <2>8. setting'[e] = [trigger |-> t, ticks |-> n]
      BY <1>s, <1>t, <2>1 DEF Types
    <2>9. /\ ORequest'[e] = [trigger |-> t, ticks |-> n]
          /\ ORequest' = [ORequest EXCEPT ![e] = ORequest'[e]]
      BY <1>s, <1>t, <2>1, <2>8 DEF ORequest, Types
    <2>10. ORequest'[e] \in [trigger : DOMAIN OCalls[e], ticks : Nat \ {0}]
      BY <2>6, <2>7, <2>9
    <2>11. OLeft[e] = Nil /\ ORequest[e] = Nil BY <2>2 DEF OLeft, ORequest
    <2>12. Oneshot!Request(e)
      BY <2>4, <2>5, <2>6, <2>9, <2>10, <2>11, OneshotRequests
    <2> QED BY <2>12 DEF Oneshot!Next
  <1>10. ASSUME NEW e \in OneshotEvent, SetOneshotEvent(e)
         PROVE  Oneshot!Next
    <2>1. /\ setting[e] # Nil /\ setting' = [setting EXCEPT ![e] = Nil]
          /\ mOneshotQueue' = InsertAt(mOneshotQueue, InsertPosition(mRemainingTicks[e]), e)
          /\ UNCHANGED <<mSubscribers, tasks>>
      BY <1>10 DEF SetOneshotEvent
    <2>2. \A f : Contains(mOneshotQueue', f) <=> Contains(mOneshotQueue, f) \/ f = e
      <3>1. InsertPosition(mRemainingTicks[e]) \in 1 .. Len(mOneshotQueue) + 1
        BY <1>t, InsertPositionInList DEF Lists
      <3>2. ~Contains(mOneshotQueue, e) BY <1>s, <2>1
      <3> QED BY <1>t, <2>1, <3>1, <3>2, ListInsert DEF Lists
    <2>3. Head(mSubscribers[e]) = setting[e].trigger
      <3>1. mSubscribers[e] = <<setting[e].trigger>>
        BY <1>s, <1>t, <2>1 DEF Calls, CallOf
      <3> QED BY <3>1
    <2>4. ORequest[e] = setting[e] BY DEF ORequest
    <2>5. ORequest' = [ORequest EXCEPT ![e] = Nil]
      BY <1>s, <1>t, <2>1 DEF ORequest, Types
    <2>6. OClient' = [OClient EXCEPT ![e] = ORequest[e].trigger]
      BY <2>1, <2>2, <2>3, <2>4 DEF OClient
    <2>7. OLeft' = [OLeft EXCEPT ![e] = ORequest[e].ticks]
      BY <1>10, <2>4, SetOneshotTimes, OneshotLeft, OneshotLeftNext
    <2>8. OCalls' = OCalls BY <2>1 DEF OCalls
    <2>9. Oneshot!Arm(e) BY <2>1, <2>4, <2>5, <2>6, <2>7, <2>8, OneshotArms
    <2> QED BY <2>9 DEF Oneshot!Next
  <1>11. ASSUME NEW e \in OneshotEvent, CancelOneshotTimerEvent(e)
         PROVE  Oneshot!Next
    <2>1. /\ Contains(mOneshotQueue, e) /\ ~mOneshotLock
          /\ mOneshotQueue' = Without(mOneshotQueue, e)
          /\ mSubscribers' = [mSubscribers EXCEPT ![e] = <<>>]
          /\ UNCHANGED <<setting, tasks>>
      BY <1>11 DEF CancelOneshotTimerEvent, ReturnOneshot
    <2>2. \A f : Contains(mOneshotQueue', f) <=> Contains(mOneshotQueue, f) /\ f # e
      BY <1>t, <2>1, ListWithout DEF Lists
    <2>3. \A f \in OneshotEvent \ {e} : mSubscribers'[f] = mSubscribers[f]
      BY <1>s, <1>t, <2>1 DEF Calls
    <2>4. OLeft[e] # Nil /\ OLeft[e] # 0
      BY <1>d, <1>t, <2>1, OneshotSums, OneshotLeft DEF NothingDue
    <2>5. OClient' = [OClient EXCEPT ![e] = Nil]
      BY <2>2, <2>3 DEF OClient
    <2>6. OLeft' = [OLeft EXCEPT ![e] = Nil]
      BY <1>11, CancelOneshotTimes, OneshotLeft, OneshotLeftNext
    <2>7. UNCHANGED <<ORequest, OCalls>> BY <2>1 DEF ORequest, OCalls
    <2>8. Oneshot!Cancel(e) BY <2>4, <2>5, <2>6, <2>7, OneshotCancels
    <2> QED BY <2>8 DEF Oneshot!Next
  <1> QED
    BY <1>1, <1>2, <1>3, <1>4, <1>5, <1>6, <1>7, <1>8, <1>9, <1>10, <1>11
    DEF Next, HandleTick

LEMMA OneshotStart == Init => Oneshot!Init
  <1> SUFFICES ASSUME Init PROVE Oneshot!Init
    OBVIOUS
  <1>1. \A f : ~Contains(mOneshotQueue, f) BY DEF Init, Contains
  <1>2. /\ ORequest = [e \in OneshotEvent |-> Nil]
        /\ OClient = [e \in OneshotEvent |-> Nil]
        /\ OLeft = [e \in OneshotEvent |-> Nil]
    BY <1>1, TimerSets DEF Init, ORequest, OClient, OLeft
  <1>3. \A e \in OneshotEvent : \A t \in DOMAIN OCalls[e] : OCalls[e][t] = 0
    BY TimerSets DEF Init, OCalls
  <1> QED
    BY <1>2, <1>3 DEF Oneshot!Init, ORequest, OClient, OLeft, OPeriod, OCalls

(* The list of differences fires every oneshot event in the tick for which *)
(* its client set it, whatever setOneshotTimerEvent inserts before it,     *)
(* cancelOneshotTimerEvent takes out and handleTick fires: the timer       *)
(* implements the service, provided that no client asks for less than one  *)
(* tick.                                                                   *)
THEOREM OneshotEventsFire ==
    ASSUME WholeTicks
    PROVE  Spec => FiresOnTime
  <1>1. TInv /\ pos \in Nat \ {0} /\ Timed /\ [Next]_vars
            => [Oneshot!Next]_(Oneshot!vars)
    <2>1. ASSUME UNCHANGED vars, TInv, Timed
          PROVE  UNCHANGED Oneshot!vars
      BY <2>1, OneshotUntouched DEF vars, listVars, poolVars, OneshotFrame
    <2> QED BY <2>1, OneshotStep
  <1> QED
    BY <1>1, OneshotStart, TimerInvariant, TimedInvariant, PTL
    DEF Spec, FiresOnTime, Oneshot!Spec
=============================================================================
