------------------------ MODULE CacheManagementProofs ------------------------
(***************************************************************************)
(* Proofs about CacheManagement: for any number of cores, ways, components *)
(* and tasks, and for each of the implementations, a cache way has one     *)
(* user, a running task has a way for each part of its components, no way  *)
(* is lost, every page keeps its latest content while cores move it, and   *)
(* what is evicted after use runs from the way that it was loaded into.    *)
(***************************************************************************)
EXTENDS CacheManagement, SequenceLemmas, FiniteSetTheorems

JobIs(c, kind) == pc[c] = "job" /\ job[c] = kind

(* A core deals with a part: it looks for a way for it or has one.         *)
Loading(c) == pc[c] \in {"getway", "check", "label", "owner", "hung"}
              \/ JobIs(c, "load") \/ JobIs(c, "victim")
Current(c) == pc[c] \in {"check", "label", "owner"} \/ JobIs(c, "load")
Evicting(c) == pc[c] \in {"evict", "free"} \/ JobIs(c, "evict")
Booting(c) == pc[c] \in {"boot", "critical"} \/ JobIs(c, "critical")
Idle(c) == pc[c] \in {"off", "start", "idle"} \/ Booting(c)

(* Part p of the i-th component of the core's task has a labelled way: it  *)
(* was loaded already, or it is not given back yet.                        *)
Holds(c, i, p) ==
    /\ p \in Parts(active[c][i])
    /\ \/ pc[c] = "run"
       \/ pc[c] = "preload" /\ i < at[c]
       \/ Loading(c) /\ (i < at[c] \/ (i = at[c] /\ p < oscStart[c]))
       \/ Evicting(c) /\ i >= at[c]

Record == [permanentLocked : BOOLEAN, dataStart : Nat, dataEnd : Int,
           osc : Component \cup {Nil}, lruCount : 0 .. LruMax, inUse : BOOLEAN]

WayTypes ==
    /\ mCacheWays \in [Way -> Record]
    /\ pc = [c \in Core |-> pc[c]] /\ job = [c \in Core |-> job[c]]
    /\ way = [c \in Core |-> way[c]] /\ at = [c \in Core |-> at[c]]
    /\ active = [c \in Core |-> active[c]] /\ oscStart = [c \in Core |-> oscStart[c]]

(* The cores start when the first has finished its boot.                   *)
StatesInv ==
    \A c \in Core :
        /\ Idle(c) \/ pc[c] \in {"preload", "run"} \/ Loading(c) \/ Evicting(c)
        /\ Booting(c) => c = 0 /\ \A d \in Core : d # c => pc[d] = "off"

TasksInv ==
    /\ \A c \in Core : IF Idle(c) THEN active[c] = <<>>
                       ELSE active[c] \in Tasks /\ at[c] \in 1 .. Len(active[c])
    /\ \A c \in Core : Loading(c) => oscStart[c] \in Parts(Osc(c))
    /\ \A c, d \in Core : c # d => ToSet(active[c]) \cap ToSet(active[d]) = {}

(* Each way has the label of a part or none, and no two have the same.     *)
LabelsInv ==
    /\ \A w \in Way : mCacheWays[w].dataStart = 0
                      \/ \E o \in Component : mCacheWays[w].dataStart \in Parts(o)
    /\ \A w, x \in Way : mCacheWays[w].dataStart = mCacheWays[x].dataStart
                         /\ mCacheWays[w].dataStart # 0 => w = x

(* The way a core is at: the part it loads has no other.                   *)
AtWay(c) ==
    /\ Current(c) =>
          /\ way[c] \in Way /\ mCacheWays[way[c]].inUse
          /\ mCacheWays[way[c]].dataStart \in {0, oscStart[c]}
          /\ Labelled(oscStart[c]) \subseteq {way[c]}
    /\ pc[c] = "owner" => mCacheWays[way[c]].dataStart = oscStart[c]
    /\ JobIs(c, "victim") =>
          /\ mLock = c /\ way[c] \in Way /\ ~mCacheWays[way[c]].inUse
          /\ Labelled(oscStart[c]) = {}
    /\ JobIs(c, "evict") =>
          /\ way[c] \in Way /\ mCacheWays[way[c]].inUse
          /\ mCacheWays[way[c]].dataStart \in Parts(Osc(c))

(* What a core holds has a way, and a way in use is held by a core.        *)
OwnHeld(c) ==
    \A i \in 1 .. Len(active[c]) : \A p \in Nat : Holds(c, i, p) =>
        \E w \in Way : /\ mCacheWays[w].dataStart = p /\ mCacheWays[w].inUse
                       /\ mCacheWays[w].osc = active[c][i]

HeldInv == \A c \in Core : OwnHeld(c)

InHand(c, w) ==
    \E i \in 1 .. Len(active[c]), p \in Nat : mCacheWays[w].dataStart = p /\ Holds(c, i, p)

AtHand(c, w) == Current(c) /\ way[c] = w

UsedInv ==
    \A w \in Way : mCacheWays[w].inUse => \E c \in Core : AtHand(c, w) \/ InHand(c, w)

IInv == /\ WayTypes /\ StatesInv /\ TasksInv /\ LabelsInv /\ (\A c \in Core : AtWay(c))
        /\ WaysNotShared /\ HeldInv /\ UsedInv

----------------------------------------------------------------------------
(* The parts of the components                                             *)
LEMMA WaySize == WayPages \in Nat \ {0}
BY CacheAssumption DEF WayPages

LEMMA Multiples ==
    ASSUME NEW m \in Nat \ {0}, NEW a \in Nat, NEW b \in Nat, a % m = 0, b % m = 0
    PROVE  /\ b < a + m => b <= a
           /\ (a + m) % m = 0
<1>1. a = m * (a \div m) /\ b = m * (b \div m) /\ a \div m \in Nat /\ b \div m \in Nat
  OBVIOUS
<1>2. ASSUME b < a + m PROVE b <= a
  <2> DEFINE x == a \div m
             y == b \div m
  <2>1. x \in Nat /\ y \in Nat /\ a = m * x /\ b = m * y BY <1>1
  <2> HIDE DEF x, y
  <2>2. ASSUME y > x PROVE FALSE
    <3>1. m * y >= m * (x + 1) BY <2>1, <2>2
    <3>2. m * (x + 1) = m * x + m BY <2>1
    <3> QED BY <1>2, <2>1, <3>1, <3>2
  <2>3. y <= x BY <2>1, <2>2
  <2> QED BY <2>1, <2>3
<1>3. (a + m) % m = 0
  <2> DEFINE z == a + m
             x == a \div m
             y == z \div m
             r == z % m
  <2>1. z \in Nat /\ x \in Nat /\ y \in Nat /\ r \in 0 .. m - 1
        /\ z = m * y + r /\ a = m * x /\ z = a + m
    BY <1>1
  <2> HIDE DEF z, x, y, r
  <2>2. z = m * (x + 1) BY <2>1
  <2>3. ASSUME y < x + 1 PROVE FALSE
    <3>1. m * (y + 1) <= m * (x + 1) BY <2>1, <2>3
    <3>2. m * (y + 1) = m * y + m BY <2>1
    <3> QED BY <2>1, <2>2, <3>1, <3>2
  <2>4. ASSUME y > x + 1 PROVE FALSE
    <3>1. m * y >= m * (x + 2) BY <2>1, <2>4
    <3>2. m * (x + 2) = m * (x + 1) + m BY <2>1
    <3> QED BY <2>1, <2>2, <3>1, <3>2
  <2>5. y = x + 1 BY <2>1, <2>3, <2>4
  <2>6. r = 0 BY <2>1, <2>2, <2>5
  <2> QED BY <2>6 DEF r, z
<1> QED BY <1>2, <1>3

LEMMA PartsFacts ==
    ASSUME NEW o \in Component
    PROVE  /\ Parts(o) \subseteq Nat \ {0} /\ Start[o] \in Parts(o)
           /\ Start[o] \in Nat /\ End[o] \in Nat
           /\ \A p \in Parts(o) : p >= Start[o] /\ p < End[o]
           /\ \A q \in Component : \A p : p \in Parts(o) /\ p \in Parts(q) => o = q
           /\ \A q \in Component : \A p : p \in Owned(o) /\ p \in Parts(q) => o = q
<1>1. Start[o] \in Nat /\ End[o] \in Nat /\ Owned(o) # {} BY CacheAssumption
<1>2. 0 \in Core /\ Owned(o) \cap Core = {} BY CacheAssumption, PageTableAssumption DEF Core
<1>3. Parts(o) \subseteq Owned(o) /\ Owned(o) \subseteq Nat BY <1>1 DEF Parts, Owned
<1>4. \A p \in Owned(o) : p >= Start[o] /\ p < End[o] BY <1>1 DEF Owned
<1>5. Start[o] \in Parts(o)
  <2>1. Start[o] \in Owned(o) BY <1>1 DEF Owned
  <2>2. (Start[o] - Start[o]) % WayPages = 0 BY <1>1, WaySize
  <2> QED BY <2>1, <2>2 DEF Parts
<1>6. \A q \in Component : \A p : p \in Owned(o) /\ p \in Parts(q) => o = q
  BY CacheAssumption DEF Parts
<1> QED BY <1>1, <1>2, <1>3, <1>4, <1>5, <1>6

LEMMA SmallerOf ==
    ASSUME NEW a \in Int, NEW b \in Int
    PROVE  Min({a, b}) = IF a <= b THEN a ELSE b
<1> DEFINE m == IF a <= b THEN a ELSE b
<1>1. m \in {a, b} /\ \A y \in {a, b} : m <= y
  OBVIOUS
<1>2. \A x \in {a, b} : (\A y \in {a, b} : x <= y) => x = m
  OBVIOUS
<1> QED BY <1>1, <1>2 DEF Min

LEMMA NextPart ==
    ASSUME NEW o \in Component, NEW p \in Parts(o)
    PROVE  /\ PartEnd(p, End[o]) \in Int
           /\ \A q \in Parts(o) : q < PartEnd(p, End[o]) <=> q <= p
           /\ PartEnd(p, End[o]) # End[o] => PartEnd(p, End[o]) \in Parts(o)
           /\ PartEnd(p, End[o]) = End[o] => \A q \in Parts(o) : q <= p
<1> DEFINE n == PartEnd(p, End[o])
           m == WayPages
<1>1. /\ Start[o] \in Nat /\ End[o] \in Nat /\ Parts(o) \subseteq Nat /\ p \in Nat
      /\ \A q \in Parts(o) : q >= Start[o] /\ q < End[o]
  BY PartsFacts
<1>2. m \in Nat \ {0} BY WaySize
<1>3. n = IF p + m <= End[o] THEN p + m ELSE End[o]
  BY <1>1, <1>2, SmallerOf DEF PartEnd
<1>4. \A q \in Parts(o) : (q - Start[o]) % m = 0 BY DEF Parts
<1> HIDE DEF n, m
<1>5. ASSUME NEW q \in Parts(o), q < n PROVE q <= p
  <2>1. /\ q - Start[o] \in Nat /\ p - Start[o] \in Nat
        /\ (q - Start[o]) % m = 0 /\ (p - Start[o]) % m = 0
    BY <1>1, <1>4
  <2>2. q - Start[o] < (p - Start[o]) + m BY <1>1, <1>2, <1>3, <1>5
  <2>3. q - Start[o] <= p - Start[o] BY <1>2, <2>1, <2>2, Multiples
  <2> QED BY <1>1, <2>3
<1>6. ASSUME NEW q \in Parts(o), q <= p PROVE q < n
  BY <1>1, <1>2, <1>3, <1>6
<1>7. ASSUME n # End[o] PROVE n \in Parts(o)
  <2>1. n = p + m /\ n < End[o] BY <1>1, <1>2, <1>3, <1>7
  <2>2. n \in Owned(o) BY <1>1, <1>2, <2>1 DEF Owned
  <2>3. p - Start[o] \in Nat /\ (p - Start[o]) % m = 0 BY <1>1, <1>4
  <2>4. ((p - Start[o]) + m) % m = 0 BY <1>2, <2>3, Multiples
  <2>5. (p - Start[o]) + m = n - Start[o] BY <1>1, <1>2, <2>1
  <2> QED BY <2>2, <2>4, <2>5 DEF Parts, m
<1>8. ASSUME n = End[o] PROVE \A q \in Parts(o) : q <= p
  BY <1>1, <1>5, <1>8
<1>9. n \in Int BY <1>1, <1>2, <1>3
<1> QED BY <1>5, <1>6, <1>7, <1>8, <1>9 DEF n

(* The smallest and the largest of a set of ways or counters is one of it. *)
LEMMA Extremes ==
    ASSUME NEW n \in Nat, NEW S \in SUBSET (0 .. n), S # {}
    PROVE  /\ Min(S) \in S
           /\ Max(S) \in S /\ \A x \in S : x <= Max(S)
<1>1. S \in SUBSET Nat
  OBVIOUS
<1>2. \E m \in S : \A k \in S : m <= k BY <1>1, LeastNumber
<1>3. Min(S) \in S BY <1>2 DEF Min
<1> DEFINE T == {n - x : x \in S}
<1>4. T \in SUBSET Nat /\ T # {}
  <2>1. \A x \in S : n - x \in Nat
    OBVIOUS
  <2>2. \E x \in S : TRUE
    OBVIOUS
  <2> QED BY <2>1, <2>2
<1>5. PICK m \in T : \A k \in T : m <= k BY <1>4, LeastNumber
<1>6. PICK x \in S : m = n - x BY <1>5
<1>7. \A y \in S : x >= y
  <2> SUFFICES ASSUME NEW y \in S PROVE x >= y
    OBVIOUS
  <2>1. n - y \in T /\ x \in Nat /\ y \in Nat BY <1>1
  <2>2. n - x <= n - y BY <1>5, <1>6, <2>1
  <2> QED BY <2>1, <2>2
<1>8. Max(S) \in S /\ \A y \in S : Max(S) >= y BY <1>7 DEF Max
<1>9. \A y \in S : y \in Nat BY <1>1
<1> QED BY <1>3, <1>8, <1>9

----------------------------------------------------------------------------
(* Tasks                                                                   *)
LEMMA TaskFacts ==
    ASSUME TasksInv, NEW c \in Core
    PROVE  /\ active[c] \in Seq(Component) /\ Len(active[c]) \in Nat
           /\ \A i \in 1 .. Len(active[c]) : active[c][i] \in Component /\ active[c][i] \in ToSet(active[c])
           /\ ~Idle(c) => /\ at[c] \in 1 .. Len(active[c]) /\ Osc(c) \in Component
                          /\ Osc(c) \in ToSet(active[c])
                          /\ \A i, j \in 1 .. Len(active[c]) : active[c][i] = active[c][j] => i = j
<1>1. CASE Idle(c)
  <2>1. active[c] = <<>> BY <1>1 DEF TasksInv
  <2> QED BY <1>1, <2>1
<1>2. CASE ~Idle(c)
  <2>1. active[c] \in Tasks /\ at[c] \in 1 .. Len(active[c]) BY <1>2 DEF TasksInv
  <2>2. active[c] \in Seq(Component) /\ IsInjective(active[c]) BY <2>1, CacheAssumption
  <2>3. Len(active[c]) \in Nat /\ DOMAIN active[c] = 1 .. Len(active[c]) BY <2>2
  <2>4. \A i \in 1 .. Len(active[c]) : active[c][i] \in Component BY <2>2
  <2>5. \A i \in 1 .. Len(active[c]) : active[c][i] \in ToSet(active[c]) BY <2>3 DEF ToSet
  <2>6. \A i, j \in 1 .. Len(active[c]) : active[c][i] = active[c][j] => i = j
    BY <2>2, <2>3 DEF IsInjective
  <2> QED BY <2>1, <2>2, <2>3, <2>4, <2>5, <2>6 DEF Osc
<1> QED BY <1>1, <1>2

(* The tasks of two cores have no part in common.                          *)
LEMMA TasksApart ==
    ASSUME TasksInv, NEW c \in Core, NEW d \in Core, c # d
    PROVE  /\ ~Idle(c) /\ ~Idle(d) => Osc(c) # Osc(d)
           /\ ~Idle(c) => \A j \in 1 .. Len(active[d]) : active[d][j] # Osc(c)
           /\ \A i \in 1 .. Len(active[c]), j \in 1 .. Len(active[d]) : active[c][i] # active[d][j]
<1>1. ToSet(active[c]) \cap ToSet(active[d]) = {} BY DEF TasksInv
<1>2. /\ \A i \in 1 .. Len(active[c]) : active[c][i] \in ToSet(active[c])
      /\ \A i \in 1 .. Len(active[d]) : active[d][i] \in ToSet(active[d])
      /\ ~Idle(c) => Osc(c) \in ToSet(active[c])
      /\ ~Idle(d) => Osc(d) \in ToSet(active[d])
  BY TaskFacts
<1> QED BY <1>1, <1>2

----------------------------------------------------------------------------
(* What a step of one core leaves of the others.                           *)
Others(c) ==
    \A d \in Core : d # c =>
        /\ pc'[d] = pc[d] /\ job'[d] = job[d] /\ way'[d] = way[d]
        /\ active'[d] = active[d] /\ at'[d] = at[d] /\ oscStart'[d] = oscStart[d]

Kept(x) ==
    /\ mCacheWays'[x].dataStart = mCacheWays[x].dataStart
    /\ mCacheWays'[x].inUse = mCacheWays[x].inUse
    /\ mCacheWays'[x].osc = mCacheWays[x].osc

(* A core changes ways that nobody uses or its own.                        *)
OwnWay(c, x) ==
    \/ Current(c) /\ way[c] = x
    \/ mLock \in {Nil, c} /\ ~mCacheWays[x].inUse
    \/ mLock \in {Nil, c} /\ ~Idle(c) /\ mCacheWays[x].dataStart \in Owned(Osc(c))

OwnChanges(c) ==
    /\ Others(c)
    /\ mLock' = mLock \/ mLock \in {Nil, c}
    /\ \A x \in Way : Kept(x) \/ OwnWay(c, x)
    /\ \A x \in Way : \/ mCacheWays'[x].dataStart \in {0, mCacheWays[x].dataStart}
                      \/ /\ mCacheWays'[x].dataStart = oscStart[c]
                         /\ Loading(c) /\ Current(c) /\ way[c] = x

(* No way in use loses its label, no part that the core holds is lost, and *)
(* the way it is at stays with its part.                                   *)
NoneLost(c) ==
    /\ \A x \in Way : mCacheWays[x].inUse /\ mCacheWays[x].dataStart # 0 =>
          mCacheWays'[x].inUse /\ mCacheWays'[x].dataStart = mCacheWays[x].dataStart
    /\ \A i \in 1 .. Len(active[c]), p \in Nat : Holds(c, i, p) =>
          active'[c] = active[c] /\ Holds(c, i, p)'
    /\ \A x \in Way : AtHand(c, x) =>
          \/ AtHand(c, x)' /\ oscStart'[c] = oscStart[c]
          \/ mCacheWays'[x].dataStart = oscStart[c] /\ mCacheWays'[x].inUse

LEMMA OthersSame ==
    ASSUME NEW c \in Core, Others(c), NEW d \in Core, d # c
    PROVE  /\ Loading(d)' = Loading(d) /\ Current(d)' = Current(d)
           /\ Evicting(d)' = Evicting(d) /\ Booting(d)' = Booting(d) /\ Idle(d)' = Idle(d)
           /\ \A kind : JobIs(d, kind)' = JobIs(d, kind)
           /\ Osc(d)' = Osc(d)
           /\ \A i, p : Holds(d, i, p)' = Holds(d, i, p)
<1>1. /\ pc'[d] = pc[d] /\ job'[d] = job[d] /\ way'[d] = way[d]
      /\ active'[d] = active[d] /\ at'[d] = at[d] /\ oscStart'[d] = oscStart[d]
  BY DEF Others
<1>2. \A kind : JobIs(d, kind)' = JobIs(d, kind) BY <1>1 DEF JobIs
<1>3. Loading(d)' = Loading(d) BY <1>1 DEF JobIs, Loading
<1>4. Current(d)' = Current(d) BY <1>1 DEF JobIs, Current
<1>5. Evicting(d)' = Evicting(d) BY <1>1 DEF JobIs, Evicting
<1>6. Booting(d)' = Booting(d) BY <1>1 DEF JobIs, Booting
<1>7. Idle(d)' = Idle(d) BY <1>1, <1>6 DEF Idle
<1>8. Osc(d)' = Osc(d) BY <1>1 DEF Osc
<1>9. \A i, p : Holds(d, i, p)' = Holds(d, i, p)
  BY <1>1, <1>3, <1>5 DEF Holds
<1> QED BY <1>2, <1>3, <1>4, <1>5, <1>6, <1>7, <1>8, <1>9

LEMMA OthersAtTheirWay ==
    ASSUME IInv, NEW c \in Core, OwnChanges(c), NEW d \in Core, d # c
    PROVE  AtWay(d)'
<1>0. Others(c) /\ WayTypes /\ TasksInv /\ LabelsInv /\ AtWay(c) /\ AtWay(d) /\ WaysNotShared
  BY DEF OwnChanges, IInv
<1>1. /\ pc'[d] = pc[d] /\ way'[d] = way[d] /\ oscStart'[d] = oscStart[d]
      /\ Current(d)' = Current(d) /\ \A kind : JobIs(d, kind)' = JobIs(d, kind)
      /\ Osc(d)' = Osc(d)
  BY <1>0, OthersSame DEF Others
<1>2. Loading(d) => ~Idle(d) /\ oscStart[d] \in Parts(Osc(d))
  BY <1>0 DEF Loading, Idle, Booting, JobIs, TasksInv
<1>3. JobIs(d, "evict") => ~Idle(d) BY DEF Idle, Booting, JobIs
<1>4. Current(d) \/ JobIs(d, "victim") => Loading(d) BY DEF Current, Loading
<1>5. ~Idle(d) => Osc(d) \in Component BY <1>0, TaskFacts
<1>6. ~Idle(c) => Osc(c) \in Component /\ (~Idle(d) => Osc(c) # Osc(d))
  BY <1>0, TaskFacts, TasksApart
<1>7. Loading(c) => ~Idle(c) /\ oscStart[c] \in Parts(Osc(c))
  BY <1>0 DEF Loading, Idle, Booting, JobIs, TasksInv
<1>8. \A x \in Way : Current(c) /\ way[c] = x /\ (Current(d) \/ JobIs(d, "victim") \/ JobIs(d, "evict"))
                     => way[d] # x
  BY <1>0 DEF WaysNotShared, Current, JobIs
<1>9. Loading(d) => oscStart[d] # 0
  BY <1>2, <1>5, PartsFacts
(* Nobody labels a way with the part of another core.                      *)
<1>10. ASSUME Loading(d), NEW x \in Way, mCacheWays'[x].dataStart = oscStart[d]
       PROVE  mCacheWays[x].dataStart = oscStart[d]
  <2>1. mCacheWays'[x].dataStart # 0 BY <1>9, <1>10
  <2>2. ASSUME mCacheWays'[x].dataStart = oscStart[c], Loading(c) PROVE FALSE
    <3>1. oscStart[d] \in Parts(Osc(c)) /\ oscStart[d] \in Parts(Osc(d))
      BY <1>2, <1>7, <1>10, <2>2
    <3> QED BY <1>2, <1>5, <1>6, <1>7, <1>10, <2>2, <3>1, PartsFacts
  <2> QED BY <1>10, <2>1, <2>2 DEF OwnChanges
<1>11. ASSUME Current(d) PROVE Kept(way[d])
  <2>1. way[d] \in Way /\ mCacheWays[way[d]].inUse
        /\ mCacheWays[way[d]].dataStart \in {0, oscStart[d]}
    BY <1>0, <1>11 DEF AtWay
  <2>2. ASSUME ~Idle(c), mCacheWays[way[d]].dataStart \in Owned(Osc(c)) PROVE FALSE
    <3>1. Loading(d) BY <1>4, <1>11
    <3>2. 0 \notin Owned(Osc(c))
      BY <1>6, <2>2, CacheAssumption, PageTableAssumption DEF Core
    <3>3. oscStart[d] \in Owned(Osc(c)) /\ oscStart[d] \in Parts(Osc(d))
      BY <1>2, <2>1, <2>2, <3>1, <3>2
    <3> QED BY <1>2, <1>5, <1>6, <2>2, <3>1, <3>3, PartsFacts
  <2> QED BY <1>8, <1>11, <2>1, <2>2 DEF OwnChanges, OwnWay
<1>12. ASSUME JobIs(d, "victim") PROVE Kept(way[d]) /\ mLock' = mLock
  <2>1. way[d] \in Way /\ mLock = d BY <1>0, <1>12 DEF AtWay
  <2>2. d # Nil BY PageTableAssumption DEF Core
  <2> QED BY <1>8, <1>12, <2>1, <2>2 DEF OwnChanges, OwnWay
<1>13. ASSUME JobIs(d, "evict") PROVE Kept(way[d])
  <2>1. way[d] \in Way /\ mCacheWays[way[d]].inUse
        /\ mCacheWays[way[d]].dataStart \in Parts(Osc(d))
    BY <1>0, <1>13 DEF AtWay
  <2>2. ASSUME ~Idle(c), mCacheWays[way[d]].dataStart \in Owned(Osc(c)) PROVE FALSE
    BY <1>3, <1>5, <1>6, <1>13, <2>1, <2>2, PartsFacts
  <2> QED BY <1>8, <1>13, <2>1, <2>2 DEF OwnChanges, OwnWay
<1>14. Loading(d) => Labelled(oscStart[d])' \subseteq Labelled(oscStart[d])
  BY <1>1, <1>10 DEF Labelled
<1>15. (Current(d) =>
          /\ way[d] \in Way /\ mCacheWays[way[d]].inUse
          /\ mCacheWays[way[d]].dataStart \in {0, oscStart[d]}
          /\ Labelled(oscStart[d]) \subseteq {way[d]})'
  BY <1>0, <1>1, <1>4, <1>11, <1>14 DEF AtWay, Kept
<1>16. (pc[d] = "owner" => mCacheWays[way[d]].dataStart = oscStart[d])'
  <2>1. pc[d] = "owner" => Current(d) BY DEF Current
  <2> QED BY <1>0, <1>1, <1>11, <2>1 DEF AtWay, Kept
<1>17. (JobIs(d, "victim") =>
          /\ mLock = d /\ way[d] \in Way /\ ~mCacheWays[way[d]].inUse
          /\ Labelled(oscStart[d]) = {})'
  BY <1>0, <1>1, <1>4, <1>12, <1>14 DEF AtWay, Kept
<1>18. (JobIs(d, "evict") =>
          /\ way[d] \in Way /\ mCacheWays[way[d]].inUse
          /\ mCacheWays[way[d]].dataStart \in Parts(Osc(d)))'
  BY <1>0, <1>1, <1>13 DEF AtWay, Kept
<1> QED BY <1>15, <1>16, <1>17, <1>18 DEF AtWay

LEMMA OthersHold ==
    ASSUME IInv, NEW c \in Core, OwnChanges(c), NEW d \in Core, d # c,
           NEW i \in 1 .. Len(active'[d]), NEW p \in Nat, Holds(d, i, p)'
    PROVE  \E w \in Way : /\ mCacheWays'[w].dataStart = p /\ mCacheWays'[w].inUse
                          /\ mCacheWays'[w].osc = active'[d][i]
<1>0. Others(c) /\ WayTypes /\ TasksInv /\ AtWay(c) /\ HeldInv
  BY DEF OwnChanges, IInv
<1>1. active'[d] = active[d] /\ i \in 1 .. Len(active[d]) /\ Holds(d, i, p)
  BY <1>0, OthersSame DEF Others
<1>2. PICK w \in Way : /\ mCacheWays[w].dataStart = p /\ mCacheWays[w].inUse
                       /\ mCacheWays[w].osc = active[d][i]
  BY <1>0, <1>1 DEF HeldInv, OwnHeld
<1>3. p \in Parts(active[d][i]) /\ active[d][i] \in Component
  BY <1>0, <1>1, TaskFacts DEF Holds
<1>4. ~Idle(c) => Osc(c) \in Component /\ active[d][i] # Osc(c)
  BY <1>0, <1>1, TaskFacts, TasksApart
<1>5. Kept(w)
  <2>1. ASSUME Current(c), way[c] = w PROVE FALSE
    <3>1. Loading(c) /\ ~Idle(c) BY <2>1 DEF Current, Loading, Idle, Booting, JobIs
    <3>2. oscStart[c] \in Parts(Osc(c)) BY <1>0, <3>1 DEF TasksInv
    <3>3. p \in {0, oscStart[c]} BY <1>0, <1>2, <2>1 DEF AtWay
    <3>4. p # 0 BY <1>3, PartsFacts
    <3> QED BY <1>3, <1>4, <3>1, <3>2, <3>3, <3>4, PartsFacts
  <2>2. ASSUME ~Idle(c), mCacheWays[w].dataStart \in Owned(Osc(c)) PROVE FALSE
    BY <1>2, <1>3, <1>4, <2>2, PartsFacts
  <2> QED BY <1>2, <2>1, <2>2 DEF OwnChanges, OwnWay
<1> QED BY <1>1, <1>2, <1>5 DEF Kept

LEMMA HeldStep ==
    ASSUME IInv, NEW c \in Core, OwnChanges(c), OwnHeld(c)'
    PROVE  HeldInv'
<1> SUFFICES ASSUME NEW d \in Core, d # c PROVE OwnHeld(d)'
  BY DEF HeldInv
<1> SUFFICES ASSUME NEW i \in 1 .. Len(active'[d]), NEW p \in Nat, Holds(d, i, p)'
             PROVE  \E w \in Way : /\ mCacheWays'[w].dataStart = p /\ mCacheWays'[w].inUse
                                   /\ mCacheWays'[w].osc = active'[d][i]
  BY DEF OwnHeld
<1> QED BY OthersHold

(* Each way in use is still held, or the core that takes a step holds it.  *)
StillHeld(c, w) ==
    /\ mCacheWays'[w].inUse
    /\ ~Kept(w) \/ AtHand(c, w) \/ InHand(c, w)
    => AtHand(c, w)' \/ InHand(c, w)'

LEMMA UsedStep ==
    ASSUME IInv, NEW c \in Core, OwnChanges(c),
           \A w \in Way : StillHeld(c, w)
    PROVE  UsedInv'
<1> USE DEF StillHeld
<1> SUFFICES ASSUME NEW w \in Way, mCacheWays'[w].inUse
             PROVE  \E d \in Core : AtHand(d, w)' \/ InHand(d, w)'
  BY DEF UsedInv
<1>0. Others(c) BY DEF OwnChanges
<1>1. CASE ~Kept(w) \/ AtHand(c, w) \/ InHand(c, w)
  BY <1>1
<1>2. CASE Kept(w) /\ ~AtHand(c, w) /\ ~InHand(c, w)
  <2>1. mCacheWays[w].inUse /\ mCacheWays'[w].dataStart = mCacheWays[w].dataStart
    BY <1>2 DEF Kept
  <2>2. PICK d \in Core : AtHand(d, w) \/ InHand(d, w)
    BY <2>1 DEF IInv, UsedInv
  <2>3. d # c BY <1>2, <2>2
  <2>4. /\ Current(d)' = Current(d) /\ way'[d] = way[d] /\ active'[d] = active[d]
        /\ \A i, p : Holds(d, i, p)' = Holds(d, i, p)
    BY <1>0, <2>3, OthersSame DEF Others
  <2>5. AtHand(d, w) => AtHand(d, w)' BY <2>4 DEF AtHand
  <2>6. InHand(d, w) => InHand(d, w)' BY <2>1, <2>4 DEF InHand
  <2> QED BY <2>2, <2>5, <2>6
<1> QED BY <1>1, <1>2

(* A core that goes on at its way, or takes one nobody is at, or is at     *)
(* none.                                                                   *)
AtWork(c) == pc[c] \in {"check", "job", "label", "owner"}

LEMMA SharedStep ==
    ASSUME IInv, NEW c \in Core, Others(c),
           AtWork(c)' => \/ AtWork(c) /\ way'[c] = way[c]
                         \/ \A d \in Core : d # c /\ AtWork(d) => way[d] # way'[c]
    PROVE  WaysNotShared'
BY DEF IInv, WaysNotShared, Others, AtWork

LEMMA LabelsStep ==
    ASSUME IInv, NEW c \in Core, OwnChanges(c)
    PROVE  LabelsInv'
<1>0. LabelsInv /\ TasksInv /\ AtWay(c) BY DEF IInv
<1>1. Loading(c) => ~Idle(c) BY DEF Loading, Idle, Booting, JobIs
<1>2. Loading(c) => Osc(c) \in Component /\ oscStart[c] \in Parts(Osc(c))
  BY <1>0, <1>1, TaskFacts DEF TasksInv
<1>3. ASSUME NEW w \in Way
      PROVE  \/ mCacheWays'[w].dataStart \in {0, mCacheWays[w].dataStart}
             \/ /\ mCacheWays'[w].dataStart = oscStart[c] /\ Loading(c)
                /\ way[c] = w /\ Labelled(oscStart[c]) \subseteq {w}
  BY <1>0 DEF OwnChanges, AtWay
<1>4. ASSUME NEW w \in Way
      PROVE  mCacheWays'[w].dataStart = 0
             \/ \E o \in Component : mCacheWays'[w].dataStart \in Parts(o)
  BY <1>0, <1>2, <1>3 DEF LabelsInv
<1>5. ASSUME NEW w \in Way, NEW x \in Way, mCacheWays'[w].dataStart = mCacheWays'[x].dataStart,
             mCacheWays'[w].dataStart # 0
      PROVE  w = x
  BY <1>0, <1>3, <1>5 DEF LabelsInv, Labelled
<1> QED BY <1>4, <1>5 DEF LabelsInv

LEMMA StatesStep ==
    ASSUME IInv, NEW c \in Core, Others(c), pc[c] # "off", ~Booting(c)',
           Idle(c)' \/ pc'[c] \in {"preload", "run"} \/ Loading(c)' \/ Evicting(c)'
    PROVE  StatesInv'
<1> SUFFICES ASSUME NEW d \in Core, d # c
             PROVE  /\ Idle(d)' \/ pc'[d] \in {"preload", "run"} \/ Loading(d)' \/ Evicting(d)'
                    /\ ~Booting(d)'
  BY DEF StatesInv
<1>1. StatesInv BY DEF IInv
<1>2. /\ Idle(d)' = Idle(d) /\ Loading(d)' = Loading(d) /\ Evicting(d)' = Evicting(d)
      /\ Booting(d)' = Booting(d) /\ pc'[d] = pc[d]
  BY OthersSame DEF Others
<1> QED BY <1>1, <1>2 DEF StatesInv

TaskOf(c) ==
    /\ IF Idle(c) THEN active[c] = <<>>
       ELSE active[c] \in Tasks /\ at[c] \in 1 .. Len(active[c])
    /\ Loading(c) => oscStart[c] \in Parts(Osc(c))

LEMMA TasksStep ==
    ASSUME IInv, NEW c \in Core, Others(c), TaskOf(c)', 
           active'[c] = active[c] \/ active'[c] = <<>>
    PROVE  TasksInv'
<1>0. TasksInv BY DEF IInv
<1>1. ASSUME NEW d \in Core PROVE TaskOf(d)'
  <2>1. CASE d # c
    <3>1. TaskOf(d) BY <1>0 DEF TasksInv, TaskOf
    <3>2. /\ Idle(d)' = Idle(d) /\ Loading(d)' = Loading(d) /\ Osc(d)' = Osc(d)
          /\ active'[d] = active[d] /\ at'[d] = at[d] /\ oscStart'[d] = oscStart[d]
      BY <2>1, OthersSame DEF Others
    <3> QED BY <3>1, <3>2 DEF TaskOf
  <2> QED BY <2>1
<1>2. ASSUME NEW d \in Core
      PROVE  active'[d] = active[d] \/ active'[d] = <<>>
  BY DEF Others
<1>3. ToSet(<<>>) = {} BY DEF ToSet
<1>4. ASSUME NEW d \in Core, NEW e \in Core, d # e
      PROVE  ToSet(active'[d]) \cap ToSet(active'[e]) = {}
  <2>1. ToSet(active[d]) \cap ToSet(active[e]) = {} BY <1>0, <1>4 DEF TasksInv
  <2>2. CASE active'[d] = <<>> BY <1>3, <2>2
  <2>3. CASE active'[e] = <<>> BY <1>3, <2>3
  <2>4. CASE active'[d] = active[d] /\ active'[e] = active[e] BY <2>1, <2>4
  <2> QED BY <1>2, <2>2, <2>3, <2>4
<1>5. (\A d \in Core : TaskOf(d))' BY <1>1
<1>6. ((\A d \in Core : TaskOf(d)) /\ (\A d, e \in Core : d # e => ToSet(active[d]) \cap ToSet(active[e]) = {})
      => TasksInv)'
  BY DEF TasksInv, TaskOf
<1> QED BY <1>4, <1>5, <1>6

LEMMA StepInv ==
    ASSUME IInv, NEW c \in Core, OwnChanges(c), WayTypes', StatesInv', TasksInv', AtWay(c)',
           WaysNotShared', OwnHeld(c)', \A w \in Way : StillHeld(c, w)
    PROVE  IInv'
<1>1. LabelsInv' BY LabelsStep
<1>2. HeldInv' BY HeldStep
<1>3. UsedInv' BY UsedStep
<1>4. (\A d \in Core : AtWay(d))'
  <2> SUFFICES ASSUME NEW d \in Core PROVE AtWay(d)'
    OBVIOUS
  <2>1. CASE d = c BY <2>1
  <2>2. CASE d # c BY <2>2, OthersAtTheirWay
  <2> QED BY <2>1, <2>2
<1> QED BY <1>1, <1>2, <1>3, <1>4 DEF IInv

(* Steps that only move pages or change the hardware.                      *)
LEMMA Frame ==
    ASSUME IInv, UNCHANGED <<mCacheWays, mLock, pc, job, way, active, at, oscStart>>
    PROVE  IInv'
<1>1. \A c \in Core : /\ Idle(c)' = Idle(c) /\ Loading(c)' = Loading(c) /\ Current(c)' = Current(c)
                      /\ Booting(c)' = Booting(c) /\ Evicting(c)' = Evicting(c)
                      /\ \A kind : JobIs(c, kind)' = JobIs(c, kind)
                      /\ Osc(c)' = Osc(c)
  BY DEF Idle, Loading, Current, Booting, Evicting, JobIs, Osc
<1>2. \A c \in Core : \A i, p : Holds(c, i, p)' = Holds(c, i, p)
  BY <1>1 DEF Holds
<1>3. \A p : Labelled(p)' = Labelled(p) BY DEF Labelled
<1>4. WayTypes' BY DEF IInv, WayTypes
<1>5. StatesInv' BY <1>1 DEF IInv, StatesInv
<1>6. TasksInv' BY <1>1 DEF IInv, TasksInv
<1>7. LabelsInv' BY DEF IInv, LabelsInv
<1>8. (\A c \in Core : AtWay(c))'
  <2> SUFFICES ASSUME NEW c \in Core PROVE AtWay(c)'
    OBVIOUS
  <2>1. AtWay(c) BY DEF IInv
  <2>2. Labelled(oscStart[c])' = Labelled(oscStart[c]) BY DEF Labelled
  <2> QED BY <1>1, <2>1, <2>2 DEF AtWay
<1>9. WaysNotShared' BY DEF IInv, WaysNotShared
<1>10. HeldInv' BY <1>2 DEF IInv, HeldInv, OwnHeld
<1>11. UsedInv' BY <1>1, <1>2 DEF IInv, UsedInv, AtHand, InHand
<1> QED BY <1>4, <1>5, <1>6, <1>7, <1>8, <1>9, <1>10, <1>11 DEF IInv

----------------------------------------------------------------------------
(* The steps of the boot and of a core that has no task                    *)
LEMMA IdleHoldsNothing ==
    ASSUME NEW c \in Core, Idle(c)
    PROVE  ~Loading(c) /\ ~Current(c) /\ ~Evicting(c) /\ ~JobIs(c, "victim") /\ ~JobIs(c, "evict")
           /\ pc[c] \notin {"preload", "run", "owner", "getway"} /\ \A i, p : ~Holds(c, i, p)
BY DEF Idle, Booting, Loading, Current, Evicting, JobIs, Holds

LEMMA AllIdle ==
    ASSUME IInv, \A c \in Core : Idle(c), (\A c \in Core : Idle(c))', WayTypes', StatesInv',
           active' = active, \A w \in Way : Kept(w)
    PROVE  IInv'
<1>1. \A w \in Way : ~mCacheWays[w].inUse
  BY IdleHoldsNothing DEF IInv, UsedInv, AtHand, InHand
<1>2. ASSUME NEW c \in Core
      PROVE  (/\ ~Loading(c) /\ ~Current(c) /\ ~Evicting(c) /\ ~JobIs(c, "victim") /\ ~JobIs(c, "evict")
              /\ pc[c] \notin {"preload", "run", "owner", "getway"} /\ \A i, p : ~Holds(c, i, p))'
  BY DEF Idle, Booting, Loading, Current, Evicting, JobIs, Holds
<1>3. TasksInv'
  <2>1. TasksInv BY DEF IInv
  <2> QED BY <1>2, <2>1 DEF TasksInv
<1>4. LabelsInv'
  <2>1. LabelsInv BY DEF IInv
  <2> QED BY <2>1 DEF LabelsInv, Kept
<1>5. (\A c \in Core : AtWay(c))' BY <1>2 DEF AtWay
<1>6. WaysNotShared'
  <2>1. \A c \in Core : AtWork(c)' => Booting(c)'
    BY <1>2 DEF AtWork, Idle, Booting
  <2>2. \A c, d \in Core : c # d /\ Booting(c)' => ~AtWork(d)'
    BY DEF StatesInv, AtWork
  <2> QED BY <2>1, <2>2 DEF WaysNotShared, AtWork
<1>7. HeldInv' BY <1>2 DEF HeldInv, OwnHeld
<1>8. UsedInv' BY <1>1 DEF UsedInv, Kept
<1> QED BY <1>3, <1>4, <1>5, <1>6, <1>7, <1>8 DEF IInv

(* What is at the end of each of the jobs.                                 *)
LEMMA Ends ==
    ASSUME WayTypes, NEW c \in Core, EndJob(c)
    PROVE  /\ pc[c] = "job"
           /\ job' = [job EXCEPT ![c] = Nil] /\ active' = active /\ at' = at
           /\ job[c] = "load" =>
                 /\ pc' = [pc EXCEPT ![c] = "label"]
                 /\ UNCHANGED <<mCacheWays, mLock, way, oscStart>>
           /\ job[c] = "critical" =>
                 /\ pc' = [pc EXCEPT ![c] = "critical"] /\ way' = [way EXCEPT ![c] = @ + 1]
                 /\ oscStart' = [oscStart EXCEPT ![c] = JobEnd(c)] /\ mLock' = mLock
                 /\ mCacheWays' = [mCacheWays EXCEPT ![way[c]].permanentLocked = TRUE]
           /\ job[c] = "victim" =>
                 /\ pc' = [pc EXCEPT ![c] = "check"] /\ mLock' = Nil
                 /\ mCacheWays' = [mCacheWays EXCEPT ![way[c]] = Taken(@)]
                 /\ UNCHANGED <<way, oscStart>>
           /\ job[c] = "evict" =>
                 /\ pc' = [pc EXCEPT ![c] = "evict"] /\ way' = [way EXCEPT ![c] = @ + 1]
                 /\ UNCHANGED <<mCacheWays, mLock, oscStart>>
<1>1. CASE job[c] = "load" BY <1>1 DEF EndJob, Goto
<1>2. CASE job[c] = "critical" BY <1>2 DEF EndJob, Goto
<1>3. CASE job[c] = "victim" BY <1>3 DEF EndJob, Goto
<1>4. CASE job[c] = "evict" BY <1>4 DEF EndJob, Goto
<1> QED BY <1>1, <1>2, <1>3, <1>4 DEF EndJob

LEMMA BootSteps ==
    ASSUME IInv, NEW c \in Core, Booting(c),
           InitPrimary \/ PreloadCriticalData \/ StartSecondaries \/ EndJob(c)
    PROVE  IInv' /\ \A d \in Core : Idle(d) /\ Idle(d)'
<1>1. /\ WayTypes /\ StatesInv /\ c = 0 /\ (\A d \in Core : d # 0 => pc[d] = "off") /\ 0 \in Core
  BY DEF IInv, StatesInv
<1>2. \A d \in Core : Idle(d) BY <1>1 DEF Idle
<1>3. /\ active' = active
      /\ \/ mCacheWays' = mCacheWays
         \/ mCacheWays' = [mCacheWays EXCEPT ![way[0]].permanentLocked = TRUE]
      /\ pc' = [d \in Core |-> pc'[d]] /\ job' = [d \in Core |-> job'[d]]
      /\ way' = [d \in Core |-> way'[d]] /\ at' = at
      /\ oscStart' = [d \in Core |-> oscStart'[d]]
      /\ \/ /\ pc'[0] = "critical" \/ (pc'[0] = "job" /\ job'[0] = "critical")
            /\ \A d \in Core : d # 0 => pc'[d] = "off"
         \/ pc'[0] = "idle" /\ \A d \in Core : d # 0 => pc'[d] = "start"
  <2>1. CASE InitPrimary BY <1>1, <2>1 DEF InitPrimary, WayTypes, wayVars, Goto
  <2>2. CASE PreloadCriticalData
    BY <1>1, <2>2 DEF PreloadCriticalData, WayTypes, wayVars, taskVars, StartJob, Goto
  <2>3. CASE StartSecondaries BY <1>1, <2>3 DEF StartSecondaries, WayTypes, wayVars
  <2>4. CASE EndJob(c)
    <3>1. pc[c] = "job" /\ job[c] = "critical" BY <1>1, <2>4, Ends DEF Booting, JobIs
    <3> QED BY <1>1, <2>4, <3>1, Ends DEF WayTypes
  <2> QED BY <2>1, <2>2, <2>3, <2>4
<1>4. (\A d \in Core : Idle(d))' /\ StatesInv'
  BY <1>1, <1>3 DEF StatesInv, Idle, Booting, JobIs
<1>5. (\A w \in Way : Kept(w)) /\ mCacheWays' \in [Way -> Record]
  <2>1. mCacheWays \in [Way -> Record] BY <1>1 DEF WayTypes
  <2>2. CASE mCacheWays' = mCacheWays BY <2>1, <2>2 DEF Kept
  <2>3. CASE mCacheWays' = [mCacheWays EXCEPT ![way[0]].permanentLocked = TRUE]
    <3>1. CASE way[0] \in Way
      <4> DEFINE r == [mCacheWays[way[0]] EXCEPT !.permanentLocked = TRUE]
      <4>1. mCacheWays[way[0]] \in Record BY <2>1, <3>1
      <4>2. /\ r \in Record /\ r.dataStart = mCacheWays[way[0]].dataStart
            /\ r.inUse = mCacheWays[way[0]].inUse /\ r.osc = mCacheWays[way[0]].osc
        BY <4>1 DEF Record
      <4>3. mCacheWays' = [mCacheWays EXCEPT ![way[0]] = r] BY <2>1, <2>3, <3>1
      <4> HIDE DEF r
      <4> QED BY <2>1, <4>2, <4>3 DEF Kept
    <3>2. CASE way[0] \notin Way
      <4>1. mCacheWays' = mCacheWays BY <2>1, <2>3, <3>2
      <4> QED BY <2>1, <4>1 DEF Kept
    <3> QED BY <3>1, <3>2
  <2> QED BY <1>3, <2>2, <2>3
<1>6. WayTypes' BY <1>1, <1>3, <1>5 DEF WayTypes
<1>7. IInv' BY <1>2, <1>3, <1>4, <1>5, <1>6, AllIdle
<1> QED BY <1>2, <1>4, <1>7

LEMMA NoBoot ==
    ASSUME IInv, NEW c \in Core, ~Booting(c), pc[c] # "off"
    PROVE  \A d \in Core : ~Booting(d)
BY DEF IInv, StatesInv

----------------------------------------------------------------------------
(* The steps that leave the ways as they are                               *)
LEMMA OwnTask ==
    ASSUME IInv, NEW c \in Core
    PROVE  /\ TaskOf(c) /\ WayTypes /\ AtWay(c)
           /\ Idle(c) \/ pc[c] \in {"preload", "run"} \/ Loading(c) \/ Evicting(c)
           /\ ~Idle(c) => Osc(c) \in Component
           /\ Loading(c) => ~Idle(c) /\ oscStart[c] \in Nat \ {0}
<1>1. TasksInv BY DEF IInv
<1>2. TaskOf(c) BY <1>1 DEF TasksInv, TaskOf
<1>3. ~Idle(c) => Osc(c) \in Component BY <1>1, TaskFacts
<1>4. Loading(c) => ~Idle(c) BY DEF Loading, Idle, Booting, JobIs
<1>5. Loading(c) => oscStart[c] \in Nat \ {0} BY <1>2, <1>3, <1>4, PartsFacts DEF TaskOf
<1>6. Idle(c) \/ pc[c] \in {"preload", "run"} \/ Loading(c) \/ Evicting(c)
  BY DEF IInv, StatesInv
<1> QED BY <1>2, <1>3, <1>4, <1>5, <1>6 DEF IInv

LEMMA KeptStep ==
    ASSUME IInv, NEW c \in Core, Others(c), pc[c] # "off", ~Booting(c)', WayTypes',
           \A w \in Way : Kept(w), mLock' = mLock \/ mLock \in {Nil, c}, active' = active, TaskOf(c)', AtWay(c)',
           Idle(c)' \/ pc'[c] \in {"preload", "run"} \/ Loading(c)' \/ Evicting(c)',
           AtWork(c)' => \/ AtWork(c) /\ way'[c] = way[c]
                         \/ \A d \in Core : d # c /\ AtWork(d) => way[d] # way'[c],
           \A w \in Way : AtHand(c, w) => AtHand(c, w)' /\ oscStart'[c] = oscStart[c],
           \A i \in 1 .. Len(active[c]), p \in Nat : Holds(c, i, p)' <=> Holds(c, i, p)
    PROVE  IInv' /\ OwnChanges(c) /\ NoneLost(c)
<1>1. OwnChanges(c) BY DEF OwnChanges, Kept
<1>2. StatesInv' BY StatesStep
<1>3. TasksInv' BY TasksStep
<1>4. WaysNotShared' BY SharedStep
<1>5. OwnHeld(c)'
  <2> SUFFICES ASSUME NEW i \in 1 .. Len(active[c]), NEW p \in Nat, Holds(c, i, p)
               PROVE  \E x \in Way : /\ mCacheWays'[x].dataStart = p /\ mCacheWays'[x].inUse
                                     /\ mCacheWays'[x].osc = active[c][i]
    BY DEF OwnHeld
  <2>1. PICK x \in Way : /\ mCacheWays[x].dataStart = p /\ mCacheWays[x].inUse
                         /\ mCacheWays[x].osc = active[c][i]
    BY DEF IInv, HeldInv, OwnHeld
  <2> QED BY <2>1 DEF Kept
<1>6. \A w \in Way : StillHeld(c, w)
  <2> SUFFICES ASSUME NEW w \in Way, AtHand(c, w) \/ InHand(c, w)
               PROVE  AtHand(c, w)' \/ InHand(c, w)'
    BY DEF StillHeld, Kept
  <2>1. CASE AtHand(c, w) BY <2>1
  <2>2. CASE InHand(c, w) BY <2>2 DEF InHand, Kept
  <2> QED BY <2>1, <2>2
<1>7. NoneLost(c) BY DEF NoneLost, Kept
<1> QED BY <1>1, <1>2, <1>3, <1>4, <1>5, <1>6, <1>7, StepInv

LEMMA QuietStep ==
    ASSUME IInv, NEW c \in Core, Others(c), pc[c] # "off", ~Booting(c)', WayTypes',
           mCacheWays' = mCacheWays, mLock' = mLock, active' = active, TaskOf(c)', AtWay(c)',
           Idle(c)' \/ pc'[c] \in {"preload", "run"} \/ Loading(c)' \/ Evicting(c)',
           AtWork(c)' => \/ AtWork(c) /\ way'[c] = way[c]
                         \/ \A d \in Core : d # c /\ AtWork(d) => way[d] # way'[c],
           \A w \in Way : AtHand(c, w) => AtHand(c, w)' /\ oscStart'[c] = oscStart[c],
           \A i \in 1 .. Len(active[c]), p \in Nat : Holds(c, i, p)' <=> Holds(c, i, p)
    PROVE  IInv' /\ OwnChanges(c) /\ NoneLost(c)
<1>1. \A w \in Way : Kept(w) BY DEF Kept
<1> QED BY <1>1, KeptStep

(* A way with a label of a component is nobody else's, but for a victim.   *)
LEMMA NotAnothers ==
    ASSUME IInv, NEW c \in Core, ~Idle(c), NEW d \in Core, d # c, AtWork(d)
    PROVE  /\ mCacheWays[way[d]].dataStart \in Owned(Osc(c)) => JobIs(d, "victim")
           /\ JobIs(d, "victim") => mLock = d
           /\ JobIs(d, "victim") \/ (way[d] \in Way /\ mCacheWays[way[d]].inUse)
<1>1. TaskOf(d) /\ AtWay(d) /\ WayTypes /\ TasksInv BY OwnTask DEF IInv
<1>2. Current(d) \/ JobIs(d, "victim") \/ JobIs(d, "evict")
  <2>1. ~Booting(d) /\ (Idle(d) \/ pc[d] \in {"preload", "run"} \/ Loading(d) \/ Evicting(d))
    BY DEF IInv, StatesInv, Idle
  <2> QED BY <2>1 DEF AtWork, Current, JobIs, Idle, Loading, Evicting
<1>3. ~Idle(d) BY <1>2 DEF Current, JobIs, Idle, Booting
<1>4. Osc(c) \in Component /\ Osc(d) \in Component /\ Osc(c) # Osc(d)
  BY <1>1, <1>3, TaskFacts, TasksApart
<1>5. ASSUME Current(d), mCacheWays[way[d]].dataStart \in Owned(Osc(c)) PROVE FALSE
  <2>1. mCacheWays[way[d]].dataStart \in {0, oscStart[d]} BY <1>1, <1>5 DEF AtWay
  <2>2. 0 \notin Owned(Osc(c)) BY <1>4, CacheAssumption, PageTableAssumption DEF Core
  <2>3. oscStart[d] \in Parts(Osc(d)) BY <1>1, <1>5 DEF TaskOf, Current, Loading
  <2> QED BY <1>4, <1>5, <2>1, <2>2, <2>3, PartsFacts
<1>6. ASSUME JobIs(d, "evict"), mCacheWays[way[d]].dataStart \in Owned(Osc(c)) PROVE FALSE
  BY <1>1, <1>4, <1>6, PartsFacts DEF AtWay
<1> QED BY <1>1, <1>2, <1>5, <1>6 DEF AtWay

LEMMA InitSecondaryStep ==
    ASSUME IInv, NEW c \in Core, InitSecondary(c)
    PROVE  IInv' /\ OwnChanges(c) /\ NoneLost(c)
<1>1. /\ pc[c] = "start" /\ pc' = [pc EXCEPT ![c] = "idle"] /\ mCacheWays' = mCacheWays
      /\ UNCHANGED <<mLock, job, way, active, at, oscStart>>
  BY DEF InitSecondary, Goto, wayVars, taskVars
<1>2. WayTypes /\ TaskOf(c) BY OwnTask
<1>3. Others(c) /\ WayTypes' BY <1>1, <1>2 DEF Others, WayTypes
<1>4. pc'[c] = "idle" /\ Idle(c) /\ Idle(c)' BY <1>1, <1>2 DEF WayTypes, Idle
<1>5. /\ ~Booting(c)' /\ ~AtWork(c)' /\ AtWay(c)'
      /\ \A w : ~AtHand(c, w)
      /\ \A i, p : ~Holds(c, i, p) /\ ~Holds(c, i, p)'
  BY <1>1, <1>4 DEF Booting, JobIs, AtWork, AtWay, AtHand, Current, Holds, Loading, Evicting
<1>6. TaskOf(c)' BY <1>1, <1>2, <1>4 DEF TaskOf, Loading, JobIs
<1> QED BY <1>1, <1>3, <1>4, <1>5, <1>6, QuietStep

LEMMA PreloadSingleOSCStep ==
    ASSUME IInv, NEW c \in Core, PreloadSingleOSC(c)
    PROVE  IInv' /\ OwnChanges(c) /\ NoneLost(c)
<1>1. /\ pc[c] = "preload" /\ pc' = [pc EXCEPT ![c] = "getway"] /\ mCacheWays' = mCacheWays
      /\ oscStart' = [oscStart EXCEPT ![c] = Start[Osc(c)]]
      /\ UNCHANGED <<mLock, job, way, active, at>>
  BY DEF PreloadSingleOSC, Goto, wayVars, taskVars
<1>2. WayTypes /\ TaskOf(c) BY OwnTask
<1>3. Others(c) /\ WayTypes' BY <1>1, <1>2 DEF Others, WayTypes
<1>4. /\ pc'[c] = "getway" /\ oscStart'[c] = Start[Osc(c)] /\ Osc(c)' = Osc(c)
      /\ ~Idle(c) /\ ~Idle(c)' /\ Loading(c)'
  BY <1>1, <1>2 DEF WayTypes, Osc, Idle, Booting, JobIs, Loading
<1>5. Osc(c) \in Component BY <1>4, OwnTask
<1>6. ~Booting(c)' /\ ~AtWork(c)' /\ AtWay(c)' /\ \A w : ~AtHand(c, w)
  BY <1>1, <1>4 DEF Booting, JobIs, AtWork, AtWay, AtHand, Current
<1>7. TaskOf(c)' BY <1>1, <1>2, <1>4, <1>5, PartsFacts DEF TaskOf
<1>8. \A p \in Parts(Osc(c)) : ~(p < Start[Osc(c)])
  BY <1>5, PartsFacts
<1>9. ASSUME NEW i \in 1 .. Len(active[c]), NEW p \in Nat
      PROVE  Holds(c, i, p)' <=> Holds(c, i, p)
  BY <1>1, <1>4, <1>8 DEF Holds, Loading, Evicting, JobIs, Osc
<1> QED BY <1>1, <1>3, <1>4, <1>6, <1>7, <1>9, QuietStep

LEMMA AbortStep ==
    ASSUME IInv, NEW c \in Core, Abort(c)
    PROVE  IInv' /\ OwnChanges(c) /\ NoneLost(c)
<1>1. /\ pc[c] = "getway" /\ pc' = [pc EXCEPT ![c] = "hung"] /\ mCacheWays' = mCacheWays
      /\ UNCHANGED <<mLock, job, way, active, at, oscStart>>
  BY DEF Abort, Goto, wayVars, taskVars
<1>2. WayTypes /\ TaskOf(c) BY OwnTask
<1>3. Others(c) /\ WayTypes' BY <1>1, <1>2 DEF Others, WayTypes
<1>4. pc'[c] = "hung" /\ Osc(c)' = Osc(c) /\ ~Idle(c) /\ ~Idle(c)' /\ Loading(c) /\ Loading(c)'
  BY <1>1, <1>2 DEF WayTypes, Osc, Idle, Booting, JobIs, Loading
<1>5. ~Booting(c)' /\ ~AtWork(c)' /\ AtWay(c)' /\ \A w : ~AtHand(c, w)
  BY <1>1, <1>4 DEF Booting, JobIs, AtWork, AtWay, AtHand, Current
<1>6. TaskOf(c)' BY <1>1, <1>2, <1>4 DEF TaskOf
<1>7. ASSUME NEW i \in 1 .. Len(active[c]), NEW p \in Nat
      PROVE  Holds(c, i, p)' <=> Holds(c, i, p)
  BY <1>1, <1>4 DEF Holds, Evicting, JobIs
<1> QED BY <1>1, <1>3, <1>4, <1>5, <1>6, <1>7, QuietStep

LEMMA NextTaskStep ==
    ASSUME IInv, NEW c \in Core, NEW t \in Tasks, NextTask(c, t)
    PROVE  IInv' /\ OwnChanges(c) /\ NoneLost(c)
<1>1. /\ pc[c] = "idle" /\ pc' = [pc EXCEPT ![c] = "preload"] /\ mCacheWays' = mCacheWays
      /\ active' = [active EXCEPT ![c] = t] /\ at' = [at EXCEPT ![c] = 1]
      /\ \A d \in Core : ToSet(active[d]) \cap ToSet(t) = {}
      /\ UNCHANGED <<mLock, job, way, oscStart>>
  BY DEF NextTask, Goto, wayVars
<1>2. WayTypes /\ TasksInv BY DEF IInv
<1>3. Others(c) /\ WayTypes' BY <1>1, <1>2 DEF Others, WayTypes
<1>4. pc'[c] = "preload" /\ active'[c] = t /\ at'[c] = 1 /\ 1 \in 1 .. Len(t)
  <2>1. t \in Seq(Component) /\ t # <<>> BY CacheAssumption
  <2>2. Len(t) \in Nat \ {0} BY <2>1
  <2> QED BY <1>1, <1>2, <2>2 DEF WayTypes
<1>5. /\ ~Idle(c)' /\ ~Booting(c)' /\ ~Loading(c)' /\ ~AtWork(c)' /\ AtWay(c)'
      /\ \A w : ~AtHand(c, w)
  BY <1>1, <1>4 DEF Idle, Booting, JobIs, Loading, AtWork, AtWay, AtHand, Current
<1>6. /\ \A i, p : ~Holds(c, i, p)
      /\ \A i \in 1 .. Len(active'[c]) : \A p : ~Holds(c, i, p)'
  BY <1>1, <1>4 DEF Holds, Loading, Evicting, JobIs
<1>7. OwnChanges(c) /\ \A w \in Way : StillHeld(c, w)
  BY <1>1, <1>3, <1>5, <1>6 DEF OwnChanges, Kept, StillHeld, InHand
<1>8. StatesInv' BY <1>1, <1>3, <1>4, <1>5, StatesStep
<1>9. TasksInv'
  <2>1. \A d \in Core : d # c => /\ Idle(d)' = Idle(d) /\ Loading(d)' = Loading(d) /\ Osc(d)' = Osc(d)
                                 /\ active'[d] = active[d] /\ at'[d] = at[d]
                                 /\ oscStart'[d] = oscStart[d]
    BY <1>3, OthersSame DEF Others
  <2>2. ASSUME NEW d \in Core
        PROVE  IF Idle(d)' THEN active'[d] = <<>>
               ELSE active'[d] \in Tasks /\ at'[d] \in 1 .. Len(active'[d])
    BY <1>2, <1>4, <1>5, <2>1 DEF TasksInv
  <2>3. ASSUME NEW d \in Core, Loading(d)' PROVE oscStart'[d] \in Parts(Osc(d)')
    BY <1>2, <1>5, <2>1, <2>3 DEF TasksInv
  <2>4. ASSUME NEW d \in Core, NEW e \in Core, d # e
        PROVE  ToSet(active'[d]) \cap ToSet(active'[e]) = {}
    BY <1>1, <1>2, <1>4, <2>1, <2>4 DEF TasksInv
  <2> QED BY <2>2, <2>3, <2>4 DEF TasksInv, Parts, Owned
<1>10. OwnHeld(c)' BY <1>6 DEF OwnHeld
<1>11. WaysNotShared' BY <1>3, <1>5, SharedStep
<1>12. NoneLost(c) BY <1>1, <1>5, <1>6 DEF NoneLost
<1> QED BY <1>3, <1>5, <1>7, <1>8, <1>9, <1>10, <1>11, <1>12, StepInv

LEMMA FinishTaskStep ==
    ASSUME IInv, NEW c \in Core, FinishTask(c)
    PROVE  IInv' /\ OwnChanges(c) /\ NoneLost(c)
<1>1. /\ pc[c] = "run" /\ pc' = [pc EXCEPT ![c] = "evict"] /\ mCacheWays' = mCacheWays
      /\ at' = [at EXCEPT ![c] = 1] /\ way' = [way EXCEPT ![c] = 0]
      /\ UNCHANGED <<mLock, job, active, oscStart>>
  BY DEF FinishTask, Goto, wayVars
<1>2. WayTypes /\ TaskOf(c) BY OwnTask
<1>3. Others(c) /\ WayTypes' BY <1>1, <1>2 DEF Others, WayTypes
<1>4. /\ pc'[c] = "evict" /\ at'[c] = 1 /\ ~Idle(c) /\ ~Idle(c)' /\ ~Loading(c)' /\ Evicting(c)'
  BY <1>1, <1>2 DEF WayTypes, Idle, Booting, JobIs, Loading, Evicting
<1>5. ~Booting(c)' /\ ~AtWork(c)' /\ AtWay(c)' /\ \A w : ~AtHand(c, w)
  BY <1>1, <1>4 DEF Booting, JobIs, AtWork, AtWay, AtHand, Current
<1>6. TaskOf(c)' BY <1>1, <1>2, <1>4 DEF TaskOf
<1>7. ASSUME NEW i \in 1 .. Len(active[c]), NEW p \in Nat
      PROVE  Holds(c, i, p)' <=> Holds(c, i, p)
  BY <1>1, <1>4 DEF Holds
<1> QED BY <1>1, <1>3, <1>4, <1>5, <1>6, <1>7, QuietStep

LEMMA LoadPartStep ==
    ASSUME IInv, NEW c \in Core, LoadPart(c)
    PROVE  IInv' /\ OwnChanges(c) /\ NoneLost(c)
<1>1. /\ pc[c] = "check" /\ mCacheWays' = mCacheWays
      /\ \/ pc' = [pc EXCEPT ![c] = "label"] /\ job' = job /\ way' = way
         \/ /\ pc' = [pc EXCEPT ![c] = "job"] /\ job' = [job EXCEPT ![c] = "load"]
            /\ way' = [way EXCEPT ![c] = way[c]]
      /\ UNCHANGED <<mLock, active, at, oscStart>>
  BY DEF LoadPart, StartJob, Goto, wayVars
<1>2. WayTypes /\ TaskOf(c) /\ AtWay(c) BY OwnTask
<1>3. way' = way BY <1>1, <1>2 DEF WayTypes
<1>4. Others(c) /\ WayTypes' BY <1>1, <1>2, <1>3 DEF Others, WayTypes
<1>5. /\ pc'[c] = "label" \/ (pc'[c] = "job" /\ job'[c] = "load")
      /\ Osc(c)' = Osc(c) /\ Labelled(oscStart[c])' = Labelled(oscStart[c])
  BY <1>1, <1>2 DEF WayTypes, Osc, Labelled
<1>6. /\ ~Idle(c) /\ ~Idle(c)' /\ ~Booting(c)' /\ Loading(c) /\ Loading(c)' /\ Current(c) /\ Current(c)'
      /\ AtWork(c) /\ ~JobIs(c, "victim")' /\ ~JobIs(c, "evict")' /\ pc'[c] # "owner"
  BY <1>1, <1>5 DEF Idle, Booting, JobIs, Loading, Current, AtWork
<1>7. AtWay(c)'
  BY <1>1, <1>2, <1>3, <1>5, <1>6 DEF AtWay
<1>8. \A w \in Way : AtHand(c, w) => AtHand(c, w)' /\ oscStart'[c] = oscStart[c]
  BY <1>1, <1>3, <1>6 DEF AtHand
<1>9. TaskOf(c)' BY <1>1, <1>2, <1>5, <1>6 DEF TaskOf
<1>10. ASSUME NEW i \in 1 .. Len(active[c]), NEW p \in Nat
       PROVE  Holds(c, i, p)' <=> Holds(c, i, p)
  BY <1>1, <1>5 DEF Holds, Loading, Evicting, JobIs
<1> QED BY <1>1, <1>3, <1>4, <1>6, <1>7, <1>8, <1>9, <1>10, QuietStep

(* The ways of a component that LookupOSC finds are its task's.            *)
LEMMA WaysOfTask ==
    ASSUME IInv, NEW c \in Core, ~Idle(c), NEW w \in Way, mCacheWays[w].dataStart \in Owned(Osc(c)),
           Evicting(c)
    PROVE  /\ mCacheWays[w].dataStart \in Parts(Osc(c)) /\ mCacheWays[w].inUse
           /\ mCacheWays[w].osc = Osc(c)
<1> DEFINE p == mCacheWays[w].dataStart
<1>1. TaskOf(c) /\ WayTypes /\ LabelsInv /\ OwnHeld(c) /\ Osc(c) \in Component
  BY OwnTask DEF IInv, HeldInv
<1>2. p # 0 BY <1>1, CacheAssumption, PageTableAssumption DEF Core
<1>3. p \in Parts(Osc(c)) BY <1>1, <1>2, PartsFacts DEF LabelsInv
<1>4. at[c] \in 1 .. Len(active[c]) /\ p \in Nat BY <1>1, <1>3, PartsFacts DEF TaskOf
<1>5. Holds(c, at[c], p) BY <1>3, <1>4 DEF Holds, Osc
<1>6. PICK x \in Way : mCacheWays[x].dataStart = p /\ mCacheWays[x].inUse
                       /\ mCacheWays[x].osc = active[c][at[c]]
  BY <1>1, <1>4, <1>5 DEF OwnHeld
<1>7. x = w BY <1>1, <1>2, <1>6 DEF LabelsInv
<1> QED BY <1>3, <1>6, <1>7 DEF Osc

LEMMA LookupOSCStep ==
    ASSUME IInv, NEW c \in Core, LookupOSC(c)
    PROVE  IInv' /\ OwnChanges(c) /\ NoneLost(c)
<1> DEFINE rest == {w \in WaysOf(Osc(c)) : w >= way[c]}
<1>1. /\ pc[c] = "evict" /\ mCacheWays' = mCacheWays
      /\ \/ pc' = [pc EXCEPT ![c] = "free"] /\ job' = job /\ way' = way
         \/ /\ rest # {} /\ pc' = [pc EXCEPT ![c] = "job"] /\ job' = [job EXCEPT ![c] = "evict"]
            /\ way' = [way EXCEPT ![c] = Min(rest)]
      /\ UNCHANGED <<mLock, active, at, oscStart>>
  BY DEF LookupOSC, StartJob, Goto, wayVars, taskVars
<1>2. WayTypes /\ TaskOf(c) BY OwnTask
<1>3. Others(c) /\ WayTypes' BY <1>1, <1>2 DEF Others, WayTypes
<1>4. ~Idle(c) /\ Evicting(c) BY <1>1 DEF Idle, Booting, JobIs, Evicting
<1>5. \/ pc'[c] = "free"
      \/ /\ pc'[c] = "job" /\ job'[c] = "evict" /\ way'[c] \in Way
         /\ mCacheWays[way'[c]].dataStart \in Owned(Osc(c))
  <2>1. ASSUME rest # {} PROVE Min(rest) \in rest /\ rest \subseteq Way
    <3>1. rest \in SUBSET (0 .. CacheWayCount - 1) /\ CacheWayCount - 1 \in Nat
      BY CacheAssumption DEF WaysOf, Way
    <3> HIDE DEF rest
    <3> QED BY <2>1, <3>1, Extremes DEF Way
  <2>2. \A w \in rest : mCacheWays[w].dataStart \in Owned(Osc(c)) BY DEF WaysOf
  <2> HIDE DEF rest
  <2> QED BY <1>1, <1>2, <2>1, <2>2 DEF WayTypes
<1>6. /\ ~Idle(c)' /\ ~Booting(c)' /\ ~Loading(c)' /\ ~Current(c)' /\ ~Current(c) /\ Evicting(c)'
      /\ ~JobIs(c, "victim")' /\ pc'[c] # "owner" /\ Osc(c)' = Osc(c)
      /\ JobIs(c, "evict")' => pc'[c] = "job"
  BY <1>1, <1>5 DEF Idle, Booting, JobIs, Loading, Current, Evicting, Osc
<1>7. AtWay(c)'
  <2>1. ASSUME pc'[c] = "job"
        PROVE  /\ way'[c] \in Way /\ mCacheWays[way'[c]].inUse
               /\ mCacheWays[way'[c]].dataStart \in Parts(Osc(c))
    BY <1>4, <1>5, <2>1, WaysOfTask
  <2> QED BY <1>1, <1>6, <2>1 DEF AtWay
<1>8. ASSUME AtWork(c)', NEW d \in Core, d # c, AtWork(d) PROVE way[d] # way'[c]
  <2>1. mCacheWays[way'[c]].dataStart \in Owned(Osc(c)) /\ mCacheWays[way'[c]].inUse
    BY <1>4, <1>5, <1>8, WaysOfTask DEF AtWork
  <2>2. JobIs(d, "victim") => ~mCacheWays[way[d]].inUse BY DEF IInv, AtWay
  <2> QED BY <1>4, <1>8, <2>1, <2>2, NotAnothers
<1>9. TaskOf(c)' BY <1>1, <1>2, <1>4, <1>6 DEF TaskOf
<1>10. ASSUME NEW i \in 1 .. Len(active[c]), NEW p \in Nat
       PROVE  Holds(c, i, p)' <=> Holds(c, i, p)
  BY <1>1, <1>4, <1>5, <1>6 DEF Holds, Loading, JobIs
<1>11. pc[c] # "off" /\ \A w \in Way : ~AtHand(c, w) BY <1>1, <1>6 DEF AtHand
<1> QED BY <1>1, <1>3, <1>6, <1>7, <1>8, <1>9, <1>10, <1>11, QuietStep

LEMMA EndLoadStep ==
    ASSUME IInv, NEW c \in Core, EndJob(c), job[c] = "load"
    PROVE  IInv' /\ OwnChanges(c) /\ NoneLost(c)
<1>1. WayTypes /\ TaskOf(c) /\ AtWay(c) BY OwnTask
<1>2. /\ pc[c] = "job" /\ pc' = [pc EXCEPT ![c] = "label"] /\ job' = [job EXCEPT ![c] = Nil]
      /\ UNCHANGED <<mCacheWays, mLock, way, active, at, oscStart>>
  BY <1>1, Ends
<1>3. Others(c) /\ WayTypes' BY <1>1, <1>2 DEF Others, WayTypes
<1>4. pc'[c] = "label" /\ Osc(c)' = Osc(c) /\ Labelled(oscStart[c])' = Labelled(oscStart[c])
  BY <1>1, <1>2 DEF WayTypes, Osc, Labelled
<1>5. /\ ~Idle(c) /\ ~Idle(c)' /\ ~Booting(c)' /\ Loading(c) /\ Loading(c)' /\ Current(c) /\ Current(c)'
      /\ AtWork(c) /\ ~JobIs(c, "victim")' /\ ~JobIs(c, "evict")' /\ ~Evicting(c) /\ ~Evicting(c)'
  BY <1>2, <1>4 DEF Idle, Booting, JobIs, Loading, Current, AtWork, Evicting
<1>6. AtWay(c)' BY <1>1, <1>2, <1>4, <1>5 DEF AtWay
<1>7. \A w \in Way : AtHand(c, w) => AtHand(c, w)' /\ oscStart'[c] = oscStart[c]
  BY <1>2, <1>5 DEF AtHand
<1>8. TaskOf(c)' BY <1>1, <1>2, <1>4, <1>5 DEF TaskOf
<1>9. ASSUME NEW i \in 1 .. Len(active[c]), NEW p \in Nat
      PROVE  Holds(c, i, p)' <=> Holds(c, i, p)
  BY <1>2, <1>4, <1>5 DEF Holds
<1> QED BY <1>2, <1>3, <1>5, <1>6, <1>7, <1>8, <1>9, QuietStep

LEMMA EndEvictStep ==
    ASSUME IInv, NEW c \in Core, EndJob(c), job[c] = "evict"
    PROVE  IInv' /\ OwnChanges(c) /\ NoneLost(c)
<1>1. WayTypes /\ TaskOf(c) /\ AtWay(c) BY OwnTask
<1>2. /\ pc[c] = "job" /\ pc' = [pc EXCEPT ![c] = "evict"] /\ job' = [job EXCEPT ![c] = Nil]
      /\ way' = [way EXCEPT ![c] = @ + 1]
      /\ UNCHANGED <<mCacheWays, mLock, active, at, oscStart>>
  BY <1>1, Ends
<1>3. Others(c) /\ WayTypes' BY <1>1, <1>2 DEF Others, WayTypes
<1>4. pc'[c] = "evict" BY <1>1, <1>2 DEF WayTypes
<1>5. /\ ~Idle(c) /\ ~Idle(c)' /\ ~Booting(c)' /\ ~Loading(c) /\ ~Loading(c)' /\ ~Current(c) /\ ~Current(c)'
      /\ ~AtWork(c)' /\ ~JobIs(c, "victim")' /\ ~JobIs(c, "evict")' /\ Evicting(c) /\ Evicting(c)'
  BY <1>2, <1>4 DEF Idle, Booting, JobIs, Loading, Current, AtWork, Evicting
<1>6. AtWay(c)' BY <1>4, <1>5 DEF AtWay
<1>7. \A w \in Way : ~AtHand(c, w) BY <1>5 DEF AtHand
<1>8. TaskOf(c)' BY <1>1, <1>2, <1>5 DEF TaskOf
<1>9. ASSUME NEW i \in 1 .. Len(active[c]), NEW p \in Nat
      PROVE  Holds(c, i, p)' <=> Holds(c, i, p)
  BY <1>2, <1>4, <1>5 DEF Holds
<1> QED BY <1>2, <1>3, <1>5, <1>6, <1>7, <1>8, <1>9, QuietStep

----------------------------------------------------------------------------
(* The steps that take a way                                               *)

(* What a way is taken for: nobody has the part, and the way is nobody's.  *)
LEMMA TakeStep ==
    ASSUME IInv, NEW c \in Core, pc[c] = "getway" \/ JobIs(c, "victim"),
           NEW w \in Way, way' = [way EXCEPT ![c] = w], pc' = [pc EXCEPT ![c] = "check"],
           \A d \in Core : d # c => job'[d] = job[d], job' = [d \in Core |-> job'[d]],
           UNCHANGED <<active, at, oscStart>>, mLock \in {Nil, c},
           mLock' \in {mLock, Nil}, ~mCacheWays[w].inUse,
           mCacheWays' \in [Way -> Record], mCacheWays'[w].inUse,
           \A x \in Way : x # w => Kept(x),
           \/ Labelled(oscStart[c]) = {w} /\ mCacheWays'[w].dataStart = mCacheWays[w].dataStart
           \/ Labelled(oscStart[c]) = {} /\ mCacheWays'[w].dataStart = 0,
           \A d \in Core : d # c /\ AtWork(d) => way[d] # w
    PROVE  IInv' /\ OwnChanges(c) /\ NoneLost(c)
<1>1. WayTypes /\ TaskOf(c) BY OwnTask
<1>2. Others(c) /\ WayTypes' /\ pc'[c] = "check" /\ way'[c] = w
  BY <1>1 DEF Others, WayTypes
<1>3. /\ ~Idle(c) /\ ~Idle(c)' /\ ~Booting(c)' /\ Loading(c) /\ Loading(c)' /\ ~Current(c) /\ Current(c)'
      /\ ~JobIs(c, "victim")' /\ ~JobIs(c, "evict")' /\ ~Evicting(c) /\ ~Evicting(c)'
      /\ pc[c] # "off" /\ pc[c] \notin {"run", "preload"} /\ Osc(c)' = Osc(c)
  BY <1>2 DEF Idle, Booting, JobIs, Loading, Current, Evicting, Osc
<1>4. OwnChanges(c)
  <2>1. \A x \in Way : Kept(x) \/ OwnWay(c, x) BY DEF OwnWay
  <2>2. \A x \in Way : mCacheWays'[x].dataStart \in {0, mCacheWays[x].dataStart} BY DEF Kept
  <2> QED BY <1>2, <2>1, <2>2 DEF OwnChanges
<1>5. StatesInv' BY <1>2, <1>3, StatesStep
<1>6. TaskOf(c)' BY <1>1, <1>3 DEF TaskOf
<1>7. TasksInv' BY <1>2, <1>6, TasksStep
<1>8. oscStart[c] # 0 BY <1>3, OwnTask
<1>9. Labelled(oscStart[c])' \subseteq {w} /\ mCacheWays'[w].dataStart \in {0, oscStart[c]}
  BY <1>8 DEF Labelled, Kept
<1>10. AtWay(c)' BY <1>2, <1>3, <1>9 DEF AtWay
<1>11. WaysNotShared' BY <1>2, SharedStep
<1>12. ASSUME NEW i, NEW p PROVE Holds(c, i, p)' <=> Holds(c, i, p)
  BY <1>2, <1>3 DEF Holds
<1>13. OwnHeld(c)'
  <2> SUFFICES ASSUME NEW i \in 1 .. Len(active[c]), NEW p \in Nat, Holds(c, i, p)
               PROVE  \E x \in Way : /\ mCacheWays'[x].dataStart = p /\ mCacheWays'[x].inUse
                                     /\ mCacheWays'[x].osc = active[c][i]
    BY <1>12 DEF OwnHeld
  <2>1. PICK x \in Way : /\ mCacheWays[x].dataStart = p /\ mCacheWays[x].inUse
                         /\ mCacheWays[x].osc = active[c][i]
    BY DEF IInv, HeldInv, OwnHeld
  <2>2. Kept(x) BY <2>1
  <2> QED BY <2>1, <2>2 DEF Kept
<1>14. \A x \in Way : StillHeld(c, x)
  <2> SUFFICES ASSUME NEW x \in Way, mCacheWays'[x].inUse, ~Kept(x) \/ AtHand(c, x) \/ InHand(c, x)
               PROVE  AtHand(c, x)' \/ InHand(c, x)'
    BY DEF StillHeld
  <2>1. CASE x = w BY <1>2, <1>3, <2>1 DEF AtHand
  <2>2. CASE x # w
    <3>1. InHand(c, x) /\ mCacheWays'[x].dataStart = mCacheWays[x].dataStart
      BY <1>3, <2>2 DEF AtHand, Kept
    <3> QED BY <1>12, <3>1 DEF InHand
  <2> QED BY <2>1, <2>2
<1>15. NoneLost(c) BY <1>3, <1>12 DEF NoneLost, Kept, AtHand
<1> QED BY <1>2, <1>4, <1>5, <1>7, <1>10, <1>11, <1>13, <1>14, <1>15, StepInv

LEMMA PartIsFresh ==
    ASSUME IInv, NEW c \in Core, pc[c] = "getway", NEW w \in Way, mCacheWays[w].dataStart = oscStart[c]
    PROVE  ~mCacheWays[w].inUse
<1> SUFFICES ASSUME mCacheWays[w].inUse PROVE FALSE
  OBVIOUS
<1>1. Loading(c) /\ ~Idle(c) /\ ~Current(c) BY DEF Loading, Idle, Booting, JobIs, Current
<1>2. TaskOf(c) /\ TasksInv /\ Osc(c) \in Component /\ oscStart[c] # 0
  BY <1>1, OwnTask DEF IInv
<1>3. oscStart[c] \in Parts(Osc(c)) BY <1>1, <1>2 DEF TaskOf
<1>4. PICK d \in Core : AtHand(d, w) \/ InHand(d, w) BY DEF IInv, UsedInv
<1>5. CASE AtHand(d, w)
  <2>1. d # c BY <1>1, <1>5 DEF AtHand
  <2>2. Loading(d) /\ ~Idle(d) BY <1>5 DEF AtHand, Current, Loading, Idle, Booting, JobIs
  <2>3. AtWay(d) /\ TaskOf(d) /\ Osc(d) \in Component BY <2>2, OwnTask
  <2>4. oscStart[d] = oscStart[c] BY <1>2, <1>5, <2>3 DEF AtHand, AtWay
  <2>5. oscStart[c] \in Parts(Osc(d)) BY <2>2, <2>3, <2>4 DEF TaskOf
  <2> QED BY <1>1, <1>2, <1>3, <2>1, <2>2, <2>3, <2>5, PartsFacts, TasksApart
<1>6. CASE InHand(d, w)
  <2>1. PICK i \in 1 .. Len(active[d]) : Holds(d, i, oscStart[c]) BY <1>6 DEF InHand
  <2>2. oscStart[c] \in Parts(active[d][i]) /\ active[d][i] \in Component
    BY <1>2, <2>1, TaskFacts DEF Holds
  <2>3. active[d][i] = Osc(c) BY <1>2, <1>3, <2>2, PartsFacts
  <2>4. d = c BY <1>1, <1>2, <2>3, TasksApart
  <2>5. i < at[c]
    <3>1. ~(oscStart[c] < oscStart[c]) BY <1>2, <1>3, PartsFacts
    <3> QED BY <2>1, <2>4, <3>1 DEF Holds, Loading, Evicting, JobIs
  <2>6. i = at[c] BY <1>1, <1>2, <2>3, <2>4, TaskFacts DEF Osc
  <2>7. at[c] \in Nat BY <1>1, <1>2, TaskFacts
  <2> QED BY <2>5, <2>6, <2>7
<1> QED BY <1>4, <1>5, <1>6

LEMMA WaysInOrder ==
    ASSUME NEW S \in SUBSET Way, S # {}
    PROVE  Min(S) \in S /\ Max(S) \in S
<1>1. S \in SUBSET (0 .. CacheWayCount - 1) /\ CacheWayCount - 1 \in Nat
  BY CacheAssumption DEF Way
<1> QED BY <1>1, Extremes

LEMMA Counters == LruMax \in Nat /\ 0 \in 0 .. LruMax
BY CacheAssumption

LEMMA FoundStep ==
    ASSUME IInv, NEW c \in Core, NEW w \in Way, Found(c, w)
    PROVE  IInv' /\ OwnChanges(c) /\ NoneLost(c)
<1> DEFINE r == [mCacheWays[w] EXCEPT !.lruCount = 0, !.inUse = TRUE]
<1>1. /\ pc[c] = "getway" /\ mLock = Nil /\ mLock' = mLock
      /\ Labelled(oscStart[c]) # {} /\ w = Min(Labelled(oscStart[c]))
      /\ mCacheWays' = [mCacheWays EXCEPT ![w].lruCount = 0, ![w].inUse = TRUE]
      /\ way' = [way EXCEPT ![c] = w] /\ pc' = [pc EXCEPT ![c] = "check"]
      /\ UNCHANGED <<job, active, at, oscStart>>
  BY DEF Found, Goto, taskVars
<1>2. WayTypes /\ LabelsInv BY DEF IInv
<1>3. w \in Labelled(oscStart[c])
  <2>1. Labelled(oscStart[c]) \subseteq Way BY DEF Labelled
  <2> QED BY <1>1, <2>1, WaysInOrder
<1>4. oscStart[c] # 0
  <2>1. Loading(c) BY <1>1 DEF Loading
  <2> QED BY <2>1, OwnTask
<1>5. Labelled(oscStart[c]) = {w} BY <1>2, <1>3, <1>4 DEF LabelsInv, Labelled
<1>6. ~mCacheWays[w].inUse BY <1>1, <1>3, PartIsFresh DEF Labelled
<1>7. mCacheWays[w] \in Record BY <1>2 DEF WayTypes
<1>8. r \in Record /\ r.inUse /\ r.dataStart = mCacheWays[w].dataStart
  BY <1>7, Counters DEF Record
<1>9. mCacheWays' = [mCacheWays EXCEPT ![w] = r] BY <1>1, <1>2 DEF WayTypes
<1> HIDE DEF r
<1>10. /\ mCacheWays' \in [Way -> Record] /\ mCacheWays'[w].inUse
       /\ mCacheWays'[w].dataStart = mCacheWays[w].dataStart /\ \A x \in Way : x # w => Kept(x)
  BY <1>2, <1>8, <1>9 DEF WayTypes, Kept
<1>11. \A d \in Core : d # c /\ AtWork(d) => way[d] # w
  <2>1. ~Idle(c) BY <1>1 DEF Idle, Booting, JobIs
  <2>2. Nil \notin Core BY PageTableAssumption DEF Core
  <2> QED BY <1>1, <1>6, <2>1, <2>2, NotAnothers
<1>12. job' = [d \in Core |-> job'[d]] /\ \A d \in Core : d # c => job'[d] = job[d]
  BY <1>1, <1>2 DEF WayTypes
<1>13. /\ mLock \in {Nil, c} /\ mLock' \in {mLock, Nil} /\ UNCHANGED <<active, at, oscStart>>
       /\ pc[c] = "getway" \/ JobIs(c, "victim")
       /\ way' = [way EXCEPT ![c] = w] /\ pc' = [pc EXCEPT ![c] = "check"]
  BY <1>1
<1>14. \/ Labelled(oscStart[c]) = {w} /\ mCacheWays'[w].dataStart = mCacheWays[w].dataStart
       \/ Labelled(oscStart[c]) = {} /\ mCacheWays'[w].dataStart = 0
  BY <1>5, <1>10
<1> QED BY <1>6, <1>10, <1>11, <1>12, <1>13, <1>14, TakeStep

LEMMA AgedFacts ==
    ASSUME WayTypes
    PROVE  /\ Aged \in [Way -> Record]
           /\ \A x \in Way : /\ Aged[x].dataStart = mCacheWays[x].dataStart
                             /\ Aged[x].dataEnd = mCacheWays[x].dataEnd
                             /\ Aged[x].inUse = mCacheWays[x].inUse
                             /\ Aged[x].osc = mCacheWays[x].osc
<1> SUFFICES ASSUME NEW x \in Way
             PROVE  /\ Aged[x] \in Record /\ Aged[x].dataStart = mCacheWays[x].dataStart
                    /\ Aged[x].dataEnd = mCacheWays[x].dataEnd
                    /\ Aged[x].inUse = mCacheWays[x].inUse /\ Aged[x].osc = mCacheWays[x].osc
  BY DEF Aged
<1> DEFINE r == [mCacheWays[x] EXCEPT !.lruCount = @ + 1]
<1>1. mCacheWays[x] \in Record BY DEF WayTypes
<1>2. mCacheWays[x].lruCount # LruMax =>
        /\ r \in Record /\ r.dataStart = mCacheWays[x].dataStart
        /\ r.dataEnd = mCacheWays[x].dataEnd
        /\ r.inUse = mCacheWays[x].inUse /\ r.osc = mCacheWays[x].osc
  BY <1>1, Counters DEF Record
<1>3. Aged[x] = mCacheWays[x] \/ (mCacheWays[x].lruCount # LruMax /\ Aged[x] = r) BY DEF Aged
<1> HIDE DEF r
<1> QED BY <1>1, <1>2, <1>3

LEMMA TakenFacts ==
    ASSUME NEW r \in Record
    PROVE  Taken(r) \in Record /\ Taken(r).inUse /\ Taken(r).dataStart = 0
BY Counters DEF Taken, Record

LEMMA FreeWayStep ==
    ASSUME IInv, NEW c \in Core, NEW w \in Way, FreeWay(c, w)
    PROVE  IInv' /\ OwnChanges(c) /\ NoneLost(c)
<1>1. /\ pc[c] = "getway" /\ mLock = Nil /\ mLock' = mLock
      /\ Labelled(oscStart[c]) = {} /\ Free # {} /\ w = Min(Free)
      /\ mCacheWays' = [Aged EXCEPT ![w] = Taken(Aged[w])]
      /\ way' = [way EXCEPT ![c] = w] /\ pc' = [pc EXCEPT ![c] = "check"]
      /\ UNCHANGED <<job, active, at, oscStart>>
  BY DEF FreeWay, Goto, taskVars
<1>2. WayTypes /\ Aged \in [Way -> Record] BY AgedFacts DEF IInv
<1>3. w \in Free
  <2>1. Free \subseteq Way BY DEF Free, Eligible
  <2> QED BY <1>1, <2>1, WaysInOrder
<1>4. ~mCacheWays[w].inUse BY <1>3 DEF Free, Eligible, Unused
<1>5. /\ mCacheWays' \in [Way -> Record] /\ mCacheWays'[w].inUse
      /\ mCacheWays'[w].dataStart = 0
  <2>1. Aged[w] \in Record BY <1>2
  <2>2. Taken(Aged[w]) \in Record /\ Taken(Aged[w]).inUse /\ Taken(Aged[w]).dataStart = 0
    BY <2>1, TakenFacts
  <2> QED BY <1>1, <1>2, <2>2
<1>6. \A x \in Way : x # w => Kept(x)
  <2> SUFFICES ASSUME NEW x \in Way, x # w PROVE Kept(x)
    OBVIOUS
  <2>1. mCacheWays'[x] = Aged[x] BY <1>1, <1>2
  <2> QED BY <1>2, <2>1, AgedFacts DEF Kept
<1>7. \A d \in Core : d # c /\ AtWork(d) => way[d] # w
  <2>1. ~Idle(c) BY <1>1 DEF Idle, Booting, JobIs
  <2>2. Nil \notin Core BY PageTableAssumption DEF Core
  <2> QED BY <1>1, <1>4, <2>1, <2>2, NotAnothers
<1>8. job' = [d \in Core |-> job'[d]] /\ \A d \in Core : d # c => job'[d] = job[d]
  BY <1>1, <1>2 DEF WayTypes
<1> QED BY <1>1, <1>4, <1>5, <1>6, <1>7, <1>8, TakeStep

LEMMA EndVictimStep ==
    ASSUME IInv, NEW c \in Core, EndJob(c), job[c] = "victim"
    PROVE  IInv' /\ OwnChanges(c) /\ NoneLost(c)
<1> DEFINE w == way[c]
<1>1. WayTypes /\ AtWay(c) BY OwnTask
<1>2. /\ pc[c] = "job" /\ pc' = [pc EXCEPT ![c] = "check"] /\ job' = [job EXCEPT ![c] = Nil]
      /\ mLock' = Nil /\ mCacheWays' = [mCacheWays EXCEPT ![w] = Taken(@)]
      /\ UNCHANGED <<way, active, at, oscStart>>
  BY <1>1, Ends
<1>3. JobIs(c, "victim") BY <1>2 DEF JobIs
<1>4. mLock = c /\ w \in Way /\ ~mCacheWays[w].inUse /\ Labelled(oscStart[c]) = {}
  BY <1>1, <1>3 DEF AtWay
<1>5. /\ mCacheWays' \in [Way -> Record] /\ mCacheWays'[w].inUse
      /\ mCacheWays'[w].dataStart = 0 /\ \A x \in Way : x # w => Kept(x)
  <2>1. mCacheWays[w] \in Record BY <1>1, <1>4 DEF WayTypes
  <2>2. Taken(mCacheWays[w]) \in Record /\ Taken(mCacheWays[w]).inUse
        /\ Taken(mCacheWays[w]).dataStart = 0
    BY <2>1, TakenFacts
  <2> QED BY <1>1, <1>2, <1>4, <2>2 DEF WayTypes, Kept
<1>6. way' = [way EXCEPT ![c] = w] BY <1>1, <1>2 DEF WayTypes
<1>7. \A d \in Core : d # c /\ AtWork(d) => way[d] # w
  BY <1>2 DEF IInv, WaysNotShared, AtWork
<1>8. job' = [d \in Core |-> job'[d]] /\ \A d \in Core : d # c => job'[d] = job[d]
  BY <1>1, <1>2 DEF WayTypes
<1> HIDE DEF w
<1>9. /\ mLock \in {Nil, c} /\ mLock' \in {mLock, Nil} /\ UNCHANGED <<active, at, oscStart>>
      /\ pc[c] = "getway" \/ JobIs(c, "victim")
      /\ pc' = [pc EXCEPT ![c] = "check"] /\ w \in Way /\ ~mCacheWays[w].inUse
  BY <1>2, <1>3, <1>4
<1>10. \/ Labelled(oscStart[c]) = {w} /\ mCacheWays'[w].dataStart = mCacheWays[w].dataStart
       \/ Labelled(oscStart[c]) = {} /\ mCacheWays'[w].dataStart = 0
  BY <1>4, <1>5
<1> QED BY <1>5, <1>6, <1>7, <1>8, <1>9, <1>10, TakeStep

LEMMA SomeOldest ==
    ASSUME WayTypes, Scanned # {}
    PROVE  Oldest # {}
<1> DEFINE T == {mCacheWays[x].lruCount : x \in Scanned}
<1>1. Scanned \subseteq Way BY DEF Scanned, Eligible
<1>2. \A x \in Way : mCacheWays[x].lruCount \in 0 .. LruMax BY DEF WayTypes, Record
<1>3. T \in SUBSET (0 .. LruMax) /\ T # {} BY <1>1, <1>2
<1>4. Max(T) \in T /\ \A n \in T : n <= Max(T)
  <2> HIDE DEF T
  <2> QED BY <1>3, Counters, Extremes
<1>5. PICK w \in Scanned : mCacheWays[w].lruCount = Max(T) BY <1>4
<1>6. \A x \in Scanned : mCacheWays[x].lruCount \in T
  OBVIOUS
<1>7. w \in Oldest
  <2> HIDE DEF T
  <2> QED BY <1>4, <1>5, <1>6 DEF Oldest
<1> QED BY <1>7

LEMMA VictimStep ==
    ASSUME IInv, NEW c \in Core, NEW w \in Way, Victim(c, w)
    PROVE  IInv' /\ OwnChanges(c) /\ NoneLost(c)
<1>1. /\ pc[c] = "getway" /\ mLock = Nil /\ mLock' = c
      /\ Labelled(oscStart[c]) = {} /\ Scanned # {} /\ w = Max(Oldest)
      /\ mCacheWays' = Aged
      /\ way' = [way EXCEPT ![c] = w] /\ pc' = [pc EXCEPT ![c] = "job"]
      /\ job' = [job EXCEPT ![c] = "victim"]
      /\ UNCHANGED <<active, at, oscStart>>
  BY DEF Victim, StartJob, Goto, taskVars
<1>2. WayTypes /\ TaskOf(c) BY OwnTask
<1>3. (\A x \in Way : Kept(x)) /\ mCacheWays' \in [Way -> Record]
  BY <1>1, <1>2, AgedFacts DEF Kept
<1>4. Others(c) /\ WayTypes' BY <1>1, <1>2, <1>3 DEF Others, WayTypes
<1>5. ~mCacheWays[w].inUse
  <2>1. Oldest \subseteq Way /\ Oldest \subseteq Eligible BY DEF Oldest, Scanned, Eligible
  <2>2. w \in Oldest BY <1>1, <1>2, <2>1, SomeOldest, WaysInOrder
  <2> QED BY <2>1, <2>2 DEF Eligible, Unused
<1>6. pc'[c] = "job" /\ job'[c] = "victim" /\ way'[c] = w /\ Osc(c)' = Osc(c)
  BY <1>1, <1>2 DEF WayTypes, Osc
<1>7. /\ ~Idle(c) /\ ~Idle(c)' /\ ~Booting(c)' /\ Loading(c) /\ Loading(c)' /\ ~Current(c) /\ ~Current(c)'
      /\ JobIs(c, "victim")' /\ ~JobIs(c, "evict")' /\ ~Evicting(c) /\ ~Evicting(c)'
  BY <1>1, <1>6 DEF Idle, Booting, JobIs, Loading, Current, Evicting
<1>8. AtWay(c)'
  <2>1. Labelled(oscStart[c])' = {} BY <1>1, <1>3 DEF Labelled, Kept
  <2> QED BY <1>1, <1>3, <1>5, <1>6, <1>7, <2>1 DEF AtWay, Kept
<1>9. \A d \in Core : d # c /\ AtWork(d) => way[d] # way'[c]
  <2>1. Nil \notin Core BY PageTableAssumption DEF Core
  <2> QED BY <1>1, <1>5, <1>6, <1>7, <2>1, NotAnothers
<1>10. TaskOf(c)' BY <1>1, <1>2, <1>6, <1>7 DEF TaskOf
<1>11. ASSUME NEW i \in 1 .. Len(active[c]), NEW p \in Nat
       PROVE  Holds(c, i, p)' <=> Holds(c, i, p)
  BY <1>1, <1>6, <1>7 DEF Holds
<1>12. pc[c] # "off" /\ active' = active /\ (mLock' = mLock \/ mLock \in {Nil, c})
       /\ \A x \in Way : ~AtHand(c, x)
  BY <1>1, <1>7 DEF AtHand
<1> QED BY <1>3, <1>4, <1>7, <1>8, <1>9, <1>10, <1>11, <1>12, KeptStep

----------------------------------------------------------------------------
(* The labels                                                              *)
LEMMA PartEndType ==
    ASSUME IInv, NEW c \in Core, Loading(c)
    PROVE  /\ PartEnd(oscStart[c], End[Osc(c)]) \in Int
           /\ oscStart[c] \in Parts(Osc(c)) /\ Osc(c) \in Component
BY OwnTask, NextPart DEF TaskOf

LEMMA LabelDataStep ==
    ASSUME IInv, NEW c \in Core, LabelData(c)
    PROVE  IInv' /\ OwnChanges(c) /\ NoneLost(c)
<1> DEFINE w == way[c]
           e == PartEnd(oscStart[c], End[Osc(c)])
           r == [mCacheWays[w] EXCEPT !.dataStart = oscStart[c], !.dataEnd = e]
<1>1. /\ pc[c] = "label" /\ pc' = [pc EXCEPT ![c] = "owner"]
      /\ mCacheWays' = [mCacheWays EXCEPT ![w].dataStart = oscStart[c], ![w].dataEnd = e]
      /\ UNCHANGED <<mLock, job, way, active, at, oscStart>>
  BY DEF LabelData, Goto, taskVars
<1>2. WayTypes /\ TaskOf(c) /\ AtWay(c) BY OwnTask
<1>3. Loading(c) /\ Current(c) /\ ~Idle(c) /\ AtWork(c) /\ ~Evicting(c)
  BY <1>1 DEF Loading, Current, Idle, Booting, JobIs, AtWork, Evicting
<1>4. e \in Int /\ oscStart[c] \in Nat \ {0} BY <1>3, PartEndType, OwnTask
<1>5. /\ w \in Way /\ mCacheWays[w].inUse /\ mCacheWays[w].dataStart \in {0, oscStart[c]}
      /\ Labelled(oscStart[c]) \subseteq {w}
  BY <1>2, <1>3 DEF AtWay
<1>6. /\ mCacheWays' = [mCacheWays EXCEPT ![w] = r] /\ r \in Record
      /\ r.dataStart = oscStart[c] /\ r.inUse = mCacheWays[w].inUse /\ r.osc = mCacheWays[w].osc
  <2> HIDE DEF e
  <2>1. mCacheWays[w] \in Record BY <1>2, <1>5 DEF WayTypes
  <2> QED BY <1>1, <1>2, <1>4, <1>5, <2>1 DEF WayTypes, Record
<1> HIDE DEF r, e
<1>7. /\ mCacheWays' \in [Way -> Record] /\ mCacheWays'[w].dataStart = oscStart[c]
      /\ mCacheWays'[w].inUse /\ mCacheWays'[w].osc = mCacheWays[w].osc
      /\ \A x \in Way : x # w => Kept(x)
  BY <1>2, <1>5, <1>6 DEF WayTypes, Kept
<1>8. Others(c) /\ WayTypes' BY <1>1, <1>2, <1>7 DEF Others, WayTypes
<1>9. pc'[c] = "owner" /\ Osc(c)' = Osc(c) BY <1>1, <1>2 DEF WayTypes, Osc
<1>10. /\ ~Idle(c)' /\ ~Booting(c)' /\ Loading(c)' /\ Current(c)'
       /\ ~JobIs(c, "victim")' /\ ~JobIs(c, "evict")' /\ ~Evicting(c)'
  BY <1>9 DEF Idle, Booting, JobIs, Loading, Current, Evicting
<1>11. OwnChanges(c)
  <2>1. \A x \in Way : Kept(x) \/ OwnWay(c, x) BY <1>3, <1>7 DEF OwnWay
  <2>2. ASSUME NEW x \in Way
        PROVE  \/ mCacheWays'[x].dataStart \in {0, mCacheWays[x].dataStart}
               \/ mCacheWays'[x].dataStart = oscStart[c] /\ Loading(c) /\ Current(c) /\ way[c] = x
    BY <1>3, <1>7 DEF Kept
  <2> QED BY <1>1, <1>8, <2>1, <2>2 DEF OwnChanges
<1>12. StatesInv' BY <1>1, <1>8, <1>10, StatesStep
<1>13. TaskOf(c)' BY <1>1, <1>2, <1>9, <1>10, <1>3 DEF TaskOf
<1>14. TasksInv' BY <1>1, <1>8, <1>13, TasksStep
<1>15. AtWay(c)'
  <2>1. Labelled(oscStart[c])' \subseteq {w} BY <1>1, <1>5, <1>7 DEF Labelled, Kept
  <2> QED BY <1>1, <1>5, <1>7, <1>10, <2>1 DEF AtWay
<1>16. WaysNotShared' BY <1>1, <1>3, <1>8, SharedStep
<1>17. ASSUME NEW i, NEW p PROVE Holds(c, i, p)' <=> Holds(c, i, p)
  BY <1>1, <1>3, <1>9, <1>10 DEF Holds
<1>18. OwnHeld(c)'
  <2> SUFFICES ASSUME NEW i \in 1 .. Len(active[c]), NEW p \in Nat, Holds(c, i, p)
               PROVE  \E x \in Way : /\ mCacheWays'[x].dataStart = p /\ mCacheWays'[x].inUse
                                     /\ mCacheWays'[x].osc = active[c][i]
    <3>1. active' = active BY <1>1
    <3> QED BY <1>17, <3>1 DEF OwnHeld
  <2>1. PICK x \in Way : /\ mCacheWays[x].dataStart = p /\ mCacheWays[x].inUse
                         /\ mCacheWays[x].osc = active[c][i]
    BY DEF IInv, HeldInv, OwnHeld
  <2>2. x = w => p = oscStart[c]
    <3>1. active[c][i] \in Component BY TaskFacts DEF IInv
    <3>2. p # 0 BY <3>1, PartsFacts DEF Holds
    <3> QED BY <1>5, <2>1, <3>2
  <2> QED BY <1>7, <2>1, <2>2 DEF Kept
<1>19. \A x \in Way : StillHeld(c, x)
  <2> SUFFICES ASSUME NEW x \in Way, mCacheWays'[x].inUse, ~Kept(x) \/ AtHand(c, x) \/ InHand(c, x)
               PROVE  AtHand(c, x)' \/ InHand(c, x)'
    BY DEF StillHeld
  <2>1. CASE x = w BY <1>1, <1>10, <2>1 DEF AtHand
  <2>2. CASE x # w
    <3>1. InHand(c, x) /\ mCacheWays'[x].dataStart = mCacheWays[x].dataStart
      BY <1>7, <2>2 DEF AtHand, Kept
    <3> QED BY <1>1, <1>17, <3>1 DEF InHand
  <2> QED BY <2>1, <2>2
<1>20. NoneLost(c) BY <1>1, <1>5, <1>7, <1>10, <1>17 DEF NoneLost, Kept, AtHand
<1> QED BY <1>8, <1>11, <1>12, <1>14, <1>15, <1>16, <1>18, <1>19, <1>20, StepInv

LEMMA LabelOwnerStep ==
    ASSUME IInv, NEW c \in Core, LabelOwner(c)
    PROVE  /\ IInv' /\ OwnChanges(c) /\ NoneLost(c)
           /\ \A i \in 1 .. Len(active[c]) : \A p \in Nat :
                 Holds(c, i, p)' => Holds(c, i, p) \/ (i = at[c] /\ p = oscStart[c])
<1> DEFINE w == way[c]
           o == Osc(c)
           n == PartEnd(oscStart[c], End[o])
           last == n = End[o]
           done == last /\ at[c] = Len(active[c])
           r == [mCacheWays[w] EXCEPT !.osc = o]
<1>1. /\ pc[c] = "owner"
      /\ mCacheWays' = [mCacheWays EXCEPT ![w].osc = o]
      /\ oscStart' = [oscStart EXCEPT ![c] = n]
      /\ at' = [at EXCEPT ![c] = IF last /\ ~done THEN @ + 1 ELSE @]
      /\ pc' = [pc EXCEPT ![c] = IF done THEN "run" ELSE IF last THEN "preload" ELSE "getway"]
      /\ UNCHANGED <<mLock, job, way, active>>
  BY DEF LabelOwner, Goto
<1>2. WayTypes /\ TaskOf(c) /\ AtWay(c) /\ TasksInv BY OwnTask DEF IInv
<1>3. Loading(c) /\ Current(c) /\ ~Idle(c) /\ ~Evicting(c)
  BY <1>1 DEF Loading, Current, Idle, Booting, JobIs, Evicting
<1>4. /\ n \in Int /\ oscStart[c] \in Parts(o) /\ o \in Component
      /\ oscStart[c] \in Nat \ {0} /\ at[c] \in 1 .. Len(active[c]) /\ Len(active[c]) \in Nat
      /\ o = active[c][at[c]]
  BY <1>2, <1>3, PartEndType, OwnTask, TaskFacts DEF Osc
<1>5. /\ w \in Way /\ mCacheWays[w].inUse /\ mCacheWays[w].dataStart = oscStart[c]
  BY <1>1, <1>2, <1>3 DEF AtWay
<1>6. /\ mCacheWays' = [mCacheWays EXCEPT ![w] = r] /\ r \in Record
      /\ r.dataStart = mCacheWays[w].dataStart /\ r.inUse = mCacheWays[w].inUse /\ r.osc = o
  <2> HIDE DEF o
  <2>1. mCacheWays[w] \in Record BY <1>2, <1>5 DEF WayTypes
  <2> QED BY <1>1, <1>2, <1>4, <1>5, <2>1 DEF WayTypes, Record
<1> HIDE DEF r
<1>7. /\ mCacheWays' \in [Way -> Record] /\ mCacheWays'[w].dataStart = oscStart[c]
      /\ mCacheWays'[w].inUse /\ mCacheWays'[w].osc = o
      /\ \A x \in Way : x # w => Kept(x)
      /\ \A x \in Way : mCacheWays'[x].dataStart = mCacheWays[x].dataStart
  BY <1>2, <1>5, <1>6 DEF WayTypes, Kept
<1> HIDE DEF n, o, w
<1>8. Others(c) /\ WayTypes' BY <1>1, <1>2, <1>7 DEF Others, WayTypes
<1>9. /\ oscStart'[c] = n /\ active'[c] = active[c]
      /\ at'[c] = IF last /\ ~done THEN at[c] + 1 ELSE at[c]
      /\ pc'[c] = IF done THEN "run" ELSE IF last THEN "preload" ELSE "getway"
  BY <1>1, <1>2 DEF WayTypes
<1>10. /\ ~Idle(c)' /\ ~Booting(c)' /\ ~Current(c)' /\ ~AtWork(c)' /\ ~JobIs(c, "victim")'
       /\ ~JobIs(c, "evict")' /\ ~Evicting(c)' /\ pc'[c] # "owner"
       /\ Loading(c)' <=> ~last
       /\ pc'[c] \in {"preload", "run"} \/ Loading(c)'
  BY <1>9 DEF Idle, Booting, JobIs, Loading, Current, Evicting, AtWork
<1>11. AtWay(c)' BY <1>10 DEF AtWay
<1>12. /\ \A p \in Parts(o) : p < n <=> p <= oscStart[c]
       /\ ~last => n \in Parts(o)
       /\ last => \A p \in Parts(o) : p <= oscStart[c]
  BY <1>4, NextPart DEF n
<1>13. TaskOf(c)'
  <2>1. active'[c] \in Tasks /\ at'[c] \in 1 .. Len(active'[c])
    BY <1>2, <1>3, <1>4, <1>9 DEF TaskOf
  <2>2. ASSUME Loading(c)' PROVE oscStart'[c] \in Parts(Osc(c)')
    <3>1. ~last BY <1>10, <2>2
    <3>2. Osc(c)' = o BY <1>4, <1>9, <3>1 DEF Osc
    <3> QED BY <1>9, <1>12, <3>1, <3>2
  <2> QED BY <1>10, <2>1, <2>2 DEF TaskOf, Parts, Owned
<1>14. OwnChanges(c)
  <2>1. \A x \in Way : Kept(x) \/ OwnWay(c, x) BY <1>3, <1>7 DEF OwnWay, w
  <2> QED BY <1>1, <1>7, <1>8, <2>1 DEF OwnChanges
<1>15. StatesInv' BY <1>1, <1>8, <1>10, StatesStep
<1>16. TasksInv' BY <1>1, <1>8, <1>13, TasksStep
<1>17. WaysNotShared' BY <1>8, <1>10, SharedStep
<1>18. ASSUME NEW i \in 1 .. Len(active[c]), NEW p \in Nat
       PROVE  Holds(c, i, p)' <=> Holds(c, i, p) \/ (i = at[c] /\ p = oscStart[c])
  <2>1. Holds(c, i, p) <=> /\ p \in Parts(active[c][i])
                           /\ i < at[c] \/ (i = at[c] /\ p < oscStart[c])
    BY <1>1, <1>3 DEF Holds
  <2>2. Holds(c, i, p)' <=> /\ p \in Parts(active[c][i])
                            /\ i < at[c] \/ (i = at[c] /\ p <= oscStart[c])
    <3>1. CASE ~last
      <4>1. Holds(c, i, p)' <=> /\ p \in Parts(active[c][i])
                                /\ i < at[c] \/ (i = at[c] /\ p < n)
        BY <1>9, <1>10, <3>1 DEF Holds, Parts, Owned
      <4> QED BY <1>4, <1>12, <4>1
    <3>2. CASE last /\ ~done
      <4>1. Holds(c, i, p)' <=> p \in Parts(active[c][i]) /\ i < at[c] + 1
        BY <1>9, <1>10, <3>2 DEF Holds, Parts, Owned
      <4> QED BY <1>4, <1>12, <3>2, <4>1
    <3>3. CASE done
      <4>1. Holds(c, i, p)' <=> p \in Parts(active[c][i])
        BY <1>9, <1>10, <3>3 DEF Holds, Parts, Owned
      <4> QED BY <1>4, <1>12, <3>3, <4>1
    <3> QED BY <3>1, <3>2, <3>3
  <2>3. i = at[c] /\ p = oscStart[c] => p \in Parts(active[c][i]) BY <1>4
  <2>4. p <= oscStart[c] <=> p < oscStart[c] \/ p = oscStart[c] BY <1>4
  <2> HIDE DEF last, done
  <2> QED BY <2>1, <2>2, <2>3, <2>4
<1>19. OwnHeld(c)'
  <2> SUFFICES ASSUME NEW i \in 1 .. Len(active[c]), NEW p \in Nat,
                      Holds(c, i, p) \/ (i = at[c] /\ p = oscStart[c])
               PROVE  \E x \in Way : /\ mCacheWays'[x].dataStart = p /\ mCacheWays'[x].inUse
                                     /\ mCacheWays'[x].osc = active[c][i]
    BY <1>1, <1>18 DEF OwnHeld
  <2>1. CASE Holds(c, i, p)
    <3>1. PICK x \in Way : /\ mCacheWays[x].dataStart = p /\ mCacheWays[x].inUse
                           /\ mCacheWays[x].osc = active[c][i]
      BY <2>1 DEF IInv, HeldInv, OwnHeld
    <3>2. x = w => active[c][i] = o
      <4>1. p \in Parts(active[c][i]) /\ active[c][i] \in Component
        BY <1>2, <2>1, TaskFacts DEF Holds
      <4> QED BY <1>4, <1>5, <3>1, <4>1, PartsFacts
    <3> QED BY <1>7, <3>1, <3>2 DEF Kept
  <2>2. CASE i = at[c] /\ p = oscStart[c]
    BY <1>4, <1>5, <1>7, <2>2
  <2> QED BY <2>1, <2>2
<1>20. \A x \in Way : StillHeld(c, x)
  <2> SUFFICES ASSUME NEW x \in Way, mCacheWays'[x].inUse, ~Kept(x) \/ AtHand(c, x) \/ InHand(c, x)
               PROVE  InHand(c, x)'
    BY DEF StillHeld
  <2>1. CASE x = w
    <3>1. PICK i \in 1 .. Len(active'[c]), p \in Nat : i = at[c] /\ p = oscStart[c]
      BY <1>4, <1>9
    <3>2. Holds(c, i, p)' BY <1>9, <1>18, <3>1
    <3>3. mCacheWays'[x].dataStart = p BY <1>7, <2>1, <3>1
    <3> QED BY <3>2, <3>3 DEF InHand
  <2>2. CASE x # w
    <3>1. InHand(c, x) /\ mCacheWays'[x].dataStart = mCacheWays[x].dataStart
      BY <1>7, <2>2 DEF AtHand, Kept, w
    <3> QED BY <1>9, <1>18, <3>1 DEF InHand
  <2> QED BY <2>1, <2>2
<1>21. NoneLost(c) BY <1>1, <1>5, <1>7, <1>18 DEF NoneLost, Kept, AtHand, w
<1>22. IInv' BY <1>8, <1>11, <1>14, <1>15, <1>16, <1>17, <1>19, <1>20, StepInv
<1> QED BY <1>14, <1>18, <1>21, <1>22

LEMMA FreedFacts ==
    ASSUME NEW r \in Record
    PROVE  LET empty == [r EXCEPT !.inUse = FALSE, !.lruCount = 0, !.dataStart = 0, !.osc = Nil]
               unused == [r EXCEPT !.inUse = FALSE, !.lruCount = 0]
           IN  /\ empty \in Record /\ empty.dataStart = 0 /\ empty.inUse = FALSE
               /\ unused \in Record /\ unused.dataStart = r.dataStart /\ unused.inUse = FALSE
BY Counters DEF Record

LEMMA FreeWaysStep ==
    ASSUME IInv, NEW c \in Core, FreeWays(c)
    PROVE  IInv' /\ OwnChanges(c)
<1> DEFINE o == Osc(c)
           W == WaysOf(o)
           done == at[c] = Len(active[c])
           freed(r) == [r EXCEPT !.inUse = FALSE, !.lruCount = 0,
                          !.dataStart = IF variant.evictAfterUse THEN 0 ELSE @,
                          !.osc = IF variant.evictAfterUse THEN Nil ELSE @]
<1>1. /\ pc[c] = "free" /\ mLock = Nil /\ mLock' = mLock
      /\ mCacheWays' = [x \in Way |-> IF x \in W THEN freed(mCacheWays[x]) ELSE mCacheWays[x]]
      /\ active' = [active EXCEPT ![c] = IF done THEN <<>> ELSE @]
      /\ at' = [at EXCEPT ![c] = IF done THEN 1 ELSE @ + 1]
      /\ way' = [way EXCEPT ![c] = 0]
      /\ pc' = [pc EXCEPT ![c] = IF done THEN "idle" ELSE "evict"]
      /\ UNCHANGED <<oscStart, job>>
  BY DEF FreeWays, Goto
<1>2. WayTypes /\ TaskOf(c) /\ TasksInv BY OwnTask DEF IInv
<1>3. ~Loading(c) /\ ~Current(c) /\ ~Idle(c) /\ Evicting(c) /\ ~AtWork(c)
  BY <1>1 DEF Loading, Current, Idle, Booting, JobIs, Evicting, AtWork
<1>4. /\ o \in Component /\ at[c] \in 1 .. Len(active[c]) /\ Len(active[c]) \in Nat
      /\ o = active[c][at[c]]
  BY <1>2, <1>3, TaskFacts DEF Osc
<1>5. W \subseteq Way /\ \A x \in W : mCacheWays[x].dataStart \in Owned(o) BY DEF WaysOf
<1>6. ASSUME NEW x \in W
      PROVE  /\ mCacheWays'[x] \in Record /\ ~mCacheWays'[x].inUse
             /\ mCacheWays'[x].dataStart \in {0, mCacheWays[x].dataStart}
  <2>1. mCacheWays[x] \in Record BY <1>2, <1>5, <1>6 DEF WayTypes
  <2>2. mCacheWays'[x] = freed(mCacheWays[x]) BY <1>1, <1>5, <1>6
  <2>3. CASE variant.evictAfterUse
    <3>1. freed(mCacheWays[x]) = [mCacheWays[x] EXCEPT !.inUse = FALSE, !.lruCount = 0,
                                                       !.dataStart = 0, !.osc = Nil]
      BY <2>3
    <3>2. freed(mCacheWays[x]) \in Record /\ freed(mCacheWays[x]).dataStart = 0
          /\ freed(mCacheWays[x]).inUse = FALSE
      BY <2>1, <3>1, FreedFacts
    <3> QED BY <2>2, <3>2
  <2>4. CASE ~variant.evictAfterUse
    <3>1. freed(mCacheWays[x]) = [mCacheWays[x] EXCEPT !.inUse = FALSE, !.lruCount = 0]
      BY <2>1, <2>4 DEF Record
    <3>2. /\ freed(mCacheWays[x]) \in Record /\ freed(mCacheWays[x]).inUse = FALSE
          /\ freed(mCacheWays[x]).dataStart = mCacheWays[x].dataStart
      BY <2>1, <3>1, FreedFacts
    <3> QED BY <2>2, <3>2
  <2> QED BY <2>3, <2>4
<1> HIDE DEF freed, o, W
<1>7. /\ mCacheWays' \in [Way -> Record] /\ \A x \in Way : x \notin W => Kept(x)
  <2>1. \A x \in Way : x \notin W => mCacheWays'[x] = mCacheWays[x] BY <1>1
  <2>2. \A x \in Way : mCacheWays'[x] \in Record BY <1>2, <1>6, <2>1 DEF WayTypes
  <2>3. mCacheWays' = [x \in Way |-> mCacheWays'[x]] BY <1>1
  <2> QED BY <2>1, <2>2, <2>3 DEF Kept
<1>8. Others(c) /\ WayTypes' BY <1>1, <1>2, <1>7 DEF Others, WayTypes
<1>9. /\ pc'[c] = IF done THEN "idle" ELSE "evict"
      /\ active'[c] = IF done THEN <<>> ELSE active[c]
      /\ at'[c] = IF done THEN 1 ELSE at[c] + 1
  BY <1>1, <1>2 DEF WayTypes
<1>10. /\ ~Booting(c)' /\ ~Current(c)' /\ ~AtWork(c)' /\ ~JobIs(c, "victim")' /\ ~Loading(c)'
       /\ ~JobIs(c, "evict")' /\ pc'[c] \notin {"owner", "run", "preload"}
       /\ Evicting(c)' <=> ~done
       /\ Idle(c)' <=> done
  BY <1>9 DEF Idle, Booting, JobIs, Loading, Current, Evicting, AtWork
<1>11. AtWay(c)' BY <1>10 DEF AtWay
<1>12. TaskOf(c)' BY <1>2, <1>3, <1>4, <1>9, <1>10 DEF TaskOf
<1>13. OwnChanges(c)
  <2>1. \A x \in Way : Kept(x) \/ OwnWay(c, x) BY <1>1, <1>3, <1>5, <1>7 DEF OwnWay, o
  <2>2. \A x \in Way : mCacheWays'[x].dataStart \in {0, mCacheWays[x].dataStart}
    BY <1>6, <1>7 DEF Kept
  <2> QED BY <1>1, <1>8, <2>1, <2>2 DEF OwnChanges
<1>14. StatesInv' BY <1>1, <1>8, <1>10, StatesStep
<1>15. TasksInv' BY <1>8, <1>9, <1>12, TasksStep
<1>16. WaysNotShared' BY <1>8, <1>10, SharedStep
<1>17. ASSUME NEW i \in 1 .. Len(active[c]), NEW p \in Nat
       PROVE  Holds(c, i, p) <=> p \in Parts(active[c][i]) /\ i >= at[c]
  BY <1>1, <1>3 DEF Holds
<1>18. ASSUME NEW i \in 1 .. Len(active'[c]), NEW p \in Nat
       PROVE  /\ i \in 1 .. Len(active[c]) /\ active'[c] = active[c]
              /\ Holds(c, i, p)' <=> p \in Parts(active[c][i]) /\ i > at[c]
  <2>1. ~done
    <3>1. Len(<<>>) = 0 OBVIOUS
    <3> QED BY <1>9, <3>1
  <2>2. Holds(c, i, p)' <=> p \in Parts(active[c][i]) /\ i >= at[c] + 1
    BY <1>9, <1>10, <2>1 DEF Holds, Parts, Owned
  <2>3. i >= at[c] + 1 <=> i > at[c] BY <1>4
  <2> QED BY <1>9, <2>1, <2>2, <2>3
<1>19. OwnHeld(c)'
  <2> SUFFICES ASSUME NEW i \in 1 .. Len(active'[c]), NEW p \in Nat, Holds(c, i, p)'
               PROVE  \E x \in Way : /\ mCacheWays'[x].dataStart = p /\ mCacheWays'[x].inUse
                                     /\ mCacheWays'[x].osc = active'[c][i]
    BY DEF OwnHeld
  <2>1. /\ i \in 1 .. Len(active[c]) /\ active'[c] = active[c] /\ i > at[c]
        /\ p \in Parts(active[c][i])
    BY <1>18
  <2>2. Holds(c, i, p) BY <1>4, <1>17, <2>1
  <2>3. PICK x \in Way : /\ mCacheWays[x].dataStart = p /\ mCacheWays[x].inUse
                         /\ mCacheWays[x].osc = active[c][i]
    BY <2>1, <2>2 DEF IInv, HeldInv, OwnHeld
  <2>4. active[c][i] # o
    <3>1. i # at[c] BY <1>4, <2>1
    <3> QED BY <1>2, <1>3, <1>4, <2>1, <3>1, TaskFacts
  <2>5. x \notin W BY <2>3, <2>4 DEF W, WaysOf
  <2> QED BY <1>7, <2>1, <2>3, <2>5 DEF Kept
<1>20. \A x \in Way : StillHeld(c, x)
  <2> SUFFICES ASSUME NEW x \in Way, mCacheWays'[x].inUse, ~Kept(x) \/ AtHand(c, x) \/ InHand(c, x)
               PROVE  InHand(c, x)'
    BY DEF StillHeld
  <2>1. x \notin W BY <1>6
  <2>2. Kept(x) /\ InHand(c, x) BY <1>3, <1>7, <2>1 DEF AtHand
  <2>3. PICK i \in 1 .. Len(active[c]), p \in Nat : mCacheWays[x].dataStart = p /\ Holds(c, i, p)
    BY <2>2 DEF InHand
  <2>4. p \in Parts(active[c][i]) /\ i >= at[c] BY <1>17, <2>3
  <2>5. i # at[c]
    <3> SUFFICES ASSUME i = at[c] PROVE FALSE
      OBVIOUS
    <3>1. p \in Owned(o) BY <1>4, <2>4 DEF Parts
    <3>2. mCacheWays[x].osc = o BY <1>3, <2>3, <3>1, WaysOfTask DEF o
    <3> QED BY <2>1, <2>3, <3>1, <3>2 DEF W, WaysOf
  <2>6. i > at[c] /\ ~done BY <1>4, <2>4, <2>5
  <2>7. i \in 1 .. Len(active'[c]) BY <1>9, <2>6
  <2>8. Holds(c, i, p)' BY <1>18, <2>4, <2>6, <2>7
  <2>9. mCacheWays'[x].dataStart = p BY <2>2, <2>3 DEF Kept
  <2> QED BY <2>7, <2>8, <2>9 DEF InHand
<1> QED BY <1>8, <1>11, <1>13, <1>14, <1>15, <1>16, <1>19, <1>20, StepInv

----------------------------------------------------------------------------
LEMMA StepPreservesInv == IInv /\ [Next]_vars => IInv'
<1> SUFFICES ASSUME IInv, [Next]_vars PROVE IInv'
  OBVIOUS
<1>1. CASE InitPrimary \/ PreloadCriticalData \/ StartSecondaries
  <2>1. 0 \in Core BY PageTableAssumption DEF Core
  <2>2. Booting(0) BY <1>1 DEF InitPrimary, PreloadCriticalData, StartSecondaries, Booting
  <2> QED BY <1>1, <2>1, <2>2, BootSteps
<1>2. ASSUME NEW c \in Core, EndJob(c) PROVE IInv'
  <2>1. pc[c] = "job" BY <1>2 DEF EndJob
  <2>2. job[c] \in {"load", "critical", "victim", "evict"}
    BY <2>1 DEF IInv, StatesInv, Idle, Booting, Loading, Evicting, JobIs
  <2>3. CASE job[c] = "critical"
    <3>1. Booting(c) BY <2>1, <2>3 DEF Booting, JobIs
    <3> QED BY <1>2, <3>1, BootSteps
  <2> QED BY <1>2, <2>2, <2>3, EndLoadStep, EndVictimStep, EndEvictStep
<1>3. ASSUME NEW c \in Core,
             \/ InitSecondary(c) \/ \E t \in Tasks : NextTask(c, t)
             \/ PreloadSingleOSC(c) \/ Abort(c) \/ LoadPart(c)
             \/ \E w \in Way : GetLRUWay(c, w)
             \/ LabelData(c) \/ LabelOwner(c)
             \/ FinishTask(c) \/ LookupOSC(c) \/ FreeWays(c)
      PROVE  IInv'
  <2>1. CASE \E w \in Way : GetLRUWay(c, w)
    BY <2>1, FoundStep, FreeWayStep, VictimStep DEF GetLRUWay
  <2>2. CASE InitSecondary(c) \/ \E t \in Tasks : NextTask(c, t)
    BY <2>2, InitSecondaryStep, NextTaskStep
  <2> QED
    BY <1>3, <2>1, <2>2, PreloadSingleOSCStep, AbortStep, LoadPartStep, LabelDataStep,
       LabelOwnerStep, FinishTaskStep, LookupOSCStep, FreeWaysStep
<1>4. ASSUME NEW c \in Core,
             \/ \E v \in Page : Run(c, v)
             \/ MovePage(c) \/ Copy(c) \/ NextPage(c)
             \/ OpenWay(c) \/ CloseWay(c) \/ CleanAndInvalidateWay(c)
             \/ EnableWayExclusive(c) \/ DisableAllWays(c) \/ FillWay(c)
             \/ \E p \in Page : Miss(c, p)
      PROVE  IInv'
  <2>1. UNCHANGED <<mCacheWays, mLock, pc, job, way, active, at, oscStart>>
    BY <1>4 DEF Run, MovePage, Copy, NextPage, OpenWay, CloseWay, CleanAndInvalidateWay,
                EnableWayExclusive, DisableAllWays, FillWay, Miss, wayVars, taskVars
  <2> QED BY <2>1, Frame
<1>5. CASE UNCHANGED vars
  <2>1. UNCHANGED <<mCacheWays, mLock, pc, job, way, active, at, oscStart>>
    BY <1>5 DEF vars, wayVars, taskVars
  <2> QED BY <2>1, Frame
<1> QED BY <1>1, <1>2, <1>3, <1>4, <1>5 DEF Next

LEMMA InitIsInv == Init => IInv
<1> SUFFICES ASSUME Init PROVE IInv
  OBVIOUS
<1>1. \A c \in Core : Idle(c) /\ active[c] = <<>> BY DEF Init, Idle, Booting
<1>2. WayTypes
  <2> DEFINE r == [permanentLocked |-> FALSE, dataStart |-> 0, dataEnd |-> 0, osc |-> Nil,
                   lruCount |-> 0, inUse |-> FALSE]
  <2>1. r \in Record BY Counters DEF Record
  <2>2. mCacheWays = [w \in Way |-> r] BY DEF Init
  <2> HIDE DEF r
  <2>3. mCacheWays \in [Way -> Record] BY <2>1, <2>2
  <2> QED BY <2>3 DEF WayTypes, Init
<1>3. StatesInv BY <1>1 DEF StatesInv, Init, Booting, JobIs
<1>4. TasksInv BY <1>1, IdleHoldsNothing DEF TasksInv, ToSet
<1>5. \A w \in Way : mCacheWays[w].dataStart = 0 /\ ~mCacheWays[w].inUse BY DEF Init
<1>6. LabelsInv /\ UsedInv BY <1>5 DEF LabelsInv, UsedInv
<1>7. \A c \in Core : AtWay(c) BY <1>1, IdleHoldsNothing DEF AtWay
<1>8. WaysNotShared BY DEF WaysNotShared, Init
<1>9. HeldInv BY <1>1, IdleHoldsNothing DEF HeldInv, OwnHeld
<1> QED BY <1>2, <1>3, <1>4, <1>6, <1>7, <1>8, <1>9 DEF IInv

LEMMA Invariance == Spec => []IInv
BY InitIsInv, StepPreservesInv, PTL DEF Spec

(* Nobody else loads, labels or evicts the way a core is at: getLRUWay     *)
(* takes only ways that are not marked as used, and none while it evicts   *)
(* a victim; evictOSC only those of the core's own task.                   *)
THEOREM WaysStaySeparate == Spec => []WaysNotShared
<1>1. IInv => WaysNotShared BY DEF IInv
<1> QED BY <1>1, Invariance, PTL

(* A task runs with one used way for each part of its components, and the  *)
(* ways of those that have ended are free.                                 *)
LEMMA HeldAndReleased == IInv => WaysHeldAndReleased
<1> SUFFICES ASSUME IInv PROVE WaysHeldAndReleased
  OBVIOUS
<1>1. ASSUME NEW c \in Core, NEW o \in ToSet(active[c]), pc[c] = "run", NEW p \in Parts(o)
      PROVE  Cardinality({w \in Labelled(p) : mCacheWays[w].inUse}) = 1
  <2>1. TasksInv /\ OwnHeld(c) /\ LabelsInv BY DEF IInv, HeldInv
  <2>2. PICK i \in 1 .. Len(active[c]) : active[c][i] = o
    <3>1. active[c] \in Seq(Component) BY <2>1, TaskFacts
    <3>2. DOMAIN active[c] = 1 .. Len(active[c]) BY <3>1
    <3> QED BY <3>2 DEF ToSet
  <2>3. o \in Component BY <2>1, <2>2, TaskFacts
  <2>4. p \in Nat \ {0} BY <2>3, PartsFacts
  <2>5. Holds(c, i, p) BY <1>1, <2>2 DEF Holds
  <2>6. PICK w \in Way : mCacheWays[w].dataStart = p /\ mCacheWays[w].inUse
    BY <2>1, <2>4, <2>5 DEF OwnHeld
  <2>7. {x \in Labelled(p) : mCacheWays[x].inUse} = {w}
    BY <2>1, <2>4, <2>6 DEF LabelsInv, Labelled
  <2> QED BY <2>7, FS_Singleton
<1>2. ASSUME \A c \in Core : active[c] = <<>>, NEW w \in Way PROVE ~mCacheWays[w].inUse
  <2> SUFFICES ASSUME mCacheWays[w].inUse PROVE FALSE
    OBVIOUS
  <2>1. PICK c \in Core : AtHand(c, w) \/ InHand(c, w) BY DEF IInv, UsedInv
  <2>2. ~InHand(c, w) BY <1>2 DEF InHand
  <2>3. ~Idle(c) BY <2>1, <2>2, IdleHoldsNothing DEF AtHand
  <2>4. active[c] \in Tasks BY <2>3, OwnTask DEF TaskOf
  <2> QED BY <1>2, <2>4, CacheAssumption
<1> QED BY <1>1, <1>2 DEF WaysHeldAndReleased

THEOREM WaysAreHeld == Spec => []WaysHeldAndReleased
BY HeldAndReleased, Invariance, PTL

----------------------------------------------------------------------------
(* A core aborts                                                           *)
Usable == {w \in Way : ~mCacheWays[w].permanentLocked}

(* The part that a way in use is for.                                      *)
PartOf(w) == IF \E d \in Core : AtHand(d, w)
             THEN oscStart[CHOOSE d \in Core : AtHand(d, w)] ELSE mCacheWays[w].dataStart

LEMMA PartOfWay ==
    ASSUME IInv, NEW w \in Way, mCacheWays[w].inUse
    PROVE  /\ PartOf(w) \in Wanted /\ PartOf(w) # 0
           /\ \/ \E d \in Core : AtHand(d, w) /\ PartOf(w) = oscStart[d]
              \/ mCacheWays[w].dataStart = PartOf(w)
<1>0. TasksInv BY DEF IInv
<1>1. ASSUME NEW d \in Core, NEW i \in 1 .. Len(active[d]), NEW p \in Parts(active[d][i])
      PROVE  p \in Wanted /\ p # 0
  <2>1. active[d][i] \in ToSet(active[d]) /\ active[d][i] \in Component BY <1>0, TaskFacts
  <2> QED BY <2>1, PartsFacts DEF Wanted
<1>2. CASE \E d \in Core : AtHand(d, w)
  <2>1. PICK d \in Core : AtHand(d, w) /\ PartOf(w) = oscStart[d] BY <1>2 DEF PartOf
  <2>2. Loading(d) /\ ~Idle(d) BY <2>1 DEF AtHand, Current, Loading, Idle, Booting, JobIs
  <2>3. oscStart[d] \in Parts(active[d][at[d]]) BY <2>2, OwnTask DEF TaskOf, Osc
  <2>4. at[d] \in 1 .. Len(active[d]) BY <1>0, <2>2, TaskFacts
  <2> QED BY <1>1, <2>1, <2>3, <2>4
<1>3. CASE ~\E d \in Core : AtHand(d, w)
  <2>1. PICK d \in Core : InHand(d, w) BY <1>3 DEF IInv, UsedInv
  <2>2. PICK i \in 1 .. Len(active[d]), p \in Nat : mCacheWays[w].dataStart = p /\ Holds(d, i, p)
    BY <2>1 DEF InHand
  <2>3. PartOf(w) = p /\ p \in Parts(active[d][i]) BY <1>3, <2>2 DEF PartOf, Holds
  <2> QED BY <1>1, <2>2, <2>3
<1> QED BY <1>2, <1>3

LEMMA PartsOfCores ==
    ASSUME IInv, NEW c \in Core, Loading(c), NEW d \in Core, Loading(d), oscStart[c] = oscStart[d]
    PROVE  c = d
<1> SUFFICES ASSUME c # d PROVE FALSE
  OBVIOUS
<1>1. /\ ~Idle(c) /\ Osc(c) \in Component /\ oscStart[c] \in Parts(Osc(c))
      /\ ~Idle(d) /\ Osc(d) \in Component /\ oscStart[d] \in Parts(Osc(d))
  BY OwnTask DEF TaskOf
<1>2. Osc(c) # Osc(d) BY <1>1, TasksApart DEF IInv
<1> QED BY <1>1, <1>2, PartsFacts

LEMMA PartsDiffer ==
    ASSUME IInv, NEW w \in Way, NEW x \in Way, mCacheWays[w].inUse, mCacheWays[x].inUse,
           PartOf(w) = PartOf(x)
    PROVE  w = x
<1>1. ASSUME NEW d \in Core, NEW y \in Way, NEW z \in Way, AtHand(d, y),
             mCacheWays[z].dataStart = oscStart[d]
      PROVE  y = z
  BY <1>1, OwnTask DEF AtWay, AtHand, Labelled
<1>2. ASSUME NEW d \in Core, NEW e \in Core, AtHand(d, w), AtHand(e, x), oscStart[d] = oscStart[e]
      PROVE  w = x
  <2>1. Loading(d) /\ Loading(e) BY <1>2 DEF AtHand, Current, Loading
  <2>2. d = e BY <1>2, <2>1, PartsOfCores
  <2> QED BY <1>2, <2>2 DEF AtHand
<1>3. CASE mCacheWays[w].dataStart = PartOf(w) /\ mCacheWays[x].dataStart = PartOf(x)
  BY <1>3, PartOfWay DEF IInv, LabelsInv
<1> QED BY <1>1, <1>2, <1>3, PartOfWay

LEMMA AbortMeansFull ==
    ASSUME IInv, NEW c \in Core, Abort(c)
    PROVE  Cardinality(Wanted) > Cardinality(Usable)
<1> DEFINE q == oscStart[c]
           Rest == Wanted \ {q}
           f == [w \in Usable |-> PartOf(w)]
<1>1. Labelled(q) = {} /\ Eligible = {} /\ pc[c] = "getway" BY DEF Abort
<1>2. Loading(c) /\ ~Idle(c) /\ ~Current(c) BY <1>1 DEF Loading, Idle, Booting, JobIs, Current
<1>3. q \in Wanted
  <2>1. TaskOf(c) /\ TasksInv BY OwnTask DEF IInv
  <2>2. q \in Parts(Osc(c)) BY <1>2, <2>1 DEF TaskOf
  <2>3. Osc(c) \in ToSet(active[c]) BY <1>2, <2>1, TaskFacts
  <2> QED BY <2>2, <2>3 DEF Wanted
<1>4. IsFiniteSet(Wanted) /\ IsFiniteSet(Usable)
  <2>1. Wanted \subseteq Page
    <3> SUFFICES ASSUME NEW d \in Core, NEW o \in ToSet(active[d]), NEW p \in Parts(o) PROVE p \in Page
      BY DEF Wanted
    <3>1. active[d] \in Seq(Component) BY TaskFacts DEF IInv
    <3>2. o \in Component BY <3>1 DEF ToSet
    <3> QED BY <3>2, CacheAssumption DEF Parts
  <2>2. IsFiniteSet(Page) BY PageTableAssumption, FS_Interval DEF Page, Core
  <2>3. IsFiniteSet(Way) BY CacheAssumption, FS_Interval DEF Way
  <2>4. Usable \subseteq Way BY DEF Usable
  <2> QED BY <2>1, <2>2, <2>3, <2>4, FS_Subset
<1>5. \A w \in Usable : w \in Way /\ mCacheWays[w].inUse
  BY <1>1 DEF Usable, Eligible, Unused
<1>6. \A w \in Usable : PartOf(w) \in Rest
  <2> SUFFICES ASSUME NEW w \in Usable PROVE PartOf(w) # q
    BY <1>5, PartOfWay
  <2>1. mCacheWays[w].dataStart # q BY <1>1, <1>5 DEF Labelled
  <2>2. ASSUME NEW d \in Core, AtHand(d, w), oscStart[d] = q PROVE FALSE
    <3>1. Loading(d) BY <2>2 DEF AtHand, Current, Loading
    <3>2. d = c BY <1>2, <2>2, <3>1, PartsOfCores
    <3> QED BY <1>2, <2>2, <3>2 DEF AtHand
  <2> QED BY <1>5, <2>1, <2>2, PartOfWay
<1>7. f \in Injection(Usable, Rest)
  <2>1. f \in [Usable -> Rest] BY <1>6
  <2>2. \A w, x \in Usable : f[w] = f[x] => w = x BY <1>5, PartsDiffer
  <2> HIDE DEF f
  <2> QED BY <2>1, <2>2 DEF Injection, IsInjective
<1>8. Cardinality(Usable) <= Cardinality(Rest)
  <2> HIDE DEF f, Rest
  <2>1. IsFiniteSet(Rest) BY <1>4, FS_Subset DEF Rest
  <2> QED BY <1>7, <2>1, FS_Injection
<1>9. Cardinality(Rest) = Cardinality(Wanted) - 1 BY <1>3, <1>4, FS_RemoveElement
<1>10. Cardinality(Wanted) \in Nat /\ Cardinality(Usable) \in Nat BY <1>4, FS_CardinalityType
<1> QED BY <1>8, <1>9, <1>10

(* No other step lets a core abort.                                        *)
LEMMA OnlyAbortHangs ==
    ASSUME IInv, [Next]_vars, NEW c \in Core, pc[c] # "hung", pc'[c] = "hung"
    PROVE  Abort(c)
<1>1. WayTypes BY DEF IInv
<1>2. ASSUME NEW d \in Core, NEW l, l # "hung", pc' = [pc EXCEPT ![d] = l]
      PROVE  FALSE
  BY <1>1, <1>2 DEF WayTypes
<1>3. pc' # pc
  OBVIOUS
<1>4. ~(InitPrimary \/ PreloadCriticalData \/ StartSecondaries)
  <2>1. 0 \in Core BY PageTableAssumption DEF Core
  <2>2. ~InitPrimary BY <1>2, <2>1 DEF InitPrimary, Goto
  <2>3. ~PreloadCriticalData BY <1>2, <2>1 DEF PreloadCriticalData, StartJob, Goto
  <2>4. ~StartSecondaries BY DEF StartSecondaries
  <2> QED BY <2>2, <2>3, <2>4
<1>5. ASSUME NEW d \in Core PROVE ~EndJob(d)
  <2> SUFFICES ASSUME EndJob(d) PROVE FALSE
    OBVIOUS
  <2>1. pc[d] = "job" BY <1>1, Ends
  <2>2. job[d] \in {"load", "critical", "victim", "evict"}
    BY <2>1 DEF IInv, StatesInv, Idle, Booting, Loading, Evicting, JobIs
  <2>3. \E l \in {"label", "critical", "check", "evict"} : pc' = [pc EXCEPT ![d] = l]
    BY <1>1, <2>2, Ends
  <2> QED BY <1>2, <2>3
<1>6. ASSUME NEW d \in Core
      PROVE  /\ ~InitSecondary(d) /\ ~PreloadSingleOSC(d) /\ ~LabelData(d) /\ ~FinishTask(d)
             /\ \A t \in Tasks : ~NextTask(d, t)
  BY <1>2 DEF InitSecondary, PreloadSingleOSC, LabelData, FinishTask, NextTask, Goto
<1>7. ASSUME NEW d \in Core
      PROVE  /\ \A w \in Way : ~GetLRUWay(d, w)
             /\ ~LoadPart(d) /\ ~LookupOSC(d)
  BY <1>2 DEF GetLRUWay, Found, FreeWay, Victim, LoadPart, LookupOSC, StartJob, Goto
<1>8. ASSUME NEW d \in Core PROVE ~LabelOwner(d) /\ ~FreeWays(d)
  <2>1. ASSUME LabelOwner(d)
        PROVE  \E l \in {"run", "preload", "getway"} : pc' = [pc EXCEPT ![d] = l]
    BY <2>1 DEF LabelOwner, Goto
  <2>2. ASSUME FreeWays(d) PROVE \E l \in {"idle", "evict"} : pc' = [pc EXCEPT ![d] = l]
    BY <2>2 DEF FreeWays, Goto
  <2> QED BY <1>2, <2>1, <2>2
<1>9. ASSUME NEW d \in Core
      PROVE  /\ \A v \in Page : ~Run(d, v)
             /\ ~MovePage(d) /\ ~Copy(d) /\ ~NextPage(d)
             /\ ~OpenWay(d) /\ ~CloseWay(d) /\ ~CleanAndInvalidateWay(d)
             /\ ~EnableWayExclusive(d) /\ ~DisableAllWays(d) /\ ~FillWay(d)
             /\ \A p \in Page : ~Miss(d, p)
  BY <1>3 DEF Run, MovePage, Copy, NextPage, OpenWay, CloseWay, CleanAndInvalidateWay,
              EnableWayExclusive, DisableAllWays, FillWay, Miss
<1>10. Next BY <1>3 DEF vars
<1>11. PICK d \in Core : Abort(d)
  BY <1>4, <1>5, <1>6, <1>7, <1>8, <1>9, <1>10 DEF Next
<1>12. d = c BY <1>1, <1>11 DEF Abort, Goto, WayTypes
<1> QED BY <1>11, <1>12

(* A core gives up only when the parts of the components in use are more   *)
(* than the ways that are left for them: getLRUWay overlooks none, and     *)
(* evictOSC gives all of them back.                                        *)
THEOREM AbortsIfFull == Spec => AbortsOnlyIfFull
<1>1. ASSUME IInv, [Next]_vars
      PROVE  [(\E c \in Core : pc[c] # "hung" /\ pc'[c] = "hung") =>
                 Cardinality(Wanted) > Cardinality({w \in Way : ~mCacheWays[w].permanentLocked})]_vars
  BY <1>1, OnlyAbortHangs, AbortMeansFull DEF Usable
<1> QED BY <1>1, Invariance, PTL DEF Spec, AbortsOnlyIfFull

----------------------------------------------------------------------------
(* The places of the colors                                                *)
(* A number is a multiple and a rest in one way only.                      *)
LEMMA OneDivision ==
    ASSUME NEW m \in Nat \ {0}, NEW a \in Nat, NEW b \in Nat,
           NEW r \in 0 .. m - 1, NEW s \in 0 .. m - 1, m * a + r = m * b + s
    PROVE  a = b /\ r = s
<1>1. ASSUME NEW x \in Nat, NEW y \in Nat, NEW u \in 0 .. m - 1, NEW v \in 0 .. m - 1,
             m * x + u = m * y + v, x < y
      PROVE  FALSE
  <2>1. m * y >= m * (x + 1) BY <1>1
  <2>2. m * (x + 1) = m * x + m
    OBVIOUS
  <2>3. m * x \in Nat /\ m * y \in Nat
    OBVIOUS
  <2> QED BY <1>1, <2>1, <2>2, <2>3
<1>2. ~(a < b) /\ ~(b < a) BY <1>1
<1>3. a = b BY <1>2
<1> QED BY <1>3

LEMMA Division ==
    ASSUME NEW m \in Nat \ {0}, NEW n \in Nat
    PROVE  n \div m \in Nat /\ n % m \in 0 .. m - 1 /\ n = m * (n \div m) + (n % m)
OBVIOUS

LEMMA DivisionOf ==
    ASSUME NEW m \in Nat \ {0}, NEW a \in Nat, NEW r \in 0 .. m - 1
    PROVE  /\ m * a + r \in Nat
           /\ (m * a + r) \div m = a /\ (m * a + r) % m = r
<1> DEFINE n == m * a + r
<1>1. n \in Nat
  OBVIOUS
<1>2. n = m * a + r
  OBVIOUS
<1> HIDE DEF n
<1>3. n \div m \in Nat /\ n % m \in 0 .. m - 1 /\ n = m * (n \div m) + (n % m)
  BY <1>1, Division
<1>4. n \div m = a /\ n % m = r
  <2> DEFINE x == n \div m
             y == n % m
  <2>1. x \in Nat /\ y \in 0 .. m - 1 /\ m * x + y = m * a + r BY <1>2, <1>3
  <2> HIDE DEF x, y
  <2>2. x = a /\ y = r BY <2>1, OneDivision
  <2> QED BY <2>2 DEF x, y
<1> QED BY <1>1, <1>4 DEF n

(* The offset of the colors in closed form: whole spaces and the rest.     *)
Space == PagesPerColor * CacheWayCount + PagesPerColor - 1
Offset(i) == Space * (i \div PagesPerColor) + (i % PagesPerColor)
Advance(i) == IF i % PagesPerColor = 0 THEN PagesPerColor * CacheWayCount ELSE 1

LEMMA SpaceType ==
    /\ PagesPerColor \in Nat \ {0} /\ CacheWayCount \in Nat \ {0} /\ Space \in Nat \ {0}
    /\ PagesPerColor * CacheWayCount \in Nat /\ PagesPerColor * CacheWayCount <= Space
<1>1. PagesPerColor \in Nat \ {0} /\ CacheWayCount \in Nat \ {0} BY CacheAssumption
<1>2. PagesPerColor * CacheWayCount \in Nat \ {0} BY <1>1
<1> QED BY <1>1, <1>2 DEF Space

LEMMA OffsetStep ==
    ASSUME NEW i \in Nat \ {0}
    PROVE  Offset(i) = Offset(i - 1) + Advance(i)
<1> DEFINE m == PagesPerColor
           q == i \div m
           r == i % m
<1>1. m \in Nat \ {0} /\ Space \in Nat BY SpaceType
<1>2. q \in Nat /\ r \in 0 .. m - 1 /\ i = m * q + r BY <1>1, Division
<1>3. Offset(i) = Space * q + r /\ Advance(i) = IF r = 0 THEN m * CacheWayCount ELSE 1
  BY DEF Offset, Advance
<1>4. Offset(i - 1) = Space * ((i - 1) \div m) + ((i - 1) % m) BY DEF Offset
<1> HIDE DEF q, r
<1>5. CASE r # 0
  <2>1. r - 1 \in 0 .. m - 1 /\ i - 1 = m * q + (r - 1) BY <1>1, <1>2, <1>5
  <2>2. (i - 1) \div m = q /\ (i - 1) % m = r - 1 BY <1>1, <1>2, <2>1, DivisionOf
  <2>3. Space * q \in Nat BY <1>1, <1>2
  <2> QED BY <1>1, <1>2, <1>3, <1>4, <1>5, <2>2, <2>3
<1>6. CASE r = 0
  <2>1. q # 0 BY <1>1, <1>2, <1>6
  <2>2. q - 1 \in Nat /\ m - 1 \in 0 .. m - 1 BY <1>1, <1>2, <2>1
  <2>3. m * q = m * (q - 1) + m BY <1>1, <1>2
  <2>4. m * (q - 1) \in Nat BY <1>1, <2>2
  <2>5. i - 1 = m * (q - 1) + (m - 1) BY <1>1, <1>2, <1>6, <2>3, <2>4
  <2>6. (i - 1) \div m = q - 1 /\ (i - 1) % m = m - 1
    <3> DEFINE n == m * (q - 1) + (m - 1)
    <3>1. n \div m = q - 1 /\ n % m = m - 1 BY <1>1, <2>2, DivisionOf
    <3> HIDE DEF n
    <3>2. i - 1 = n BY <2>5 DEF n
    <3> QED BY <3>1, <3>2
  <2>7. Space * q = Space * (q - 1) + Space /\ Space * (q - 1) \in Nat BY <1>1, <1>2, <2>2
  <2>8. Space = m * CacheWayCount + m - 1 /\ m * CacheWayCount \in Nat BY SpaceType DEF Space
  <2>9. Offset(i - 1) = Space * (q - 1) + (m - 1) BY <1>4, <2>6
  <2>10. Offset(i) = Space * q /\ Advance(i) = m * CacheWayCount BY <1>1, <1>2, <1>3, <1>6, <2>7
  <2> DEFINE X == Space * (q - 1)
             Y == m * CacheWayCount
             Z == Space * q
  <2>11. X \in Nat /\ Y \in Nat /\ Z = X + Space /\ Space = Y + m - 1 BY <2>7, <2>8
  <2> HIDE DEF X, Y, Z, m
  <2>12. Z = (X + (m - 1)) + Y BY <1>1, <2>11
  <2> QED BY <2>9, <2>10, <2>12 DEF X, Y, Z
<1> QED BY <1>5, <1>6

LEMMA OffsetType ==
    ASSUME NEW i \in Nat
    PROVE  Offset(i) \in Nat
<1>1. i \div PagesPerColor \in Nat /\ i % PagesPerColor \in Nat BY SpaceType, Division
<1>2. Space * (i \div PagesPerColor) \in Nat BY <1>1, SpaceType
<1> QED BY <1>1, <1>2 DEF Offset

LEMMA ColorOffsetIs ==
    ASSUME NEW k \in Nat
    PROVE  ColorOffset(k) = Offset(k)
<1> DEFINE F(f) == [i \in 0 .. k |-> IF i = 0 THEN 0 ELSE f[i - 1] + Advance(i)]
           g == [i \in 0 .. k |-> Offset(i)]
           h == CHOOSE f : f = F(f)
<1>1. ColorOffset(k) = h[k] BY DEF ColorOffset, Advance
<1>2. Offset(0) = 0
  <2>1. 0 \div PagesPerColor = 0 /\ 0 % PagesPerColor = 0
    <3>1. PagesPerColor * 0 + 0 = 0 /\ 0 \in 0 .. PagesPerColor - 1 BY SpaceType
    <3> QED BY <3>1, SpaceType, DivisionOf
  <2>2. Space * 0 = 0 BY SpaceType
  <2> QED BY <2>1, <2>2 DEF Offset
<1>3. g = F(g)
  <2> SUFFICES ASSUME NEW i \in 0 .. k
               PROVE  Offset(i) = IF i = 0 THEN 0 ELSE g[i - 1] + Advance(i)
    OBVIOUS
  <2>1. CASE i = 0 BY <1>2, <2>1
  <2>2. CASE i # 0
    <3>1. i - 1 \in 0 .. k /\ i \in Nat \ {0} BY <2>2
    <3>2. g[i - 1] = Offset(i - 1) BY <3>1
    <3> QED BY <2>2, <3>1, <3>2, OffsetStep
  <2> QED BY <2>1, <2>2
<1>4. h = F(h)
  <2> HIDE DEF F, g
  <2> QED BY <1>3
<1> HIDE DEF h, g
<1> DEFINE N == {i \in Nat : i \in 0 .. k => h[i] = Offset(i)}
<1>5. 0 \in N
  <2>1. h[0] = 0 BY <1>4
  <2> QED BY <1>2, <2>1
<1>6. \A i \in N : i + 1 \in N
  <2> SUFFICES ASSUME NEW i \in Nat, i \in 0 .. k => h[i] = Offset(i), i + 1 \in 0 .. k
               PROVE  h[i + 1] = Offset(i + 1)
    OBVIOUS
  <2>1. h[i + 1] = h[(i + 1) - 1] + Advance(i + 1) BY <1>4
  <2>2. (i + 1) - 1 = i /\ i \in 0 .. k /\ i + 1 \in Nat \ {0}
    OBVIOUS
  <2>3. Offset(i + 1) = Offset((i + 1) - 1) + Advance(i + 1) BY <2>2, OffsetStep
  <2> QED BY <2>1, <2>2, <2>3
<1>7. k \in N
  <2> HIDE DEF N
  <2>1. N \subseteq Nat BY DEF N
  <2> QED BY <1>5, <1>6, <2>1, Induction
<1> QED BY <1>1, <1>7

(* No two pages of the ways have the same place.                           *)
LEMMA ColorsDiffer ==
    ASSUME NEW w \in Way, NEW x \in Way, NEW k \in Nat, NEW n \in Nat,
           ColorPage(w, k) = ColorPage(x, n)
    PROVE  w = x /\ k = n
<1> DEFINE m == PagesPerColor
           q == k \div m
           r == k % m
           a == n \div m
           b == n % m
<1>1. m \in Nat \ {0} /\ Space \in Nat \ {0} /\ ColorsStart \in Nat /\ CacheWayCount \in Nat \ {0}
      /\ m * CacheWayCount <= Space
  BY SpaceType, ColorAssumption
<1>2. /\ q \in Nat /\ r \in 0 .. m - 1 /\ k = m * q + r
      /\ a \in Nat /\ b \in 0 .. m - 1 /\ n = m * a + b
  BY <1>1, Division
<1>3. ColorsStart + w * m + (Space * q + r) = ColorsStart + x * m + (Space * a + b)
  BY ColorOffsetIs DEF ColorPage, Offset
<1> HIDE DEF m, q, r, a, b
<1>4. w \in Nat /\ x \in Nat /\ w <= CacheWayCount - 1 /\ x <= CacheWayCount - 1 BY <1>1 DEF Way
<1>5. ASSUME NEW y \in Nat, y <= CacheWayCount - 1, NEW s \in 0 .. m - 1
      PROVE  m * y + s \in 0 .. Space - 1 /\ y * m = m * y
  <2>1. m * y <= m * (CacheWayCount - 1) BY <1>1, <1>5
  <2>2. m * (CacheWayCount - 1) = m * CacheWayCount - m BY <1>1
  <2>3. m * y \in Nat /\ m * CacheWayCount \in Nat /\ y * m = m * y BY <1>1
  <2> QED BY <1>1, <2>1, <2>2, <2>3
<1>6. /\ m * w + r \in 0 .. Space - 1 /\ m * x + b \in 0 .. Space - 1
      /\ w * m = m * w /\ x * m = m * x
  BY <1>2, <1>4, <1>5
<1>7. m * w \in Nat /\ m * x \in Nat /\ Space * q \in Nat /\ Space * a \in Nat BY <1>1, <1>2, <1>4
<1>8. Space * q + (m * w + r) = Space * a + (m * x + b) BY <1>1, <1>2, <1>3, <1>6, <1>7
<1>9. q = a /\ m * w + r = m * x + b BY <1>1, <1>2, <1>6, <1>8, OneDivision
<1>10. w = x /\ r = b BY <1>1, <1>2, <1>4, <1>9, OneDivision
<1> QED BY <1>2, <1>9, <1>10

LEMMA ColorsApart ==
    ASSUME NEW w \in Way, NEW k \in Nat
    PROVE  ColorPage(w, k) \in Nat /\ ColorPage(w, k) >= ColorsStart
<1>1. ColorOffset(k) \in Nat BY ColorOffsetIs, OffsetType
<1>2. w * PagesPerColor \in Nat BY SpaceType DEF Way
<1>3. ColorsStart \in Nat BY ColorAssumption
<1> QED BY <1>1, <1>2, <1>3 DEF ColorPage

----------------------------------------------------------------------------
(* The page table and the pages of a part                                  *)
Linked == directory = [i \in 0 .. (Pages \div Entries) - 1 |-> i * Entries]

(* Each page has the entry of its own number.                              *)
LEMMA EntryIs ==
    ASSUME Linked, NEW v \in Page
    PROVE  Entry(v) = v
<1> DEFINE m == Entries
           q == v \div m
           r == v % m
           n == Pages \div m
<1>1. m \in Nat \ {0} /\ Pages \in Nat /\ Pages % m = 0 /\ v \in Nat /\ v < Pages
  BY PageTableAssumption DEF Page
<1>2. q \in Nat /\ r \in 0 .. m - 1 /\ v = m * q + r BY <1>1, Division
<1>3. n \in Nat /\ Pages = m * n
  <2>1. n \in Nat /\ Pages = m * n + (Pages % m) BY <1>1, Division
  <2>2. m * n \in Nat BY <1>1, <2>1
  <2> QED BY <1>1, <2>1, <2>2
<1>4. directory = [i \in 0 .. n - 1 |-> i * m] BY DEF Linked
<1>5. Entry(v) = directory[q] + r BY DEF Entry
<1> HIDE DEF q, r, n, m
<1>6. q < n
  <2> SUFFICES ASSUME q >= n PROVE FALSE
    BY <1>2, <1>3
  <2>1. m * q >= m * n BY <1>1, <1>2, <1>3
  <2> QED BY <1>1, <1>2, <1>3, <2>1
<1>7. directory[q] = q * m BY <1>2, <1>3, <1>4, <1>6
<1>8. q * m = m * q BY <1>1, <1>2
<1> QED BY <1>2, <1>5, <1>7, <1>8

LEMMA CoresArePages ==
    /\ Core \subseteq Page /\ Core \subseteq Nat /\ Page \subseteq Nat /\ 0 \in Core
    /\ \A c \in Core : c < ColorsStart
    /\ Nil \notin Page /\ Nil \notin Core /\ Nil \notin Nat
<1>1. Pages \in Nat \ Core /\ Cores \in Nat \ {0} /\ Nil \notin Int BY PageTableAssumption
<1>2. Pages >= Cores BY <1>1 DEF Core
<1> QED BY <1>1, <1>2, ColorAssumption DEF Core, Page

LEMMA MapIs ==
    ASSUME Linked, NEW c \in Core, NEW to, DOMAIN to \subseteq Page, Map(c, to)
    PROVE  /\ pte' = [p \in Page |-> IF p \in DOMAIN to THEN to[p] ELSE pte[p]]
           /\ tlb' = [tlb EXCEPT ![c] = [v \in Page |-> Nil]]
<1>1. \A v \in DOMAIN to : Entry(v) = v BY EntryIs
<1>2. ASSUME NEW p \in Page, p \in DOMAIN to PROVE (CHOOSE v \in DOMAIN to : Entry(v) = p) = p
  BY <1>1, <1>2
<1>3. \A p \in Page : (\E v \in DOMAIN to : Entry(v) = p) <=> p \in DOMAIN to BY <1>1
<1>4. \A p \in Page : (IF \E v \in DOMAIN to : Entry(v) = p
                       THEN to[CHOOSE v \in DOMAIN to : Entry(v) = p] ELSE pte[p])
                      = IF p \in DOMAIN to THEN to[p] ELSE pte[p]
  BY <1>2, <1>3
<1> QED BY <1>4 DEF Map, FlushTLB

PagesOf(o, p) == p .. PartEnd(p, End[o]) - 1

LEMMA PartPages ==
    ASSUME NEW o \in Component, NEW p \in Parts(o)
    PROVE  /\ p \in Nat \ {0} /\ PartEnd(p, End[o]) \in Nat /\ PartEnd(p, End[o]) > p
           /\ PartEnd(p, End[o]) <= p + WayPages /\ PartEnd(p, End[o]) <= End[o]
           /\ PagesOf(o, p) \subseteq Owned(o) /\ p \in PagesOf(o, p)
           /\ \A v \in PagesOf(o, p) : /\ v \in Page /\ v \in Nat /\ v \notin Core /\ v < ColorsStart
                                       /\ v - p \in 0 .. WayPages - 1
<1>1. /\ Start[o] \in Nat /\ End[o] \in Nat /\ p \in Nat \ {0} /\ p >= Start[o] /\ p < End[o]
      /\ Owned(o) \subseteq Page \ Core /\ WayPages \in Nat \ {0}
      /\ End[o] <= ColorsStart /\ ColorsStart \in Nat
  BY PartsFacts, CacheAssumption, WaySize, ColorAssumption
<1> DEFINE e == PartEnd(p, End[o])
<1>2. e = IF p + WayPages <= End[o] THEN p + WayPages ELSE End[o]
  BY <1>1, SmallerOf DEF PartEnd
<1> HIDE DEF e
<1>3. e \in Nat /\ e > p /\ e <= p + WayPages /\ e <= End[o] BY <1>1, <1>2
<1>4. PagesOf(o, p) = p .. e - 1 BY DEF PagesOf, e
<1>5. \A v \in p .. e - 1 : v \in Owned(o) /\ v - p \in 0 .. WayPages - 1 /\ v < ColorsStart /\ v \in Nat
  BY <1>1, <1>3 DEF Owned
<1>6. p \in p .. e - 1 BY <1>1, <1>3
<1> QED BY <1>1, <1>3, <1>4, <1>5, <1>6 DEF e

LEMMA PartOfPage ==
    ASSUME NEW o \in Component, NEW v \in Owned(o)
    PROVE  \E p \in Parts(o) : v \in PagesOf(o, p)
<1> DEFINE m == WayPages
           n == v - Start[o]
           q == n \div m
           r == n % m
           p == Start[o] + m * q
<1>1. Start[o] \in Nat /\ End[o] \in Nat /\ m \in Nat \ {0} BY PartsFacts, WaySize
<1>2. v \in Nat /\ n \in Nat /\ v < End[o] BY <1>1 DEF Owned
<1>3. q \in Nat /\ r \in 0 .. m - 1 /\ n = m * q + r BY <1>1, <1>2, Division
<1>4. (m * q) % m = 0
  <2> HIDE DEF m, q, r
  <2>1. 0 \in 0 .. m - 1 BY <1>1
  <2>2. (m * q + 0) % m = 0 BY <1>1, <1>3, <2>1, DivisionOf
  <2>3. m * q \in Int BY <1>1, <1>3
  <2>4. m * q + 0 = m * q BY <2>3
  <2> QED BY <2>2, <2>4
<1>5. m * q \in Nat BY <1>1, <1>3
<1> HIDE DEF q, r
<1>6. p \in Owned(o) /\ p - Start[o] = m * q /\ v - p = r /\ p \in Nat
  BY <1>1, <1>2, <1>3, <1>5 DEF Owned
<1>7. p \in Parts(o) BY <1>4, <1>6 DEF Parts
<1>8. v < PartEnd(p, End[o])
  <2> HIDE DEF p
  <2>1. p + m \in Int /\ End[o] \in Int BY <1>1, <1>6
  <2>2. PartEnd(p, End[o]) = Min({p + m, End[o]}) BY DEF PartEnd
  <2> HIDE DEF m
  <2>3. PartEnd(p, End[o]) = IF p + m <= End[o] THEN p + m ELSE End[o]
    BY <2>1, <2>2, SmallerOf
  <2> QED BY <1>1, <1>2, <1>3, <1>6, <2>3
<1>9. v >= p BY <1>2, <1>3, <1>6
<1> HIDE DEF p
<1>10. PartEnd(p, End[o]) \in Nat BY <1>7, PartPages
<1>11. v \in PagesOf(o, p) BY <1>2, <1>6, <1>8, <1>9, <1>10 DEF PagesOf
<1> QED BY <1>7, <1>11

(* A page belongs to one part.                                             *)
LEMMA PartsApart ==
    ASSUME NEW o \in Component, NEW p \in Parts(o), NEW q \in Component, NEW r \in Parts(q),
           NEW v \in PagesOf(o, p), v \in PagesOf(q, r)
    PROVE  o = q /\ p = r
<1>1. v \in Owned(o) /\ v \in Owned(q) BY PartPages
<1>2. o = q BY <1>1, CacheAssumption
<1>3. /\ v - p \in 0 .. WayPages - 1 /\ v - r \in 0 .. WayPages - 1 /\ v \in Nat
      /\ WayPages \in Nat \ {0}
  BY PartPages, WaySize
<1>4. /\ Start[o] \in Nat /\ p \in Nat /\ r \in Nat /\ p >= Start[o] /\ r >= Start[o]
      /\ (p - Start[o]) % WayPages = 0 /\ (r - Start[o]) % WayPages = 0
  BY <1>2, PartsFacts DEF Parts
<1> DEFINE a == p - Start[o]
           b == r - Start[o]
<1>5. /\ a \in Nat /\ b \in Nat /\ a % WayPages = 0 /\ b % WayPages = 0
      /\ b < a + WayPages /\ a < b + WayPages
  BY <1>3, <1>4
<1> HIDE DEF a, b
<1>6. b <= a /\ a <= b BY <1>3, <1>5, Multiples
<1>7. p = r BY <1>4, <1>6 DEF a, b
<1> QED BY <1>2, <1>7
----------------------------------------------------------------------------
(* Where the pages are                                                     *)
Target(c) == IF Prefetches(c) THEN ColorPage(way[c], page[c] - oscStart[c]) ELSE page[c]

PageTypes ==
    /\ Linked
    /\ pte \in [Page -> [base : Page, cacheable : BOOLEAN]]
    /\ tlb \in [Core -> [Page -> Page \cup {Nil}]]
    /\ memory \in [Page -> Page \cup {Nil}]
    /\ moving \in [Core -> Move \cup {Nil}]

(* A label comes with the end of its part.                                 *)
EndsInv ==
    \A w \in Way, o \in Component : mCacheWays[w].dataStart \in Parts(o) =>
        mCacheWays[w].dataEnd = PartEnd(mCacheWays[w].dataStart, End[o])

(* A job that a task needs, the part it is for, and how far it is.         *)
TaskJob(c) == JobIs(c, "load") \/ JobIs(c, "victim") \/ JobIs(c, "evict")

JobInv(c) ==
    /\ TaskJob(c) => JobStart(c) # 0 /\ page[c] \in JobStart(c) .. JobEnd(c)
    /\ JobIs(c, "critical") => page[c] \in oscStart[c] .. JobEnd(c)

(* A page is moved over the window, through which its core reaches the     *)
(* destination.                                                            *)
MoveInv(c) ==
    moving[c] # Nil =>
        /\ Working(c)
        /\ moving[c].page = page[c] /\ moving[c].to = Target(c)
        /\ moving[c].cacheable = Prefetches(c)
        /\ moving[c].dummy => ~Prefetches(c)
        /\ moving[c].window = IF moving[c].dummy THEN c ELSE Target(c)
        /\ pte[moving[c].window].base = Target(c)
        /\ tlb[c][moving[c].window] \in {Nil, Target(c)}
        /\ tlb[c][page[c]] \in {Nil, pte[page[c]].base}
        /\ TaskJob(c) /\ moving[c].copied => memory[Target(c)] = page[c]

(* A part may be in the colors of a way that is in use for it.             *)
Away(w, p) ==
    \/ mCacheWays[w].dataStart = p /\ mCacheWays[w].inUse
    \/ \E c \in Core : AtHand(c, w) /\ oscStart[c] = p

Home(o, p) == \A v \in PagesOf(o, p) : pte[v].base = v

HomeInv ==
    \A o \in Component : \A p \in Parts(o) : \A v \in PagesOf(o, p) :
        pte[v].base = v \/ \E w \in Way : pte[v].base = ColorPage(w, v - p) /\ Away(w, p)

MemInv ==
    \A o \in Component : \A p \in Parts(o) : \A v \in PagesOf(o, p) : memory[pte[v].base] = v

(* A core remembers only translations of pages it holds or moves, and they *)
(* are right.                                                              *)
TlbInv ==
    \A c \in Core : \A o \in Component : \A p \in Parts(o) : \A v \in PagesOf(o, p) :
        tlb[c][v] # Nil =>
            /\ tlb[c][v] = pte[v].base
            /\ \/ moving[c] # Nil /\ moving[c].page = v
               \/ \E i \in 1 .. Len(active[c]) : active[c][i] = o /\ Holds(c, i, p)

(* What has been evicted is home, and forgotten.                           *)
Cleared(c, v) == pte[v].base = v /\ tlb[c][v] = Nil

EvictInv(c) ==
    /\ Evicting(c) => way[c] \in Nat
    /\ Evicting(c) => \A p \in Parts(Osc(c)) : \A w \in Way :
          mCacheWays[w].dataStart = p /\ (pc[c] = "free" \/ w < way[c]) =>
              \A v \in PagesOf(Osc(c), p) : Cleared(c, v)
    /\ JobIs(c, "evict") => \A v \in PagesOf(Osc(c), JobStart(c)) : v < page[c] => Cleared(c, v)

ColorInv == \A q \in Page : q >= ColorsStart => pte[q].base = q

CritInv ==
    /\ pc[0] = "boot" => way[0] = 0
    /\ pc[0] = "critical" \/ JobIs(0, "critical") =>
          /\ way[0] \in Nat /\ oscStart[0] \in CriticalStart .. CriticalEnd
          /\ oscStart[0] < CriticalEnd => oscStart[0] = CriticalStart + way[0] * WayPages
          /\ JobIs(0, "critical") => oscStart[0] < CriticalEnd

ColoredInv ==
    /\ page \in [Core -> Nat] /\ \A c \in Core : step[c] = Nil
    /\ \A c \in Core : JobInv(c)
    /\ \A c \in Core : MoveInv(c)
    /\ \A c \in Core : EvictInv(c)
    /\ HomeInv /\ MemInv /\ TlbInv /\ ColorInv /\ CritInv

(* Without colors no page is ever moved.                                   *)
PlainInv ==
    /\ \A v \in Page : pte[v].base = v /\ memory[v] = v /\ \A c \in Core : tlb[c][v] = Nil
    /\ \A c \in Core : moving[c] = Nil

DataInv == /\ PageTypes
           /\ Coloring => EndsInv /\ ColoredInv
           /\ ~Coloring => PlainInv

----------------------------------------------------------------------------
(* The page a core is at                                                   *)
LEMMA TaskJobFacts ==
    ASSUME IInv, NEW c \in Core, TaskJob(c)
    PROVE  /\ pc[c] = "job" /\ ~Idle(c) /\ AtWork(c) /\ way[c] \in Way
           /\ TaskOf(c) /\ AtWay(c) /\ Osc(c) \in Component
           /\ JobIs(c, "load") => /\ Prefetches(c) /\ Current(c) /\ JobStart(c) = oscStart[c]
                                  /\ oscStart[c] \in Parts(Osc(c))
           /\ ~JobIs(c, "load") => /\ ~Prefetches(c)
                                   /\ JobStart(c) = mCacheWays[way[c]].dataStart
           /\ JobIs(c, "evict") => JobStart(c) \in Parts(Osc(c)) /\ Evicting(c)
           /\ JobIs(c, "victim") => Loading(c) /\ ~JobIs(c, "evict")
<1>1. TaskOf(c) /\ AtWay(c) BY OwnTask
<1>2. pc[c] = "job" /\ ~Idle(c) /\ AtWork(c) BY DEF TaskJob, JobIs, Idle, Booting, AtWork
<1>3. Osc(c) \in Component BY <1>2, OwnTask
<1>4. CASE JobIs(c, "load")
  <2>1. Prefetches(c) /\ Current(c) /\ Loading(c) /\ ~JobIs(c, "victim") /\ ~JobIs(c, "evict")
    BY <1>4 DEF Prefetches, Current, Loading, JobIs
  <2> QED BY <1>1, <1>2, <1>3, <1>4, <2>1 DEF JobStart, TaskOf, AtWay
<1>5. CASE JobIs(c, "victim")
  <2>1. ~Prefetches(c) /\ ~JobIs(c, "load") /\ ~JobIs(c, "evict") /\ Loading(c)
    BY <1>5 DEF Prefetches, JobIs, Loading
  <2> QED BY <1>1, <1>2, <1>3, <1>5, <2>1 DEF JobStart, AtWay
<1>6. CASE JobIs(c, "evict")
  <2>1. ~Prefetches(c) /\ ~JobIs(c, "load") /\ ~JobIs(c, "victim") /\ Evicting(c)
    BY <1>6 DEF Prefetches, JobIs, Evicting
  <2> QED BY <1>1, <1>2, <1>3, <1>6, <2>1 DEF JobStart, AtWay
<1> QED BY <1>4, <1>5, <1>6 DEF TaskJob

LEMMA JobKinds ==
    ASSUME IInv, NEW c \in Core, pc[c] = "job"
    PROVE  /\ TaskJob(c) \/ JobIs(c, "critical")
           /\ JobIs(c, "critical") => /\ ~TaskJob(c) /\ Booting(c) /\ Prefetches(c) /\ c = 0
                                      /\ \A d \in Core : Idle(d) /\ (d # c => pc[d] = "off")
<1>1. TaskJob(c) \/ JobIs(c, "critical")
  BY DEF IInv, StatesInv, Idle, Booting, Loading, Evicting, JobIs, TaskJob
<1>2. ASSUME JobIs(c, "critical")
      PROVE  /\ ~TaskJob(c) /\ Booting(c) /\ Prefetches(c) /\ c = 0
             /\ \A d \in Core : Idle(d) /\ (d # c => pc[d] = "off")
  <2>1. ~TaskJob(c) /\ Booting(c) /\ Prefetches(c) BY <1>2 DEF TaskJob, JobIs, Booting, Prefetches
  <2>2. c = 0 /\ \A d \in Core : d # c => pc[d] = "off" BY <2>1 DEF IInv, StatesInv
  <2> QED BY <2>1, <2>2 DEF Idle
<1> QED BY <1>1, <1>2

(* While the first core boots no way is in use and no core is at one.      *)
LEMMA NothingUsed ==
    ASSUME IInv, \A c \in Core : Idle(c)
    PROVE  /\ \A w \in Way : ~mCacheWays[w].inUse /\ \A p : ~Away(w, p)
           /\ \A c \in Core : \A i, p : ~Holds(c, i, p)
           /\ \A c \in Core : ~Loading(c) /\ ~Evicting(c) /\ ~Current(c) /\ ~TaskJob(c)
BY IdleHoldsNothing DEF IInv, UsedInv, AtHand, InHand, Away, TaskJob, JobIs, Loading

(* The part of a job is a part of a component, its end is that of the job. *)
LEMMA JobPlace ==
    ASSUME IInv, EndsInv, NEW c \in Core, TaskJob(c), JobStart(c) # 0
    PROVE  \E o \in Component : /\ JobStart(c) \in Parts(o) /\ JobEnd(c) = PartEnd(JobStart(c), End[o])
                                /\ ~JobIs(c, "victim") => o = Osc(c)
<1>1. /\ TaskOf(c) /\ AtWay(c) /\ Osc(c) \in Component /\ way[c] \in Way /\ pc[c] = "job"
      /\ JobIs(c, "load") => JobStart(c) = oscStart[c] /\ oscStart[c] \in Parts(Osc(c))
      /\ ~JobIs(c, "load") => JobStart(c) = mCacheWays[way[c]].dataStart
      /\ JobIs(c, "evict") => JobStart(c) \in Parts(Osc(c))
  BY TaskJobFacts
<1>2. CASE JobIs(c, "load")
  <2>1. JobEnd(c) = PartEnd(oscStart[c], End[Osc(c)]) BY <1>2 DEF JobEnd, JobIs
  <2> QED BY <1>1, <1>2, <2>1
<1>3. CASE ~JobIs(c, "load")
  <2>1. JobEnd(c) = mCacheWays[way[c]].dataEnd
    <3>1. job[c] \notin {"load", "critical"} BY <1>3 DEF TaskJob, JobIs
    <3> QED BY <3>1 DEF JobEnd
  <2>2. PICK o \in Component : JobStart(c) \in Parts(o) BY <1>1, <1>3 DEF IInv, LabelsInv
  <2>3. JobEnd(c) = PartEnd(JobStart(c), End[o]) BY <1>1, <1>3, <2>1, <2>2 DEF EndsInv
  <2>4. JobIs(c, "evict") => o = Osc(c) BY <1>1, <2>2, PartsFacts
  <2> QED BY <1>3, <2>2, <2>3, <2>4 DEF TaskJob
<1> QED BY <1>2, <1>3

LEMMA TaskPlace ==
    ASSUME IInv, EndsInv, NEW c \in Core, JobInv(c), TaskJob(c), Working(c)
    PROVE  \E o \in Component : /\ JobStart(c) \in Parts(o) /\ JobEnd(c) = PartEnd(JobStart(c), End[o])
                                /\ page[c] \in PagesOf(o, JobStart(c))
                                /\ ~JobIs(c, "victim") => o = Osc(c)
<1>1. JobStart(c) # 0 /\ page[c] \in JobStart(c) .. JobEnd(c) /\ page[c] < JobEnd(c)
  BY DEF JobInv, Working
<1>2. PICK o \in Component : /\ JobStart(c) \in Parts(o) /\ JobEnd(c) = PartEnd(JobStart(c), End[o])
                             /\ ~JobIs(c, "victim") => o = Osc(c)
  BY <1>1, JobPlace
<1>3. JobStart(c) \in Nat /\ JobEnd(c) \in Nat BY <1>2, PartPages
<1>4. page[c] \in PagesOf(o, JobStart(c)) BY <1>1, <1>2, <1>3 DEF PagesOf
<1> QED BY <1>2, <1>4

LEMMA CriticalPlace ==
    ASSUME IInv, CritInv, NEW c \in Core, JobInv(c), JobIs(c, "critical")
    PROVE  /\ JobEnd(c) \in Nat /\ oscStart[c] \in Nat /\ oscStart[c] < CriticalEnd /\ c = 0
           /\ JobEnd(c) <= oscStart[c] + WayPages /\ JobEnd(c) <= CriticalEnd
           /\ JobEnd(c) # CriticalEnd => JobEnd(c) = oscStart[c] + WayPages
           /\ way[c] \in Way
           /\ Working(c) => /\ page[c] \in Nat /\ page[c] < ColorsStart /\ page[c] >= oscStart[c]
                            /\ page[c] - oscStart[c] \in 0 .. WayPages - 1
                            /\ \A o \in Component : page[c] \notin Owned(o)
<1>1. c = 0 /\ pc[c] = "job" /\ job[c] = "critical" BY JobKinds DEF JobIs
<1>2. /\ way[c] \in Nat /\ oscStart[c] \in CriticalStart .. CriticalEnd
      /\ oscStart[c] < CriticalEnd /\ oscStart[c] = CriticalStart + way[c] * WayPages
  BY <1>1 DEF CritInv, JobIs
<1>3. /\ CriticalStart \in Nat /\ CriticalEnd \in Int
      /\ CriticalEnd <= CriticalStart + CacheWayCount * WayPages
      /\ WayPages \in Nat \ {0} /\ CacheWayCount \in Nat \ {0} /\ ColorsStart \in Nat
      /\ \A v \in CriticalStart .. CriticalEnd - 1 : v < ColorsStart /\ \A o \in Component : v \notin Owned(o)
  <2>1. CriticalEnd \in CriticalStart .. CriticalStart + CacheWayCount * WayPages
        /\ CriticalStart \in Nat /\ ColorsStart \in Nat
    BY ColorAssumption
  <2>2. WayPages \in Nat \ {0} /\ CacheWayCount \in Nat \ {0} BY WaySize, CacheAssumption
  <2>3. CacheWayCount * WayPages \in Nat BY <2>2
  <2>4. CriticalEnd \in Int /\ CriticalEnd <= CriticalStart + CacheWayCount * WayPages
    <3> DEFINE n == CacheWayCount * WayPages
    <3>1. n \in Nat /\ CriticalEnd \in CriticalStart .. CriticalStart + n BY <2>1, <2>3
    <3> HIDE DEF n
    <3>2. CriticalEnd \in Int /\ CriticalEnd <= CriticalStart + n BY <2>1, <3>1
    <3> QED BY <3>2 DEF n
  <2>5. \A v \in CriticalStart .. CriticalEnd - 1 : v < ColorsStart /\ \A o \in Component : v \notin Owned(o)
    <3>1. /\ CriticalStart .. CriticalEnd - 1 \subseteq 0 .. ColorsStart - 1
          /\ \A o \in Component : Owned(o) \cap (CriticalStart .. CriticalEnd - 1) = {}
      BY ColorAssumption
    <3> QED BY <2>1, <3>1
  <2> QED BY <2>1, <2>2, <2>4, <2>5
<1>4. JobEnd(c) = IF oscStart[c] + WayPages <= CriticalEnd THEN oscStart[c] + WayPages ELSE CriticalEnd
  <2>1. JobEnd(c) = PartEnd(oscStart[c], CriticalEnd) BY <1>1 DEF JobEnd
  <2> QED BY <1>2, <1>3, <2>1, SmallerOf DEF PartEnd
<1>5. way[c] \in Way
  <2> SUFFICES ASSUME way[c] >= CacheWayCount PROVE FALSE
    BY <1>2, <1>3 DEF Way
  <2>1. way[c] * WayPages >= CacheWayCount * WayPages BY <1>2, <1>3
  <2>2. way[c] * WayPages \in Nat /\ CacheWayCount * WayPages \in Nat BY <1>2, <1>3
  <2> DEFINE n == way[c] * WayPages
             k == CacheWayCount * WayPages
  <2>3. n \in Nat /\ k \in Nat /\ n >= k /\ CriticalEnd <= CriticalStart + k
        /\ CriticalStart + n < CriticalEnd
    BY <1>2, <1>3, <2>1, <2>2
  <2> HIDE DEF n, k
  <2> QED BY <1>3, <2>3
<1>6. oscStart[c] \in Nat BY <1>2, <1>3
<1>7. ASSUME Working(c)
      PROVE  /\ page[c] \in Nat /\ page[c] >= oscStart[c] /\ page[c] - oscStart[c] \in 0 .. WayPages - 1
             /\ page[c] \in CriticalStart .. CriticalEnd - 1
  <2>1. page[c] \in oscStart[c] .. JobEnd(c) /\ page[c] < JobEnd(c) BY <1>7 DEF JobInv, Working
  <2> QED BY <1>2, <1>3, <1>4, <1>6, <2>1
<1> QED BY <1>1, <1>2, <1>3, <1>4, <1>5, <1>6, <1>7

(* Where a core works.                                                     *)
LEMMA WorkPlace ==
    ASSUME IInv, EndsInv, CritInv, NEW c \in Core, JobInv(c), Working(c)
    PROVE  /\ page[c] \in Page /\ page[c] \in Nat /\ page[c] < ColorsStart /\ pc[c] = "job"
           /\ Prefetches(c) => /\ way[c] \in Way /\ page[c] - oscStart[c] \in 0 .. WayPages - 1
                               /\ Target(c) = ColorPage(way[c], page[c] - oscStart[c])
                               /\ Target(c) \in Page /\ Target(c) >= ColorsStart
           /\ ~Prefetches(c) => TaskJob(c) /\ Target(c) = page[c]
           /\ TaskJob(c) => page[c] \notin Core
           /\ ~TaskJob(c) => JobIs(c, "critical") /\ \A o \in Component : page[c] \notin Owned(o)
<1>0. pc[c] = "job" BY DEF Working
<1>1. ASSUME Prefetches(c), way[c] \in Way, page[c] - oscStart[c] \in 0 .. WayPages - 1
      PROVE  /\ Target(c) = ColorPage(way[c], page[c] - oscStart[c])
             /\ Target(c) \in Page /\ Target(c) >= ColorsStart
  <2>1. ColorPage(way[c], page[c] - oscStart[c]) \in Page BY <1>1, ColorAssumption
  <2>2. page[c] - oscStart[c] \in Nat BY <1>1, WaySize
  <2> QED BY <1>1, <2>1, <2>2, ColorsApart DEF Target
<1>2. CASE TaskJob(c)
  <2>1. PICK o \in Component : JobStart(c) \in Parts(o) /\ page[c] \in PagesOf(o, JobStart(c))
    BY <1>2, TaskPlace
  <2>2. /\ page[c] \in Page /\ page[c] \in Nat /\ page[c] \notin Core /\ page[c] < ColorsStart
        /\ page[c] - JobStart(c) \in 0 .. WayPages - 1
    BY <2>1, PartPages
  <2>3. Prefetches(c) => JobStart(c) = oscStart[c] /\ way[c] \in Way
    BY <1>2, TaskJobFacts
  <2>4. ~Prefetches(c) => Target(c) = page[c] BY DEF Target
  <2> QED BY <1>0, <1>1, <1>2, <2>2, <2>3, <2>4
<1>3. CASE ~TaskJob(c)
  <2>1. JobIs(c, "critical") /\ Prefetches(c) BY <1>0, <1>3, JobKinds
  <2>2. /\ way[c] \in Way /\ page[c] \in Nat /\ page[c] < ColorsStart
        /\ page[c] - oscStart[c] \in 0 .. WayPages - 1
        /\ \A o \in Component : page[c] \notin Owned(o)
    BY <2>1, CriticalPlace
  <2>3. Target(c) \in Page /\ Target(c) >= ColorsStart
        /\ Target(c) = ColorPage(way[c], page[c] - oscStart[c])
    BY <1>1, <2>1, <2>2
  <2>4. page[c] \in Page BY <2>2, <2>3, ColorAssumption, PageTableAssumption DEF Page, Core
  <2> QED BY <1>0, <1>3, <2>1, <2>2, <2>3, <2>4
<1> QED BY <1>2, <1>3

(* No two cores are at the same part.                                      *)
LEMMA JobPartsDiffer ==
    ASSUME IInv, NEW c \in Core, NEW d \in Core, c # d, TaskJob(c), TaskJob(d),
           JobStart(c) = JobStart(d), JobStart(c) # 0
    PROVE  FALSE
<1>1. WaysNotShared /\ LabelsInv /\ TasksInv BY DEF IInv
<1>2. ASSUME NEW e \in Core, TaskJob(e)
      PROVE  /\ AtWork(e) /\ ~Idle(e) /\ way[e] \in Way /\ AtWay(e) /\ Osc(e) \in Component
             /\ JobIs(e, "load") => JobStart(e) = oscStart[e] /\ JobStart(e) \in Parts(Osc(e)) /\ Current(e)
             /\ JobIs(e, "evict") => JobStart(e) \in Parts(Osc(e))
             /\ ~JobIs(e, "load") => JobStart(e) = mCacheWays[way[e]].dataStart
             /\ JobIs(e, "load") \/ JobIs(e, "victim") \/ JobIs(e, "evict")
  BY <1>2, TaskJobFacts DEF TaskJob
<1>3. way[c] # way[d] BY <1>1, <1>2 DEF WaysNotShared, AtWork
<1>4. Osc(c) # Osc(d) BY <1>1, <1>2, TasksApart
<1>5. CASE ~JobIs(c, "load") /\ ~JobIs(d, "load")
  BY <1>1, <1>2, <1>3, <1>5 DEF LabelsInv
<1>6. CASE ~JobIs(c, "victim") /\ ~JobIs(d, "victim")
  BY <1>2, <1>4, <1>6, PartsFacts
<1>7. ASSUME NEW e \in Core, NEW f \in Core, TaskJob(e), TaskJob(f), way[e] # way[f],
             JobIs(e, "load"), ~JobIs(f, "load"), JobStart(e) = JobStart(f)
      PROVE  FALSE
  <2>1. /\ JobStart(e) = oscStart[e] /\ AtWay(e) /\ Current(e)
        /\ way[f] \in Way /\ JobStart(f) = mCacheWays[way[f]].dataStart
    BY <1>2, <1>7
  <2>2. way[f] \in Labelled(oscStart[e]) BY <1>7, <2>1 DEF Labelled
  <2>3. Labelled(oscStart[e]) \subseteq {way[e]} BY <2>1 DEF AtWay
  <2> QED BY <1>7, <2>2, <2>3
<1>8. JobIs(c, "load") => JobIs(d, "load") BY <1>3, <1>7
<1>9. JobIs(d, "load") => JobIs(c, "load") BY <1>3, <1>7
<1>10. ~(JobIs(c, "load") /\ JobIs(c, "victim")) /\ ~(JobIs(d, "load") /\ JobIs(d, "victim"))
  BY DEF JobIs
<1> QED BY <1>5, <1>6, <1>8, <1>9, <1>10

LEMMA NotHeldByOthers ==
    ASSUME IInv, NEW c \in Core, NEW d \in Core, c # d, TaskJob(c), JobStart(c) # 0,
           NEW i \in 1 .. Len(active[d])
    PROVE  ~Holds(d, i, JobStart(c))
<1> SUFFICES ASSUME Holds(d, i, JobStart(c)) PROVE FALSE
  OBVIOUS
<1> DEFINE p == JobStart(c)
<1>1. LabelsInv /\ TasksInv BY DEF IInv
<1>2. active[d][i] \in Component /\ p \in Parts(active[d][i]) BY <1>1, TaskFacts DEF Holds
<1>3. ~Idle(c) /\ way[c] \in Way /\ AtWay(c) /\ Osc(c) \in Component BY TaskJobFacts
<1>4. CASE JobIs(c, "load") \/ JobIs(c, "evict")
  <2>1. p \in Parts(Osc(c)) BY <1>4, TaskJobFacts
  <2>2. active[d][i] = Osc(c) BY <1>2, <1>3, <2>1, PartsFacts
  <2> QED BY <1>1, <1>3, <2>2, TasksApart
<1>5. CASE JobIs(c, "victim")
  <2>1. p = mCacheWays[way[c]].dataStart /\ ~mCacheWays[way[c]].inUse
    BY <1>3, <1>5, TaskJobFacts DEF AtWay, JobIs
  <2>2. p \in Nat BY <1>2, PartsFacts
  <2>3. PICK x \in Way : mCacheWays[x].dataStart = p /\ mCacheWays[x].inUse
    BY <2>2 DEF IInv, HeldInv, OwnHeld
  <2> QED BY <1>1, <1>3, <2>1, <2>3 DEF LabelsInv
<1> QED BY <1>4, <1>5 DEF TaskJob

(* The place a page is moved to has no other page.                         *)
LEMMA TargetFree ==
    ASSUME IInv, EndsInv, CritInv, HomeInv, NEW c \in Core, JobInv(c), Working(c),
           NEW o \in Component, NEW p \in Parts(o), NEW u \in PagesOf(o, p), pte[u].base = Target(c)
    PROVE  u = page[c] /\ TaskJob(c)
<1>1. /\ u \in Nat /\ u < ColorsStart /\ p # 0 /\ u - p \in 0 .. WayPages - 1 /\ p \in Nat
      /\ ColorsStart \in Nat /\ WayPages \in Nat
  BY PartPages, ColorAssumption, WaySize
<1>2. u - p \in Nat BY <1>1
<1>3. pte[u].base = u \/ \E w \in Way : pte[u].base = ColorPage(w, u - p) /\ Away(w, p)
  BY DEF HomeInv
<1>4. CASE ~Prefetches(c)
  <2>1. Target(c) = page[c] /\ TaskJob(c) /\ page[c] < ColorsStart /\ page[c] \in Nat
    BY <1>4, WorkPlace
  <2>2. \A w \in Way : ColorPage(w, u - p) # page[c] BY <1>1, <1>2, <2>1, ColorsApart
  <2> QED BY <1>3, <2>1, <2>2
<1>5. CASE Prefetches(c)
  <2> DEFINE k == page[c] - oscStart[c]
  <2>1. /\ way[c] \in Way /\ k \in 0 .. WayPages - 1 /\ Target(c) = ColorPage(way[c], k)
        /\ Target(c) >= ColorsStart /\ page[c] \in Nat
        /\ pc[c] = "job"
    BY <1>5, WorkPlace
  <2>2. PICK w \in Way : pte[u].base = ColorPage(w, u - p) /\ Away(w, p)
    BY <1>1, <1>3, <2>1
  <2>3. w = way[c] /\ k = u - p
    <3>1. k \in Nat BY <1>1, <2>1
    <3> HIDE DEF k
    <3> QED BY <1>2, <2>1, <2>2, <3>1, ColorsDiffer
  <2>4. CASE JobIs(c, "critical")
    <3>1. \A d \in Core : Idle(d) BY <2>1, <2>4, JobKinds
    <3> QED BY <2>2, <3>1, NothingUsed
  <2>5. CASE TaskJob(c)
    <3>1. AtWay(c) /\ Current(c) /\ AtWork(c)
      <4>1. JobIs(c, "load") BY <1>5, <2>5, TaskJobFacts
      <4> QED BY <2>5, <4>1, TaskJobFacts
    <3>2. p = oscStart[c]
      <4>1. CASE mCacheWays[w].dataStart = p
        BY <1>1, <2>3, <3>1, <4>1 DEF AtWay
      <4>2. ASSUME NEW e \in Core, AtHand(e, w), oscStart[e] = p PROVE p = oscStart[c]
        <5>1. AtWork(e) /\ way[e] = w BY <4>2 DEF AtHand, Current, AtWork, JobIs
        <5>2. e = c BY <2>3, <3>1, <5>1 DEF IInv, WaysNotShared, AtWork
        <5> QED BY <4>2, <5>2
      <4> QED BY <2>2, <4>1, <4>2 DEF Away
    <3>3. u = page[c] BY <1>1, <2>1, <2>3, <3>2
    <3> QED BY <2>5, <3>3
  <2> QED BY <2>1, <2>4, <2>5, JobKinds
<1> QED BY <1>4, <1>5

(* Nor do two cores move to the same place or from the same.               *)
LEMMA TargetsDiffer ==
    ASSUME IInv, EndsInv, CritInv, NEW c \in Core, NEW d \in Core, c # d,
           JobInv(c), JobInv(d), Working(c), Working(d)
    PROVE  /\ Target(c) # Target(d) /\ page[c] # page[d]
           /\ Target(c) # page[d] /\ TaskJob(c) /\ TaskJob(d)
<1>0. ColorsStart \in Nat /\ WayPages \in Nat BY ColorAssumption, WaySize
<1>1. TaskJob(c) /\ TaskJob(d)
  BY JobKinds DEF Working
<1>2. page[c] # page[d]
  <2> SUFFICES ASSUME page[c] = page[d] PROVE FALSE
    OBVIOUS
  <2>1. PICK o \in Component : JobStart(c) \in Parts(o) /\ page[c] \in PagesOf(o, JobStart(c))
    BY <1>1, TaskPlace
  <2>2. PICK q \in Component : JobStart(d) \in Parts(q) /\ page[d] \in PagesOf(q, JobStart(d))
    BY <1>1, TaskPlace
  <2>3. JobStart(c) = JobStart(d) BY <2>1, <2>2, PartsApart
  <2>4. JobStart(c) # 0 BY <1>1 DEF JobInv
  <2> QED BY <1>1, <2>3, <2>4, JobPartsDiffer
<1>3. ASSUME NEW e \in Core, JobInv(e), Working(e)
      PROVE  /\ page[e] \in Nat /\ page[e] < ColorsStart
             /\ Prefetches(e) => /\ way[e] \in Way /\ page[e] - oscStart[e] \in Nat
                                 /\ Target(e) = ColorPage(way[e], page[e] - oscStart[e])
                                 /\ Target(e) >= ColorsStart /\ Target(e) \in Nat
             /\ ~Prefetches(e) => Target(e) = page[e]
  <2>1. /\ page[e] \in Nat /\ page[e] < ColorsStart
        /\ Prefetches(e) => /\ way[e] \in Way /\ page[e] - oscStart[e] \in 0 .. WayPages - 1
                            /\ Target(e) = ColorPage(way[e], page[e] - oscStart[e])
                            /\ Target(e) >= ColorsStart /\ Target(e) \in Page
        /\ ~Prefetches(e) => Target(e) = page[e]
    BY <1>3, WorkPlace
  <2>2. \A k \in 0 .. WayPages - 1 : k \in Nat BY <1>0
  <2>3. \A k \in Page : k \in Nat BY CoresArePages
  <2> QED BY <2>1, <2>2, <2>3
<1>4. way[c] # way[d]
  BY <1>1, TaskJobFacts DEF IInv, WaysNotShared, AtWork
<1>5. Target(c) # Target(d)
  <2>1. CASE Prefetches(c) /\ Prefetches(d)
    BY <1>3, <1>4, <2>1, ColorsDiffer
  <2>2. CASE ~(Prefetches(c) /\ Prefetches(d))
    BY <1>0, <1>2, <1>3, <2>2
  <2> QED BY <2>1, <2>2
<1>6. Target(c) # page[d] BY <1>0, <1>2, <1>3
<1> QED BY <1>1, <1>2, <1>5, <1>6

----------------------------------------------------------------------------
(* The steps of a move                                                     *)
LEMMA Stable ==
    ASSUME UNCHANGED <<mCacheWays, pc, job, way, active, at, oscStart>>
    PROVE  /\ \A c \in Core : /\ Evicting(c)' = Evicting(c) /\ TaskJob(c)' = TaskJob(c)
                              /\ Osc(c)' = Osc(c) /\ JobStart(c)' = JobStart(c) /\ JobEnd(c)' = JobEnd(c)
                              /\ Prefetches(c)' = Prefetches(c)
                              /\ \A kind : JobIs(c, kind)' = JobIs(c, kind)
                              /\ \A i, p : Holds(c, i, p)' = Holds(c, i, p)
           /\ \A c \in Core : page'[c] = page[c] =>
                 /\ Target(c)' = Target(c) /\ Working(c)' = Working(c) /\ JobInv(c)' = JobInv(c)
           /\ \A w, p : Away(w, p)' = Away(w, p)
           /\ EndsInv' = EndsInv /\ CritInv' = CritInv
<1>1. \A c \in Core : /\ Evicting(c)' = Evicting(c) /\ Loading(c)' = Loading(c)
                      /\ Current(c)' = Current(c) /\ Osc(c)' = Osc(c)
                      /\ \A kind : JobIs(c, kind)' = JobIs(c, kind)
  BY DEF Evicting, Loading, Current, JobIs, Osc
<1>2. \A c \in Core : Prefetches(c)' = Prefetches(c) BY DEF Prefetches
<1>3. \A c \in Core : TaskJob(c)' = TaskJob(c) BY <1>1 DEF TaskJob
<1>4. \A c \in Core : JobStart(c)' = JobStart(c) BY <1>2 DEF JobStart
<1>5. \A c \in Core : JobEnd(c)' = JobEnd(c) BY DEF JobEnd, Osc, PartEnd
<1>6. \A c \in Core : \A i, p : Holds(c, i, p)' = Holds(c, i, p) BY <1>1 DEF Holds, Parts, Owned
<1>7. ASSUME NEW c \in Core, page'[c] = page[c]
      PROVE  Target(c)' = Target(c) /\ Working(c)' = Working(c) /\ JobInv(c)' = JobInv(c)
  BY <1>1, <1>2, <1>3, <1>4, <1>5, <1>7 DEF Target, Working, JobInv, ColorPage, ColorOffset
<1>8. \A w, p : Away(w, p)' = Away(w, p) BY <1>1 DEF Away, AtHand
<1>9. EndsInv' = EndsInv BY DEF EndsInv
<1>10. CritInv' = CritInv BY DEF CritInv, JobIs
<1> QED BY <1>1, <1>2, <1>3, <1>4, <1>5, <1>6, <1>7, <1>8, <1>9, <1>10

LEMMA BeginMoveIs ==
    ASSUME PageTypes, NEW c \in Core, NEW v \in Page, NEW p \in Page, NEW b \in BOOLEAN,
           BeginMove(c, v, p, b)
    PROVE  LET dummy == pte[p].base # p
               window == IF dummy THEN c ELSE p
           IN  /\ moving[c] = Nil /\ directory' = directory /\ memory' = memory /\ window \in Page
               /\ pte' = [u \in Page |-> IF u = window THEN To(p, b)
                                         ELSE IF u = v THEN To(pte[v].base, ~b) ELSE pte[u]]
               /\ tlb' = [tlb EXCEPT ![c] = [u \in Page |-> Nil]]
               /\ moving' = [moving EXCEPT ![c] =
                     [page |-> v, to |-> p, cacheable |-> b, window |-> window,
                      dummy |-> dummy, copied |-> FALSE]]
<1> DEFINE dummy == pte[p].base # p
           window == IF dummy THEN c ELSE p
           to == [u \in {v, window} |-> IF u = window THEN To(p, b) ELSE To(pte[v].base, ~b)]
<1>1. Linked BY DEF PageTypes
<1>2. PhysicalAddress(p) = pte[p].base /\ PhysicalAddress(v) = pte[v].base
  BY <1>1, EntryIs DEF PhysicalAddress
<1>3. window \in Page /\ window = IF PhysicalAddress(p) # p THEN DummyPage(c) ELSE p
  BY <1>2, CoresArePages DEF DummyPage
<1>4. /\ moving[c] = Nil /\ directory' = directory /\ memory' = memory
      /\ Map(c, to)
      /\ moving' = [moving EXCEPT ![c] =
            [page |-> v, to |-> p, cacheable |-> b, window |-> window,
             dummy |-> dummy, copied |-> FALSE]]
  BY <1>2 DEF BeginMove, DummyPage
<1> HIDE DEF dummy, window
<1>5. DOMAIN to = {v, window} /\ DOMAIN to \subseteq Page BY <1>3
<1>6. \A u \in {v, window} : to[u] = IF u = window THEN To(p, b) ELSE To(pte[v].base, ~b)
  OBVIOUS
<1> HIDE DEF to
<1>7. /\ pte' = [u \in Page |-> IF u \in DOMAIN to THEN to[u] ELSE pte[u]]
      /\ tlb' = [tlb EXCEPT ![c] = [u \in Page |-> Nil]]
  BY <1>1, <1>4, <1>5, MapIs
<1>8. pte' = [u \in Page |-> IF u = window THEN To(p, b)
                             ELSE IF u = v THEN To(pte[v].base, ~b) ELSE pte[u]]
  BY <1>5, <1>6, <1>7
<1> QED BY <1>3, <1>4, <1>7, <1>8 DEF window, dummy

LEMMA MovePageFacts ==
    ASSUME IInv, DataInv, Coloring, NEW c \in Core, MovePage(c)
    PROVE  /\ moving[c] = Nil /\ Working(c) /\ ColoredInv
           /\ directory' = directory /\ memory' = memory
           /\ UNCHANGED <<mCacheWays, pc, job, way, active, at, oscStart, page, step, variant, mLock>>
           /\ pte' \in [Page -> [base : Page, cacheable : BOOLEAN]]
           /\ \A u \in Page : u # c => pte'[u].base = pte[u].base
           /\ \A u \in Page : u \notin {c, page[c], Target(c)} => pte'[u] = pte[u]
           /\ tlb' = [tlb EXCEPT ![c] = [u \in Page |-> Nil]]
           /\ \E m \in Move :
                 /\ moving' = [moving EXCEPT ![c] = m]
                 /\ m.page = page[c] /\ m.to = Target(c) /\ m.cacheable = Prefetches(c)
                 /\ m.dummy => ~Prefetches(c)
                 /\ m.window = IF m.dummy THEN c ELSE Target(c)
                 /\ ~m.copied /\ pte'[m.window].base = Target(c)
<1>1. /\ PageTypes /\ ColoredInv /\ EndsInv /\ CritInv /\ JobInv(c) /\ ColorInv
  BY DEF DataInv, ColoredInv
<1>2. /\ Working(c)
      /\ UNCHANGED <<mCacheWays, pc, job, way, active, at, oscStart, page, step, variant, mLock>>
      /\ BeginMove(c, page[c], Target(c), Prefetches(c))
  <2>1. /\ Working(c)
        /\ UNCHANGED <<mCacheWays, pc, job, way, active, at, oscStart, page, step, variant, mLock>>
    BY DEF MovePage, wayVars, taskVars, hwVars
  <2>2. CASE Prefetches(c)
    <3>1. Prefetches(c) = TRUE BY <2>2 DEF Prefetches
    <3>2. BeginMove(c, page[c], Target(c), TRUE) BY <2>2 DEF MovePage, Target
    <3> QED BY <2>1, <3>1, <3>2
  <2>3. CASE ~Prefetches(c)
    <3>1. Prefetches(c) = FALSE BY <2>3 DEF Prefetches
    <3>2. BeginMove(c, page[c], Target(c), FALSE) BY <2>3 DEF MovePage, Target
    <3> QED BY <2>1, <3>1, <3>2
  <2> QED BY <2>2, <2>3
<1> DEFINE v == page[c]
           p == Target(c)
           b == Prefetches(c)
           dummy == pte[p].base # p
           window == IF dummy THEN c ELSE p
           m == [page |-> v, to |-> p, cacheable |-> b, window |-> window,
                 dummy |-> dummy, copied |-> FALSE]
<1>3. /\ v \in Page /\ v < ColorsStart /\ v \in Nat
      /\ b => p \in Page /\ p >= ColorsStart
      /\ ~b => p = v
  BY <1>1, <1>2, WorkPlace
<1>4. p \in Page /\ b \in BOOLEAN BY <1>3 DEF Prefetches
<1>5. b => ~dummy BY <1>1, <1>3 DEF ColorInv
<1>6. /\ moving[c] = Nil /\ directory' = directory /\ memory' = memory /\ window \in Page
      /\ pte' = [u \in Page |-> IF u = window THEN To(p, b)
                                ELSE IF u = v THEN To(pte[v].base, ~b) ELSE pte[u]]
      /\ tlb' = [tlb EXCEPT ![c] = [u \in Page |-> Nil]]
      /\ moving' = [moving EXCEPT ![c] = m]
  BY <1>1, <1>2, <1>3, <1>4, BeginMoveIs
<1>7. pte \in [Page -> [base : Page, cacheable : BOOLEAN]] BY <1>1 DEF PageTypes
<1>8. \A u \in Page : u # c => pte'[u].base = pte[u].base
  <2> SUFFICES ASSUME NEW u \in Page, u # c PROVE pte'[u].base = pte[u].base
    OBVIOUS
  <2>1. CASE u = window
    <3>1. ~dummy /\ u = p BY <2>1
    <3>2. pte[u].base = p BY <3>1
    <3>3. pte'[u].base = p BY <1>6, <2>1 DEF To
    <3> QED BY <3>2, <3>3
  <2>2. CASE u # window BY <1>6, <2>2 DEF To
  <2> QED BY <2>1, <2>2
<1>9. pte'[window].base = p BY <1>6 DEF To
<1>15. \A u \in Page : u \notin {c, v, p} => pte'[u] = pte[u] BY <1>6
<1> HIDE DEF v, p, b, dummy
<1>10. dummy \in BOOLEAN BY DEF dummy
<1> HIDE DEF window
<1>11. pte' \in [Page -> [base : Page, cacheable : BOOLEAN]]
  <2> SUFFICES ASSUME NEW u \in Page
               PROVE  (IF u = window THEN To(p, b)
                       ELSE IF u = v THEN To(pte[v].base, ~b) ELSE pte[u])
                      \in [base : Page, cacheable : BOOLEAN]
    BY <1>6
  <2>1. pte[v].base \in Page /\ pte[u] \in [base : Page, cacheable : BOOLEAN] BY <1>3, <1>7
  <2> QED BY <1>4, <2>1 DEF To
<1>12. m \in Move BY <1>3, <1>4, <1>6, <1>10 DEF Move
<1>13. /\ m.page = v /\ m.to = p /\ m.cacheable = b /\ m.dummy = dummy /\ m.window = window /\ ~m.copied
  OBVIOUS
<1> HIDE DEF m
<1>14. window = IF dummy THEN c ELSE p BY DEF window
<1>16. \E e \in Move :
         /\ moving' = [moving EXCEPT ![c] = e]
         /\ e.page = v /\ e.to = p /\ e.cacheable = b /\ (e.dummy => ~b)
         /\ e.window = (IF e.dummy THEN c ELSE p) /\ ~e.copied
         /\ pte'[e.window].base = p
  BY <1>5, <1>6, <1>9, <1>12, <1>13, <1>14
<1>17. UNCHANGED <<mCacheWays, pc, job, way, active, at, oscStart, page, step, variant, mLock>>
  BY <1>2
<1>18. \E e \in Move :
         /\ moving' = [moving EXCEPT ![c] = e]
         /\ e.page = page[c] /\ e.to = Target(c) /\ e.cacheable = Prefetches(c)
         /\ e.dummy => ~Prefetches(c)
         /\ e.window = (IF e.dummy THEN c ELSE Target(c))
         /\ ~e.copied /\ pte'[e.window].base = Target(c)
  BY <1>16 DEF v, p, b
<1>19. \A u \in Page : u \notin {c, page[c], Target(c)} => pte'[u] = pte[u]
  BY <1>15 DEF v, p
<1>20. moving[c] = Nil /\ Working(c) /\ ColoredInv BY <1>1, <1>2, <1>6
<1>21. /\ directory' = directory /\ memory' = memory
       /\ tlb' = [tlb EXCEPT ![c] = [u \in Page |-> Nil]]
  BY <1>6
<1> QED BY <1>8, <1>11, <1>17, <1>18, <1>19, <1>20, <1>21

(* What the other cores' steps leave of a move, and of an eviction.        *)
LEMMA MoveKept ==
    ASSUME UNCHANGED <<mCacheWays, pc, job, way, active, at, oscStart>>, NEW d \in Core,
           MoveInv(d), page'[d] = page[d], moving'[d] = moving[d], tlb'[d] = tlb[d],
           moving[d] # Nil =>
              /\ pte'[moving[d].window].base = pte[moving[d].window].base
              /\ pte'[page[d]].base = pte[page[d]].base
              /\ memory[Target(d)] = page[d] => memory'[Target(d)] = page[d]
    PROVE  MoveInv(d)'
<1> SUFFICES ASSUME moving[d] # Nil PROVE MoveInv(d)'
  BY DEF MoveInv
<1>1. /\ Target(d)' = Target(d) /\ Working(d)' = Working(d) /\ Prefetches(d)' = Prefetches(d)
      /\ TaskJob(d)' = TaskJob(d)
  BY Stable
<1> QED BY <1>1 DEF MoveInv

LEMMA EvictKept ==
    ASSUME IInv, EndsInv, UNCHANGED <<mCacheWays, pc, job, way, active, at, oscStart>>,
           NEW d \in Core, JobInv(d), EvictInv(d), page'[d] = page[d],
           Evicting(d) => \A p \in Parts(Osc(d)) : \A u \in PagesOf(Osc(d), p) :
               Cleared(d, u) /\ ~(Working(d) /\ u = page[d]) => Cleared(d, u)'
    PROVE  EvictInv(d)'
<1>1. /\ Evicting(d)' = Evicting(d) /\ Osc(d)' = Osc(d) /\ JobStart(d)' = JobStart(d)
      /\ JobIs(d, "evict")' = JobIs(d, "evict")
  BY Stable
<1>2. JobIs(d, "evict") => Evicting(d) BY DEF Evicting
<1>3. Evicting(d) => ~Idle(d) BY DEF Evicting, Idle, Booting, JobIs
<1>4. Evicting(d) => Osc(d) \in Component BY <1>3, OwnTask
<1>5. ASSUME Evicting(d), NEW p \in Parts(Osc(d)), NEW w \in Way, mCacheWays[w].dataStart = p,
             pc[d] = "free" \/ w < way[d], NEW u \in PagesOf(Osc(d), p)
      PROVE  Cleared(d, u)'
  <2>1. Cleared(d, u) BY <1>5 DEF EvictInv
  <2>2. ASSUME Working(d), u = page[d] PROVE FALSE
    <3>1. pc[d] = "job" BY <2>2 DEF Working
    <3>2. JobIs(d, "evict") /\ TaskJob(d) BY <1>5, <3>1 DEF Evicting, JobIs, TaskJob
    <3>3. JobStart(d) = mCacheWays[way[d]].dataStart /\ way[d] \in Way BY <3>2, TaskJobFacts DEF JobIs
    <3>4. PICK o \in Component : JobStart(d) \in Parts(o) /\ page[d] \in PagesOf(o, JobStart(d))
      BY <2>2, <3>2, TaskPlace
    <3>5. p = JobStart(d) BY <1>4, <1>5, <2>2, <3>4, PartsApart
    <3>6. p # 0 BY <1>4, <1>5, PartsFacts
    <3>7. w = way[d] BY <1>5, <3>3, <3>5, <3>6 DEF IInv, LabelsInv
    <3>8. w \in Nat BY DEF Way
    <3> QED BY <1>5, <3>1, <3>7, <3>8
  <2> QED BY <1>5, <2>1, <2>2
<1>6. ASSUME JobIs(d, "evict"), NEW u \in PagesOf(Osc(d), JobStart(d)), u < page[d]
      PROVE  Cleared(d, u)'
  <2>1. Cleared(d, u) BY <1>6 DEF EvictInv
  <2>2. JobStart(d) \in Parts(Osc(d)) BY <1>6, TaskJobFacts DEF TaskJob
  <2>3. u \in Nat BY <1>2, <1>4, <1>6, <2>2, PartPages
  <2>4. u # page[d] BY <1>6, <2>3
  <2> QED BY <1>2, <1>6, <2>1, <2>2, <2>4
<1>7. page'[d] = page[d] /\ pc' = pc /\ way' = way /\ mCacheWays' = mCacheWays
  OBVIOUS
<1>8. \A p : PagesOf(Osc(d), p)' = PagesOf(Osc(d), p) /\ Parts(Osc(d))' = Parts(Osc(d))
  BY <1>1 DEF PagesOf, Parts, Owned, PartEnd
<1>9. PagesOf(Osc(d), JobStart(d))' = PagesOf(Osc(d), JobStart(d)) BY <1>1 DEF PagesOf, PartEnd
<1>10. (Evicting(d) => \A p \in Parts(Osc(d)) : \A w \in Way :
          mCacheWays[w].dataStart = p /\ (pc[d] = "free" \/ w < way[d]) =>
              \A v \in PagesOf(Osc(d), p) : Cleared(d, v))'
  BY <1>1, <1>5, <1>7, <1>8
<1>11. (JobIs(d, "evict") => \A v \in PagesOf(Osc(d), JobStart(d)) : v < page[d] => Cleared(d, v))'
  BY <1>1, <1>6, <1>7, <1>9
<1> QED BY <1>1, <1>7, <1>10, <1>11 DEF EvictInv

LEMMA MovePageStep ==
    ASSUME IInv, DataInv, Coloring, NEW c \in Core, MovePage(c)
    PROVE  DataInv'
<1>1. /\ moving[c] = Nil /\ Working(c) /\ ColoredInv
      /\ directory' = directory /\ memory' = memory
      /\ UNCHANGED <<mCacheWays, pc, job, way, active, at, oscStart>>
      /\ page' = page /\ step' = step /\ variant' = variant
      /\ pte' \in [Page -> [base : Page, cacheable : BOOLEAN]]
      /\ \A u \in Page : u # c => pte'[u].base = pte[u].base
      /\ tlb' = [tlb EXCEPT ![c] = [u \in Page |-> Nil]]
  BY MovePageFacts
<1>2. PICK m \in Move :
         /\ moving' = [moving EXCEPT ![c] = m]
         /\ m.page = page[c] /\ m.to = Target(c) /\ m.cacheable = Prefetches(c)
         /\ m.dummy => ~Prefetches(c)
         /\ m.window = IF m.dummy THEN c ELSE Target(c)
         /\ ~m.copied /\ pte'[m.window].base = Target(c)
  BY MovePageFacts
<1>3. PageTypes /\ EndsInv BY DEF DataInv
<1>4. /\ (\A d \in Core : step[d] = Nil /\ JobInv(d) /\ MoveInv(d) /\ EvictInv(d))
      /\ HomeInv /\ MemInv /\ TlbInv /\ ColorInv /\ CritInv
  BY <1>1 DEF ColoredInv
<1>5. /\ moving'[c] = m /\ m # Nil /\ \A d \in Core : d # c => moving'[d] = moving[d] /\ tlb'[d] = tlb[d]
      /\ \A u \in Page : tlb'[c][u] = Nil
  <2>1. m # Nil BY <1>2, PageTableAssumption
  <2>2. moving'[c] = m /\ \A d \in Core : d # c => moving'[d] = moving[d] BY <1>2, <1>3 DEF PageTypes
  <2> QED BY <1>1, <1>3, <2>1, <2>2 DEF PageTypes
<1>6. PageTypes'
  <2>1. Linked' BY <1>1, <1>3 DEF PageTypes, Linked
  <2>2. tlb' \in [Core -> [Page -> Page \cup {Nil}]] BY <1>1, <1>3 DEF PageTypes
  <2>3. moving' \in [Core -> Move \cup {Nil}] BY <1>2, <1>3 DEF PageTypes
  <2> QED BY <1>1, <1>3, <2>1, <2>2, <2>3 DEF PageTypes, Move
<1>7. EndsInv' /\ CritInv' /\ \A d \in Core : JobInv(d)' BY <1>1, <1>3, <1>4, Stable
<1>8. ASSUME NEW o \in Component, NEW p \in Parts(o), NEW u \in PagesOf(o, p)
      PROVE  u \in Page /\ pte'[u].base = pte[u].base
  BY <1>1, PartPages
<1>9. HomeInv'
  <2> SUFFICES ASSUME NEW o \in Component, NEW p \in Parts(o), NEW u \in PagesOf(o, p)
               PROVE  pte'[u].base = u
                      \/ \E w \in Way : pte'[u].base = ColorPage(w, u - p) /\ Away(w, p)'
    BY DEF HomeInv
  <2>1. \A w : Away(w, p)' = Away(w, p) BY <1>1, Stable
  <2> QED BY <1>4, <1>8, <2>1 DEF HomeInv
<1>10. MemInv' BY <1>1, <1>4, <1>8 DEF MemInv
<1>11. TlbInv'
  <2> SUFFICES ASSUME NEW d \in Core, NEW o \in Component, NEW p \in Parts(o), NEW u \in PagesOf(o, p),
                      tlb'[d][u] # Nil
               PROVE  /\ tlb'[d][u] = pte'[u].base
                      /\ \/ moving'[d] # Nil /\ moving'[d].page = u
                         \/ \E i \in 1 .. Len(active[d]) : active[d][i] = o /\ Holds(d, i, p)'
    BY <1>1 DEF TlbInv
  <2>1. d # c BY <1>5, <1>8
  <2>2. \A i : Holds(d, i, p)' = Holds(d, i, p) BY <1>1, Stable
  <2> QED BY <1>4, <1>5, <1>8, <2>1, <2>2 DEF TlbInv
<1>12. ColorInv'
  <2>1. \A q \in Page : q >= ColorsStart => q # c BY CoresArePages, ColorAssumption
  <2> QED BY <1>1, <1>4, <2>1 DEF ColorInv
<1>13. MoveInv(c)'
  <2>1. Target(c)' = Target(c) /\ Working(c)' = Working(c) /\ Prefetches(c)' = Prefetches(c)
    BY <1>1, Stable
  <2>2. page[c] \in Page /\ m.window \in Page BY <1>2 DEF Move
  <2> QED BY <1>1, <1>2, <1>5, <2>1, <2>2 DEF MoveInv
<1>14. ASSUME NEW d \in Core, d # c PROVE MoveInv(d)'
  <2>1. ASSUME moving[d] # Nil
        PROVE  /\ pte'[moving[d].window].base = pte[moving[d].window].base
               /\ pte'[page[d]].base = pte[page[d]].base
    <3>1. Working(d) /\ moving[d].window = IF moving[d].dummy THEN d ELSE Target(d)
      BY <1>4, <2>1 DEF MoveInv
    <3>2. TaskJob(d) BY <1>1, <1>3, <1>4, <1>14, <3>1, TargetsDiffer
    <3>3. /\ page[d] \in Page /\ page[d] # c
          /\ Target(d) \in Page /\ Target(d) # c
      <4>1. /\ page[d] \in Page /\ page[d] \notin Core
            /\ Prefetches(d) => Target(d) \in Page /\ Target(d) >= ColorsStart
            /\ ~Prefetches(d) => Target(d) = page[d]
        BY <1>3, <1>4, <3>1, <3>2, WorkPlace
      <4>2. c \in Nat /\ c < ColorsStart /\ ColorsStart \in Nat BY CoresArePages, ColorAssumption
      <4> QED BY <4>1, <4>2
    <3>4. moving[d].window \in Page /\ moving[d].window # c
      BY <1>14, <3>1, <3>3, CoresArePages
    <3> QED BY <1>1, <3>3, <3>4
  <2> QED BY <1>1, <1>4, <1>5, <1>14, <2>1, MoveKept
<1>15. ASSUME NEW d \in Core PROVE EvictInv(d)'
  <2>1. ASSUME NEW p \in Parts(Osc(d)), NEW u \in PagesOf(Osc(d), p), Evicting(d), Cleared(d, u)
        PROVE  Cleared(d, u)'
    <3>1. ~Idle(d) BY <2>1 DEF Evicting, Idle, Booting, JobIs
    <3>2. Osc(d) \in Component BY <3>1, OwnTask
    <3>3. u \in Page /\ pte'[u].base = pte[u].base BY <1>8, <3>2
    <3>4. tlb'[d][u] = Nil BY <1>5, <2>1, <3>3 DEF Cleared
    <3> QED BY <2>1, <3>3, <3>4 DEF Cleared
  <2> QED BY <1>1, <1>3, <1>4, <2>1, EvictKept
<1>16. ColoredInv'
  BY <1>1, <1>4, <1>7, <1>9, <1>10, <1>11, <1>12, <1>13, <1>14, <1>15 DEF ColoredInv
<1> QED BY <1>1, <1>6, <1>7, <1>16 DEF DataInv, Coloring, Backend

LEMMA MoveFacts ==
    ASSUME IInv, DataInv, Coloring, NEW c \in Core, moving[c] # Nil
    PROVE  /\ PageTypes /\ EndsInv /\ ColoredInv /\ moving[c] \in Move
           /\ Working(c) /\ JobInv(c) /\ MoveInv(c)
           /\ page[c] \in Page /\ Target(c) \in Page /\ moving[c].window \in Page
           /\ moving[c].page = page[c] /\ moving[c].to = Target(c)
           /\ moving[c].cacheable = Prefetches(c)
           /\ Translate(c, moving[c].window) = Target(c)
           /\ Translate(c, page[c]) = pte[page[c]].base /\ pte[page[c]].base \in Page
<1>1. PageTypes /\ EndsInv /\ ColoredInv BY DEF DataInv
<1>2. moving[c] \in Move /\ JobInv(c) /\ MoveInv(c) /\ CritInv BY <1>1 DEF PageTypes, ColoredInv
<1>3. /\ Working(c) /\ moving[c].page = page[c] /\ moving[c].to = Target(c)
      /\ moving[c].cacheable = Prefetches(c)
      /\ pte[moving[c].window].base = Target(c)
      /\ tlb[c][moving[c].window] \in {Nil, Target(c)}
      /\ tlb[c][page[c]] \in {Nil, pte[page[c]].base}
  BY <1>2 DEF MoveInv
<1>4. page[c] \in Page /\ Target(c) \in Page /\ moving[c].window \in Page
  BY <1>2, <1>3 DEF Move
<1>5. Linked /\ pte[page[c]].base \in Page BY <1>1, <1>4 DEF PageTypes
<1>6. PhysicalAddress(page[c]) = pte[page[c]].base
      /\ PhysicalAddress(moving[c].window) = pte[moving[c].window].base
  BY <1>4, <1>5, EntryIs DEF PhysicalAddress
<1> QED BY <1>1, <1>2, <1>3, <1>4, <1>5, <1>6 DEF Translate

(* A page of a component is a window only when it is moved home.           *)
LEMMA WindowFacts ==
    ASSUME IInv, DataInv, Coloring, NEW c \in Core, moving[c] # Nil,
           NEW o \in Component, NEW p \in Parts(o), moving[c].window \in PagesOf(o, p)
    PROVE  moving[c].window = page[c]
<1>1. EndsInv /\ CritInv /\ JobInv(c) /\ Working(c) /\ MoveInv(c) BY MoveFacts DEF ColoredInv
<1>2. moving[c].window = IF moving[c].dummy THEN c ELSE Target(c) BY <1>1 DEF MoveInv
<1>3. /\ moving[c].window \notin Core /\ moving[c].window < ColorsStart
      /\ moving[c].window \in Nat
  BY PartPages
<1>4. moving[c].window = Target(c) BY <1>2, <1>3
<1>5. /\ Prefetches(c) => Target(c) >= ColorsStart
      /\ ~Prefetches(c) => Target(c) = page[c]
  BY <1>1, WorkPlace
<1> QED BY <1>3, <1>4, <1>5, ColorAssumption

LEMMA CopyStep ==
    ASSUME IInv, DataInv, Coloring, NEW c \in Core, Copy(c)
    PROVE  DataInv'
<1> DEFINE m == moving[c]
           n == [m EXCEPT !.copied = TRUE]
           x == page[c]
           z == Target(c)
           b == pte[x].base
<1>1. /\ m # Nil /\ ~m.copied
      /\ memory' = [memory EXCEPT ![Translate(c, m.window)] = memory[Translate(c, m.page)]]
      /\ tlb' = [tlb EXCEPT ![c][m.page] = Translate(c, m.page),
                            ![c][m.window] = Translate(c, m.window)]
      /\ moving' = [moving EXCEPT ![c].copied = TRUE]
      /\ directory' = directory /\ pte' = pte
      /\ UNCHANGED <<mCacheWays, pc, job, way, active, at, oscStart>>
      /\ page' = page /\ step' = step /\ variant' = variant
  BY DEF Copy, CopyPage, wayVars, hwVars, taskVars
<1>2. /\ PageTypes /\ EndsInv /\ ColoredInv /\ m \in Move /\ Working(c)
      /\ x \in Page /\ z \in Page /\ m.window \in Page /\ m.page = x /\ m.to = z
      /\ Translate(c, m.window) = z /\ Translate(c, x) = b /\ b \in Page
  BY <1>1, MoveFacts
<1>3. /\ (\A d \in Core : step[d] = Nil /\ JobInv(d) /\ MoveInv(d) /\ EvictInv(d))
      /\ HomeInv /\ MemInv /\ TlbInv /\ ColorInv /\ CritInv /\ page \in [Core -> Nat]
  BY <1>2 DEF ColoredInv
<1>4. n \in Move /\ n # Nil /\ n.page = m.page /\ n.to = m.to /\ n.cacheable = m.cacheable
      /\ n.window = m.window /\ n.dummy = m.dummy
  <2>1. /\ n \in Move /\ n.page = m.page /\ n.to = m.to /\ n.cacheable = m.cacheable
        /\ n.window = m.window /\ n.dummy = m.dummy
    BY <1>2 DEF Move
  <2> QED BY <2>1, PageTableAssumption
<1> DEFINE y == m.window
<1>5. moving' = [moving EXCEPT ![c] = n] BY <1>1, <1>2 DEF PageTypes
<1> HIDE DEF n
<1>6. moving'[c] = n /\ \A d \in Core : d # c => moving'[d] = moving[d]
  BY <1>2, <1>5 DEF PageTypes
<1>7. memory' = [memory EXCEPT ![z] = memory[b]] BY <1>1, <1>2
<1>8. /\ tlb' \in [Core -> [Page -> Page \cup {Nil}]]
      /\ \A d \in Core : d # c => tlb'[d] = tlb[d]
      /\ \A u \in Page : tlb'[c][u] = IF u = y THEN z ELSE IF u = x THEN b ELSE tlb[c][u]
  <2>1. tlb \in [Core -> [Page -> Page \cup {Nil}]] BY <1>2 DEF PageTypes
  <2>2. tlb' = [tlb EXCEPT ![c][x] = b, ![c][y] = z] BY <1>1, <1>2
  <2>3. x \in Page /\ y \in Page /\ b \in Page /\ z \in Page BY <1>2
  <2> HIDE DEF x, y, z, b
  <2> QED BY <2>1, <2>2, <2>3
<1>9. pte[y].base = z /\ TaskJob(c) => memory[b] = x
  <2>1. pte[y].base = z BY <1>1, <1>3 DEF MoveInv
  <2>2. ASSUME TaskJob(c) PROVE memory[b] = x
    <3>1. PICK o \in Component : JobStart(c) \in Parts(o) /\ x \in PagesOf(o, JobStart(c))
      BY <1>2, <1>3, <2>2, TaskPlace
    <3> QED BY <1>3, <3>1 DEF MemInv
  <2> QED BY <2>1, <2>2
<1>10. pte[y].base = z BY <1>1, <1>3 DEF MoveInv
<1>11. ASSUME NEW o \in Component, NEW p \in Parts(o), NEW u \in PagesOf(o, p)
       PROVE  u \in Page /\ (u = y => u = x)
  BY <1>1, <1>11, PartPages, WindowFacts
<1> HIDE DEF m, x, y, z, b
<1>12. PageTypes'
  <2>1. Linked' BY <1>1, <1>2 DEF PageTypes, Linked
  <2>2. memory' \in [Page -> Page \cup {Nil}] BY <1>2, <1>7 DEF PageTypes
  <2>3. moving' \in [Core -> Move \cup {Nil}] BY <1>2, <1>4, <1>5 DEF PageTypes
  <2> QED BY <1>1, <1>2, <1>8, <2>1, <2>2, <2>3 DEF PageTypes, Move
<1>13. EndsInv' /\ CritInv' /\ \A d \in Core : JobInv(d)' BY <1>1, <1>2, <1>3, Stable
<1>14. HomeInv'
  <2>1. \A w, p : Away(w, p)' = Away(w, p) BY <1>1, Stable
  <2> QED BY <1>1, <1>3, <2>1 DEF HomeInv
<1>15. MemInv'
  <2> SUFFICES ASSUME NEW o \in Component, NEW p \in Parts(o), NEW u \in PagesOf(o, p)
               PROVE  memory'[pte[u].base] = u
    BY <1>1 DEF MemInv
  <2>1. memory[pte[u].base] = u BY <1>3 DEF MemInv
  <2>2. u \in Page /\ pte[u].base \in Page BY <1>2, <1>11 DEF PageTypes
  <2>3. CASE pte[u].base = z
    <3>1. u = x BY <1>2, <1>3, <2>3, TargetFree DEF z, x
    <3> QED BY <1>2, <1>7, <2>1, <2>3, <3>1 DEF PageTypes, b
  <2>4. CASE pte[u].base # z
    BY <1>2, <1>7, <2>1, <2>2, <2>4 DEF PageTypes
  <2> QED BY <2>3, <2>4
<1>16. TlbInv'
  <2> SUFFICES ASSUME NEW d \in Core, NEW o \in Component, NEW p \in Parts(o), NEW u \in PagesOf(o, p),
                      tlb'[d][u] # Nil
               PROVE  /\ tlb'[d][u] = pte'[u].base
                      /\ \/ moving'[d] # Nil /\ moving'[d].page = u
                         \/ \E i \in 1 .. Len(active[d]) : active[d][i] = o /\ Holds(d, i, p)'
    <3>1. active' = active BY <1>1
    <3> QED BY <3>1 DEF TlbInv
  <2>5. pte'[u].base = pte[u].base BY <1>1
  <2>1. \A i : Holds(d, i, p)' = Holds(d, i, p) BY <1>1, Stable
  <2>2. CASE d # c BY <1>3, <1>6, <1>8, <2>1, <2>2, <2>5 DEF TlbInv
  <2>3. CASE d = c /\ u = x
    <3>1. moving'[d] # Nil /\ moving'[d].page = u BY <1>2, <1>4, <1>6, <2>3
    <3>2. tlb'[d][u] = pte[u].base
      BY <1>2, <1>8, <1>10, <2>3 DEF b
    <3> QED BY <2>5, <3>1, <3>2
  <2>4. CASE d = c /\ u # x
    <3>1. u \in Page /\ u # y BY <1>11, <2>4
    <3>2. tlb'[d][u] = tlb[d][u] BY <1>8, <2>4, <3>1
    <3>3. moving[d] # Nil /\ moving[d].page = u => moving'[d] # Nil /\ moving'[d].page = u
      BY <1>4, <1>6, <2>4 DEF m
    <3> QED BY <1>3, <2>1, <2>5, <3>2, <3>3 DEF TlbInv
  <2> QED BY <2>2, <2>3, <2>4
<1>17. ColorInv' BY <1>1, <1>3 DEF ColorInv
<1>18. MoveInv(c)'
  <2>1. /\ Target(c)' = z /\ Working(c)' = Working(c) /\ Prefetches(c)' = Prefetches(c)
        /\ TaskJob(c)' = TaskJob(c) /\ page'[c] = x /\ moving'[c] = n
    BY <1>1, <1>6, Stable DEF z, x
  <2>2. /\ n.page = x /\ n.to = z /\ n.cacheable = Prefetches(c) /\ n.window = y
        /\ n.dummy => ~Prefetches(c)
        /\ n.window = IF n.dummy THEN c ELSE z
    <3>1. MoveInv(c) /\ m # Nil BY <1>1, <1>3
    <3> QED BY <1>4, <3>1 DEF MoveInv, m, x, y, z
  <2>3. tlb'[c][y] = z /\ tlb'[c][x] \in {Nil, pte'[x].base}
    BY <1>1, <1>2, <1>8, <1>10 DEF b, y
  <2>4. TaskJob(c) => memory'[z] = x
    BY <1>2, <1>7, <1>9, <1>10 DEF PageTypes
  <2> QED BY <1>1, <1>2, <1>10, <2>1, <2>2, <2>3, <2>4 DEF MoveInv
<1>19. ASSUME NEW d \in Core, d # c PROVE MoveInv(d)'
  <2>1. ASSUME moving[d] # Nil PROVE memory'[Target(d)] = memory[Target(d)]
    <3>1. Working(d) BY <1>3, <2>1 DEF MoveInv
    <3>2. Target(d) # z BY <1>2, <1>3, <1>19, <3>1, TargetsDiffer DEF z
    <3>3. Target(d) \in Page BY <2>1, MoveFacts
    <3> QED BY <1>2, <1>7, <3>2, <3>3 DEF PageTypes
  <2> QED BY <1>1, <1>3, <1>6, <1>8, <1>19, <2>1, MoveKept
<1>20. ASSUME NEW d \in Core PROVE EvictInv(d)'
  <2>1. ASSUME NEW p \in Parts(Osc(d)), NEW u \in PagesOf(Osc(d), p), Evicting(d), Cleared(d, u),
               ~(Working(d) /\ u = page[d])
        PROVE  Cleared(d, u)'
    <3>1. ~Idle(d) BY <2>1 DEF Evicting, Idle, Booting, JobIs
    <3>2. Osc(d) \in Component BY <3>1, OwnTask
    <3>3. d = c => u # x BY <1>2, <2>1 DEF x
    <3>4. u \in Page /\ (d = c => u # y) BY <1>11, <3>2, <3>3
    <3>5. tlb'[d][u] = tlb[d][u] BY <1>8, <3>3, <3>4
    <3> QED BY <1>1, <2>1, <3>5 DEF Cleared
  <2> QED BY <1>1, <1>2, <1>3, <2>1, EvictKept
<1>21. ColoredInv'
  BY <1>1, <1>3, <1>13, <1>14, <1>15, <1>16, <1>17, <1>18, <1>19, <1>20 DEF ColoredInv
<1> QED BY <1>1, <1>12, <1>13, <1>21 DEF DataInv, Coloring, Backend

----------------------------------------------------------------------------
LEMMA NextPageFacts ==
    ASSUME IInv, DataInv, Coloring, NEW c \in Core, NextPage(c)
    PROVE  /\ moving[c] # Nil /\ moving[c].copied /\ directory' = directory
           /\ UNCHANGED <<mCacheWays, pc, job, way, active, at, oscStart, step, variant, mLock>>
           /\ page' = [page EXCEPT ![c] = page[c] + 1]
           /\ pte' \in [Page -> [base : Page, cacheable : BOOLEAN]]
           /\ \A u \in Page : u # page[c] /\ u # c => pte'[u] = pte[u]
           /\ pte'[page[c]] = To(Target(c), Prefetches(c))
           /\ tlb' = [tlb EXCEPT ![c] = [u \in Page |-> Nil]]
           /\ moving' = [moving EXCEPT ![c] = Nil]
           /\ memory' = [q \in Page |-> IF memory[q] = page[c] /\ q # Target(c)
                                        THEN Nil ELSE memory[q]]
<1> DEFINE m == moving[c]
           dummies == IF m.dummy THEN {DummyPage(c)} ELSE {}
           to == [u \in {m.page} \cup dummies |->
                     IF u = m.page THEN To(m.to, m.cacheable) ELSE To(u, FALSE)]
<1>1. /\ m # Nil /\ m.copied /\ directory' = directory
      /\ UNCHANGED <<mCacheWays, pc, job, way, active, at, oscStart, step, variant, mLock>>
      /\ page' = [page EXCEPT ![c] = page[c] + 1]
      /\ Map(c, to)
      /\ moving' = [moving EXCEPT ![c] = Nil]
      /\ memory' = [q \in Page |-> IF memory[q] = m.page /\ q # m.to THEN Nil ELSE memory[q]]
  BY DEF NextPage, EndMove, wayVars, hwVars, taskVars
<1>2. /\ PageTypes /\ m \in Move /\ page[c] \in Page /\ Target(c) \in Page
      /\ m.page = page[c] /\ m.to = Target(c) /\ m.cacheable = Prefetches(c)
  BY <1>1, MoveFacts
<1>3. dummies \subseteq {c} /\ c \in Page BY CoresArePages DEF DummyPage
<1> HIDE DEF m, dummies
<1>4. DOMAIN to = {page[c]} \cup dummies /\ DOMAIN to \subseteq Page
      /\ to[page[c]] = To(Target(c), Prefetches(c))
      /\ \A u \in DOMAIN to : u # page[c] => to[u] = To(u, FALSE)
  BY <1>2, <1>3
<1> HIDE DEF to
<1>5. Linked /\ pte \in [Page -> [base : Page, cacheable : BOOLEAN]] BY <1>2 DEF PageTypes
<1>6. /\ pte' = [u \in Page |-> IF u \in DOMAIN to THEN to[u] ELSE pte[u]]
      /\ tlb' = [tlb EXCEPT ![c] = [u \in Page |-> Nil]]
  BY <1>1, <1>4, <1>5, MapIs
<1>7. \A u \in Page : u # page[c] /\ u # c => pte'[u] = pte[u] BY <1>3, <1>4, <1>6
<1>8. pte'[page[c]] = To(Target(c), Prefetches(c)) BY <1>2, <1>4, <1>6
<1>9. \A u \in DOMAIN to : to[u] \in [base : Page, cacheable : BOOLEAN]
  <2>1. Prefetches(c) \in BOOLEAN BY DEF Prefetches
  <2>2. to[page[c]] \in [base : Page, cacheable : BOOLEAN] BY <1>2, <1>4, <2>1 DEF To
  <2>3. \A u \in Page : To(u, FALSE) \in [base : Page, cacheable : BOOLEAN] BY DEF To
  <2>4. \A u \in DOMAIN to : u # page[c] => to[u] \in [base : Page, cacheable : BOOLEAN]
    BY <1>4, <2>3
  <2> QED BY <2>2, <2>4
<1>10. pte' \in [Page -> [base : Page, cacheable : BOOLEAN]] BY <1>5, <1>6, <1>9
<1> QED BY <1>1, <1>2, <1>6, <1>7, <1>8, <1>10 DEF m

LEMMA NextPageStep ==
    ASSUME IInv, DataInv, Coloring, NEW c \in Core, NextPage(c)
    PROVE  DataInv'
<1> DEFINE x == page[c]
           z == Target(c)
<1>1. /\ moving[c] # Nil /\ moving[c].copied /\ directory' = directory
      /\ UNCHANGED <<mCacheWays, pc, job, way, active, at, oscStart>>
      /\ step' = step /\ variant' = variant
      /\ page' = [page EXCEPT ![c] = x + 1]
      /\ pte' \in [Page -> [base : Page, cacheable : BOOLEAN]]
      /\ \A u \in Page : u # x /\ u # c => pte'[u] = pte[u]
      /\ pte'[x] = To(z, Prefetches(c))
      /\ tlb' = [tlb EXCEPT ![c] = [u \in Page |-> Nil]]
      /\ moving' = [moving EXCEPT ![c] = Nil]
      /\ memory' = [q \in Page |-> IF memory[q] = x /\ q # z THEN Nil ELSE memory[q]]
  BY NextPageFacts
<1>2. /\ PageTypes /\ EndsInv /\ ColoredInv /\ Working(c) /\ x \in Page /\ z \in Page
  BY <1>1, MoveFacts
<1>3. /\ (\A d \in Core : step[d] = Nil /\ JobInv(d) /\ MoveInv(d) /\ EvictInv(d))
      /\ HomeInv /\ MemInv /\ TlbInv /\ ColorInv /\ CritInv /\ page \in [Core -> Nat]
  BY <1>2 DEF ColoredInv
<1>4. /\ pte'[x].base = z /\ moving'[c] = Nil /\ page'[c] = x + 1
      /\ \A d \in Core : d # c => /\ moving'[d] = moving[d] /\ tlb'[d] = tlb[d]
                                  /\ page'[d] = page[d]
      /\ \A u \in Page : tlb'[c][u] = Nil
  BY <1>1, <1>2, <1>3 DEF PageTypes, To
<1>5. /\ x \in Nat /\ x < ColorsStart
      /\ Prefetches(c) => way[c] \in Way /\ z = ColorPage(way[c], x - oscStart[c])
      /\ ~Prefetches(c) => z = x
      /\ TaskJob(c) => x \notin Core
      /\ ~TaskJob(c) => \A o \in Component : x \notin Owned(o)
      /\ pc[c] = "job"
  BY <1>2, <1>3, WorkPlace
(* The part of the component that the page belongs to.                     *)
<1>6. ASSUME NEW o \in Component, NEW p \in Parts(o), NEW u \in PagesOf(o, p)
      PROVE  /\ u \in Page /\ u \notin Core
             /\ u # x => pte'[u] = pte[u]
             /\ u = x => /\ TaskJob(c) /\ p = JobStart(c) /\ p # 0
                         /\ ~JobIs(c, "victim") => o = Osc(c)
  <2>1. u \in Page /\ u \notin Core /\ u \in Owned(o) /\ p \in Nat \ {0} BY PartPages
  <2>2. ASSUME u = x
        PROVE  TaskJob(c) /\ p = JobStart(c) /\ (~JobIs(c, "victim") => o = Osc(c))
    <3>1. TaskJob(c) BY <1>5, <2>1, <2>2
    <3>2. PICK q \in Component : /\ JobStart(c) \in Parts(q) /\ x \in PagesOf(q, JobStart(c))
                                 /\ ~JobIs(c, "victim") => q = Osc(c)
      BY <1>2, <1>3, <3>1, TaskPlace
    <3>3. q = o /\ p = JobStart(c) BY <2>2, <3>2, PartsApart
    <3> QED BY <3>1, <3>2, <3>3
  <2> QED BY <1>1, <2>1, <2>2
<1> HIDE DEF x, z
<1>7. PageTypes'
  <2>1. Linked' BY <1>1, <1>2 DEF PageTypes, Linked
  <2>2. tlb' \in [Core -> [Page -> Page \cup {Nil}]] BY <1>1, <1>2 DEF PageTypes
  <2>3. moving' \in [Core -> Move \cup {Nil}] BY <1>1, <1>2 DEF PageTypes
  <2>4. memory' \in [Page -> Page \cup {Nil}] BY <1>1, <1>2 DEF PageTypes
  <2> QED BY <1>1, <2>1, <2>2, <2>3, <2>4 DEF PageTypes, Move
<1>8. EndsInv' /\ CritInv' /\ \A d \in Core : d # c => JobInv(d)'
  <2>1. EndsInv' = EndsInv /\ CritInv' = CritInv BY <1>1, Stable
  <2>2. \A d \in Core : d # c => JobInv(d)' = JobInv(d) BY <1>1, <1>4, Stable
  <2> QED BY <1>2, <1>3, <2>1, <2>2
<1>9. JobInv(c)'
  <2>1. /\ TaskJob(c)' = TaskJob(c) /\ JobStart(c)' = JobStart(c) /\ JobEnd(c)' = JobEnd(c)
        /\ JobIs(c, "critical")' = JobIs(c, "critical")
    BY <1>1, Stable
  <2>2. x < JobEnd(c) /\ JobInv(c) BY <1>2, <1>3 DEF Working, x
  <2>3. ASSUME TaskJob(c) PROVE JobStart(c) # 0 /\ x + 1 \in JobStart(c) .. JobEnd(c)
    <3>1. JobStart(c) # 0 /\ x \in JobStart(c) .. JobEnd(c) BY <2>2, <2>3 DEF JobInv, x
    <3>2. PICK o \in Component : JobStart(c) \in Parts(o) /\ JobEnd(c) = PartEnd(JobStart(c), End[o])
      BY <1>2, <2>3, <3>1, JobPlace
    <3>3. JobStart(c) \in Nat /\ JobEnd(c) \in Nat BY <3>2, PartPages
    <3> QED BY <2>2, <3>1, <3>3
  <2>4. ASSUME JobIs(c, "critical") PROVE x + 1 \in oscStart[c] .. JobEnd(c)
    <3>1. x \in oscStart[c] .. JobEnd(c) BY <2>2, <2>4 DEF JobInv, x
    <3>2. oscStart[c] \in Nat /\ JobEnd(c) \in Nat BY <1>3, <2>4, CriticalPlace
    <3> QED BY <2>2, <3>1, <3>2
  <2>5. oscStart'[c] = oscStart[c] BY <1>1
  <2> QED BY <1>4, <2>1, <2>3, <2>4, <2>5 DEF JobInv
<1>10. HomeInv'
  <2> SUFFICES ASSUME NEW o \in Component, NEW p \in Parts(o), NEW u \in PagesOf(o, p)
               PROVE  pte'[u].base = u
                      \/ \E w \in Way : pte'[u].base = ColorPage(w, u - p) /\ Away(w, p)'
    BY DEF HomeInv
  <2>1. \A w : Away(w, p)' = Away(w, p) BY <1>1, Stable
  <2>2. CASE u # x BY <1>3, <1>6, <2>1, <2>2 DEF HomeInv
  <2>3. CASE u = x /\ ~Prefetches(c) BY <1>4, <1>5, <2>3
  <2>4. CASE u = x /\ Prefetches(c)
    <3>1. TaskJob(c) /\ p = JobStart(c) BY <1>6, <2>4
    <3>2. JobIs(c, "load") BY <2>4, <3>1, TaskJobFacts
    <3>3. Current(c) /\ p = oscStart[c] BY <3>1, <3>2, TaskJobFacts
    <3>4. Away(way[c], p) BY <3>3 DEF Away, AtHand
    <3> QED BY <1>4, <1>5, <2>1, <2>4, <3>3, <3>4
  <2> QED BY <2>2, <2>3, <2>4
<1>11. MemInv'
  <2> SUFFICES ASSUME NEW o \in Component, NEW p \in Parts(o), NEW u \in PagesOf(o, p)
               PROVE  memory'[pte'[u].base] = u
    BY DEF MemInv
  <2>1. CASE u = x
    <3>1. TaskJob(c) BY <1>6, <2>1
    <3>2. memory[z] = x BY <1>1, <1>3, <3>1 DEF MoveInv, x, z
    <3> QED BY <1>1, <1>2, <1>4, <2>1, <3>2
  <2>2. CASE u # x
    <3>1. pte'[u].base = pte[u].base /\ u \in Page BY <1>6, <2>2
    <3>2. memory[pte[u].base] = u /\ pte[u].base \in Page BY <1>2, <1>3, <3>1 DEF MemInv, PageTypes
    <3> QED BY <1>1, <2>2, <3>1, <3>2
  <2> QED BY <2>1, <2>2
<1>12. TlbInv'
  <2> SUFFICES ASSUME NEW d \in Core, NEW o \in Component, NEW p \in Parts(o), NEW u \in PagesOf(o, p),
                      tlb'[d][u] # Nil
               PROVE  /\ tlb'[d][u] = pte'[u].base
                      /\ \/ moving'[d] # Nil /\ moving'[d].page = u
                         \/ \E i \in 1 .. Len(active[d]) : active[d][i] = o /\ Holds(d, i, p)'
    <3>1. active' = active BY <1>1
    <3> QED BY <3>1 DEF TlbInv
  <2>1. d # c BY <1>4, <1>6
  <2>2. \A i : Holds(d, i, p)' = Holds(d, i, p) BY <1>1, Stable
  <2>3. tlb[d][u] # Nil BY <1>4, <2>1
  <2>4. /\ tlb[d][u] = pte[u].base
        /\ \/ moving[d] # Nil /\ moving[d].page = u
           \/ \E i \in 1 .. Len(active[d]) : active[d][i] = o /\ Holds(d, i, p)
    BY <1>3, <2>3 DEF TlbInv
  <2>5. ASSUME u = x PROVE FALSE
    <3>1. TaskJob(c) /\ p = JobStart(c) /\ p # 0 BY <1>6, <2>5
    <3>2. ~(moving[d] # Nil /\ moving[d].page = u)
      <4> SUFFICES ASSUME moving[d] # Nil, moving[d].page = u PROVE FALSE
        OBVIOUS
      <4>1. Working(d) /\ page[d] = u BY <1>3 DEF MoveInv
      <4> QED BY <1>2, <1>3, <2>1, <2>5, <4>1, TargetsDiffer DEF x
    <3> QED BY <2>1, <2>4, <3>1, <3>2, NotHeldByOthers
  <2>6. pte'[u] = pte[u] BY <1>6, <2>5
  <2> QED BY <1>4, <2>1, <2>2, <2>4, <2>6
<1>13. ColorInv'
  <2>1. \A q \in Page : q >= ColorsStart => q # c /\ q # x
    BY <1>5, CoresArePages, ColorAssumption
  <2> QED BY <1>1, <1>3, <2>1 DEF ColorInv
<1>14. MoveInv(c)' BY <1>4 DEF MoveInv
<1>15. ASSUME NEW d \in Core, d # c PROVE MoveInv(d)'
  <2>1. ASSUME moving[d] # Nil
        PROVE  /\ pte'[moving[d].window].base = pte[moving[d].window].base
               /\ pte'[page[d]].base = pte[page[d]].base
               /\ memory[Target(d)] = page[d] => memory'[Target(d)] = page[d]
    <3>1. Working(d) /\ moving[d].window = IF moving[d].dummy THEN d ELSE Target(d)
      BY <1>3, <2>1 DEF MoveInv
    <3>2. /\ TaskJob(d) /\ TaskJob(c) /\ Target(d) # x /\ page[d] # x
      BY <1>2, <1>3, <1>15, <3>1, TargetsDiffer DEF x
    <3>3. /\ page[d] \in Page /\ page[d] # c
          /\ Target(d) \in Page /\ Target(d) # c
      <4>1. /\ page[d] \in Page /\ page[d] \notin Core
            /\ Prefetches(d) => Target(d) \in Page /\ Target(d) >= ColorsStart
            /\ ~Prefetches(d) => Target(d) = page[d]
        BY <1>2, <1>3, <3>1, <3>2, WorkPlace
      <4>2. c \in Nat /\ c < ColorsStart /\ ColorsStart \in Nat BY CoresArePages, ColorAssumption
      <4> QED BY <4>1, <4>2
    <3>4. d # x BY <1>5, <3>2
    <3>5. moving[d].window \in Page /\ moving[d].window # c /\ moving[d].window # x
      BY <1>15, <3>1, <3>2, <3>3, <3>4, CoresArePages
    <3>6. pte'[moving[d].window] = pte[moving[d].window] /\ pte'[page[d]] = pte[page[d]]
      BY <1>1, <3>2, <3>3, <3>5
    <3>7. memory[Target(d)] = page[d] => memory'[Target(d)] = page[d]
      BY <1>1, <3>2, <3>3
    <3> QED BY <3>6, <3>7
  <2> QED BY <1>1, <1>3, <1>4, <1>15, <2>1, MoveKept
<1>16. ASSUME NEW d \in Core, d # c PROVE EvictInv(d)'
  <2>1. ASSUME NEW p \in Parts(Osc(d)), NEW u \in PagesOf(Osc(d), p), Evicting(d), Cleared(d, u)
        PROVE  Cleared(d, u)'
    <3>1. ~Idle(d) BY <2>1 DEF Evicting, Idle, Booting, JobIs
    <3>2. Osc(d) \in Component BY <3>1, OwnTask
    <3>3. tlb'[d][u] = Nil BY <1>4, <1>16, <2>1 DEF Cleared
    <3>4. CASE u # x BY <1>6, <2>1, <3>2, <3>3, <3>4 DEF Cleared
    <3>5. CASE u = x
      <4>1. TaskJob(c) /\ (~JobIs(c, "victim") => Osc(d) = Osc(c)) BY <1>6, <3>2, <3>5
      <4>2. ~Idle(c) /\ (~JobIs(c, "load") => ~Prefetches(c)) BY <4>1, TaskJobFacts
      <4>3. Osc(d) # Osc(c) BY <1>16, <3>1, <4>2, TasksApart DEF IInv
      <4>4. JobIs(c, "victim") /\ ~JobIs(c, "load") BY <4>1, <4>3 DEF JobIs
      <4>5. pte'[u].base = u BY <1>4, <1>5, <3>5, <4>2, <4>4
      <4> QED BY <3>3, <4>5 DEF Cleared
    <3> QED BY <3>4, <3>5
  <2> QED BY <1>1, <1>2, <1>3, <1>4, <1>16, <2>1, EvictKept
<1>17. EvictInv(c)'
  <2>1. /\ Evicting(c)' = Evicting(c) /\ Osc(c)' = Osc(c) /\ JobStart(c)' = JobStart(c)
        /\ JobIs(c, "evict")' = JobIs(c, "evict") /\ way' = way /\ mCacheWays' = mCacheWays /\ pc' = pc
    BY <1>1, Stable
  <2>2. ASSUME Evicting(c) PROVE JobIs(c, "evict") /\ TaskJob(c) /\ Osc(c) \in Component /\ ~Prefetches(c)
                                 /\ JobStart(c) \in Parts(Osc(c))
    <3>1. JobIs(c, "evict") BY <1>5, <2>2 DEF Evicting
    <3>2. TaskJob(c) BY <3>1 DEF TaskJob
    <3>3. ~JobIs(c, "load") BY <3>1 DEF JobIs
    <3> QED BY <3>1, <3>2, <3>3, TaskJobFacts
  <2>3. ASSUME Evicting(c), NEW p \in Parts(Osc(c)), NEW u \in PagesOf(Osc(c), p),
               Cleared(c, u) \/ u = x
        PROVE  Cleared(c, u)'
    <3>1. u \in Page /\ (u # x => pte'[u] = pte[u]) /\ z = x BY <1>5, <1>6, <2>2, <2>3
    <3> QED BY <1>4, <2>3, <3>1 DEF Cleared
  <2>4. ASSUME Evicting(c), NEW p \in Parts(Osc(c)), NEW w \in Way, mCacheWays[w].dataStart = p,
               pc[c] = "free" \/ w < way[c], NEW u \in PagesOf(Osc(c), p)
        PROVE  Cleared(c, u)'
    <3>1. Cleared(c, u) BY <1>3, <2>4 DEF EvictInv
    <3> QED BY <2>3, <2>4, <3>1
  <2>5. ASSUME JobIs(c, "evict"), NEW u \in PagesOf(Osc(c), JobStart(c)), u < page'[c]
        PROVE  Cleared(c, u)'
    <3>1. Evicting(c) BY <2>5 DEF Evicting
    <3>2. JobStart(c) \in Parts(Osc(c)) /\ Osc(c) \in Component BY <2>2, <3>1
    <3>3. u \in Nat BY <3>2, PartPages
    <3>4. u < x \/ u = x BY <1>4, <1>5, <2>5, <3>3
    <3>5. u < x => Cleared(c, u) BY <1>3, <2>5 DEF EvictInv, x
    <3> QED BY <2>3, <3>1, <3>2, <3>4, <3>5
  <2>6. \A o : Parts(o)' = Parts(o) /\ \A p : PagesOf(o, p)' = PagesOf(o, p)
    BY DEF Parts, Owned, PagesOf, PartEnd
  <2>7. (Evicting(c) => \A p \in Parts(Osc(c)) : \A w \in Way :
            mCacheWays[w].dataStart = p /\ (pc[c] = "free" \/ w < way[c]) =>
                \A v \in PagesOf(Osc(c), p) : Cleared(c, v))'
    BY <2>1, <2>4, <2>6
  <2>8. (JobIs(c, "evict") => \A v \in PagesOf(Osc(c), JobStart(c)) : v < page[c] => Cleared(c, v))'
    BY <2>1, <2>5, <2>6
  <2> QED BY <1>3, <2>1, <2>7, <2>8 DEF EvictInv
<1>18. ColoredInv'
  <2>1. page' \in [Core -> Nat] BY <1>1, <1>3, <1>5
  <2> QED
    BY <1>1, <1>3, <2>1, <1>8, <1>9, <1>10, <1>11, <1>12, <1>13, <1>14, <1>15, <1>16, <1>17 DEF ColoredInv
<1> QED BY <1>1, <1>2, <1>7, <1>8, <1>18 DEF DataInv, Coloring, Backend

----------------------------------------------------------------------------
(* A task's page is only where the task reaches it.                        *)
LEMMA RunStep ==
    ASSUME IInv, DataInv, Coloring, NEW c \in Core, NEW v \in Page, Run(c, v)
    PROVE  DataInv'
<1> DEFINE b == pte[v].base
<1>1. /\ pc[c] = "run" /\ v \in UNION {Owned(o) : o \in ToSet(active[c])}
      /\ directory' = directory /\ pte' = pte /\ moving' = moving
      /\ tlb' = [tlb EXCEPT ![c][v] = Translate(c, v)]
      /\ memory' = [q \in Page |-> IF q = Translate(c, v) THEN v
                                   ELSE IF memory[q] = v THEN Nil ELSE memory[q]]
      /\ UNCHANGED <<mCacheWays, pc, job, way, active, at, oscStart>>
      /\ page' = page /\ step' = step /\ variant' = variant
  BY DEF Run, Access, wayVars, hwVars, taskVars
<1>2. PageTypes /\ EndsInv /\ ColoredInv BY DEF DataInv
<1>3. /\ (\A d \in Core : step[d] = Nil /\ JobInv(d) /\ MoveInv(d) /\ EvictInv(d))
      /\ HomeInv /\ MemInv /\ TlbInv /\ ColorInv /\ CritInv /\ page \in [Core -> Nat]
  BY <1>2 DEF ColoredInv
<1>4. PICK i \in 1 .. Len(active[c]) : active[c][i] \in Component /\ v \in Owned(active[c][i])
  <2>1. active[c] \in Seq(Component) BY TaskFacts DEF IInv
  <2>2. DOMAIN active[c] = 1 .. Len(active[c]) BY <2>1
  <2>3. PICK i \in 1 .. Len(active[c]) : v \in Owned(active[c][i]) BY <1>1, <2>2 DEF ToSet
  <2> QED BY <2>1, <2>3
<1>5. PICK p \in Parts(active[c][i]) : v \in PagesOf(active[c][i], p) BY <1>4, PartOfPage
<1>6. Holds(c, i, p) BY <1>1, <1>5 DEF Holds
<1>7. Translate(c, v) = b /\ b \in Page /\ memory[b] = v
  <2>1. Linked /\ b \in Page BY <1>2 DEF PageTypes
  <2>2. PhysicalAddress(v) = b BY <2>1, EntryIs DEF PhysicalAddress
  <2>3. tlb[c][v] # Nil => tlb[c][v] = b BY <1>3, <1>4, <1>5 DEF TlbInv
  <2>4. memory[b] = v BY <1>3, <1>4, <1>5 DEF MemInv
  <2> QED BY <2>1, <2>2, <2>3, <2>4 DEF Translate
<1>8. /\ tlb' = [tlb EXCEPT ![c][v] = b]
      /\ memory' = [q \in Page |-> IF q = b THEN v ELSE IF memory[q] = v THEN Nil ELSE memory[q]]
  BY <1>1, <1>7
<1>9. /\ tlb' \in [Core -> [Page -> Page \cup {Nil}]]
      /\ \A d \in Core : d # c => tlb'[d] = tlb[d]
      /\ \A u \in Page : tlb'[c][u] = IF u = v THEN b ELSE tlb[c][u]
  <2>1. tlb \in [Core -> [Page -> Page \cup {Nil}]] BY <1>2 DEF PageTypes
  <2> HIDE DEF b
  <2> QED BY <1>7, <1>8, <2>1
<1>10. b = pte[v].base
  OBVIOUS
<1> HIDE DEF b
<1>11. PageTypes'
  <2>1. Linked' BY <1>1, <1>2 DEF PageTypes, Linked
  <2>2. memory' \in [Page -> Page \cup {Nil}] BY <1>2, <1>8 DEF PageTypes
  <2> QED BY <1>1, <1>2, <1>9, <2>1, <2>2 DEF PageTypes, Move
<1>12. EndsInv' /\ CritInv' /\ \A d \in Core : JobInv(d)' BY <1>1, <1>2, <1>3, Stable
<1>13. HomeInv'
  <2>1. \A w, q : Away(w, q)' = Away(w, q) BY <1>1, Stable
  <2> QED BY <1>1, <1>3, <2>1 DEF HomeInv
<1>14. MemInv'
  <2> SUFFICES ASSUME NEW o \in Component, NEW q \in Parts(o), NEW u \in PagesOf(o, q)
               PROVE  memory'[pte[u].base] = u
    BY <1>1 DEF MemInv
  <2>1. memory[pte[u].base] = u /\ u \in Page BY <1>3, PartPages DEF MemInv
  <2>2. pte[u].base \in Page BY <1>2, <2>1 DEF PageTypes
  <2> QED BY <1>7, <1>8, <1>10, <2>1, <2>2
<1>15. TlbInv'
  <2> SUFFICES ASSUME NEW d \in Core, NEW o \in Component, NEW q \in Parts(o), NEW u \in PagesOf(o, q),
                      tlb'[d][u] # Nil
               PROVE  /\ tlb'[d][u] = pte'[u].base
                      /\ \/ moving'[d] # Nil /\ moving'[d].page = u
                         \/ \E j \in 1 .. Len(active[d]) : active[d][j] = o /\ Holds(d, j, q)'
    <3>1. active' = active BY <1>1
    <3> QED BY <3>1 DEF TlbInv
  <2>1. \A j : Holds(d, j, q)' = Holds(d, j, q) BY <1>1, Stable
  <2>2. pte'[u].base = pte[u].base BY <1>1
  <2>3. CASE d = c /\ u = v
    <3>1. o = active[c][i] /\ q = p BY <1>4, <1>5, <2>3, PartsApart
    <3> QED BY <1>6, <1>7, <1>9, <1>10, <2>1, <2>2, <2>3, <3>1
  <2>4. CASE ~(d = c /\ u = v)
    <3>1. u \in Page BY PartPages
    <3>2. tlb'[d][u] = tlb[d][u] BY <1>9, <2>4, <3>1
    <3>3. moving' = moving BY <1>1
    <3> QED BY <1>3, <2>1, <2>2, <3>2, <3>3 DEF TlbInv
  <2> QED BY <2>3, <2>4
<1>16. ColorInv' BY <1>1, <1>3 DEF ColorInv
<1>17. ASSUME NEW d \in Core PROVE MoveInv(d)'
  <2>1. CASE d = c
    <3>1. moving[c] = Nil BY <1>1, <1>3 DEF MoveInv, Working
    <3> QED BY <1>1, <2>1, <3>1 DEF MoveInv
  <2>2. ASSUME d # c, moving[d] # Nil
        PROVE  memory[Target(d)] = page[d] => memory'[Target(d)] = page[d]
    <3>1. Working(d) /\ Target(d) \in Page BY <1>3, <2>2, MoveFacts DEF MoveInv
    <3>2. page[d] # v
      <4> SUFFICES ASSUME page[d] = v PROVE FALSE
        OBVIOUS
      <4>1. TaskJob(d) BY <1>2, <1>3, <1>4, <3>1, WorkPlace
      <4>2. PICK o \in Component : JobStart(d) \in Parts(o) /\ v \in PagesOf(o, JobStart(d))
        BY <1>2, <1>3, <3>1, <4>1, TaskPlace
      <4>3. JobStart(d) = p BY <1>4, <1>5, <4>2, PartsApart
      <4>4. p # 0 BY <1>4, <1>5, PartsFacts
      <4> QED BY <1>6, <2>2, <4>1, <4>3, <4>4, NotHeldByOthers
    <3>3. Target(d) # b BY <1>2, <1>3, <1>4, <1>5, <1>10, <3>1, <3>2, TargetFree
    <3> QED BY <1>8, <3>1, <3>2, <3>3
  <2>3. CASE d # c BY <1>1, <1>3, <1>9, <2>2, <2>3, MoveKept
  <2> QED BY <2>1, <2>3
<1>18. ASSUME NEW d \in Core PROVE EvictInv(d)'
  <2>1. ASSUME NEW q \in Parts(Osc(d)), NEW u \in PagesOf(Osc(d), q), Evicting(d), Cleared(d, u)
        PROVE  Cleared(d, u)'
    <3>1. d # c BY <1>1, <2>1 DEF Evicting, JobIs
    <3> QED BY <1>1, <1>9, <2>1, <3>1 DEF Cleared
  <2> QED BY <1>1, <1>2, <1>3, <2>1, EvictKept
<1>19. ColoredInv'
  BY <1>1, <1>3, <1>12, <1>13, <1>14, <1>15, <1>16, <1>17, <1>18 DEF ColoredInv
<1> QED BY <1>1, <1>11, <1>12, <1>19 DEF DataInv, Coloring, Backend

----------------------------------------------------------------------------
(* The steps that move no page                                             *)
LEMMA AwayKept ==
    ASSUME NEW c \in Core, OwnChanges(c), NoneLost(c)
    PROVE  \A w \in Way, p \in Nat \ {0} : Away(w, p) => Away(w, p)'
<1> SUFFICES ASSUME NEW w \in Way, NEW p \in Nat \ {0}, Away(w, p) PROVE Away(w, p)'
  OBVIOUS
<1>1. CASE mCacheWays[w].dataStart = p /\ mCacheWays[w].inUse
  BY <1>1 DEF NoneLost, Away
<1>2. ASSUME NEW d \in Core, AtHand(d, w), oscStart[d] = p PROVE Away(w, p)'
  <2>1. CASE d = c BY <1>2, <2>1 DEF NoneLost, Away
  <2>2. CASE d # c
    <3>1. Others(c) BY DEF OwnChanges
    <3>2. Current(d)' = Current(d) /\ way'[d] = way[d] /\ oscStart'[d] = oscStart[d]
      BY <2>2, <3>1, OthersSame DEF Others
    <3> QED BY <1>2, <3>2 DEF Away, AtHand
  <2> QED BY <2>1, <2>2
<1> QED BY <1>1, <1>2 DEF Away

(* What the others' jobs are about stays.                                  *)
LEMMA OthersJobs ==
    ASSUME IInv, IInv', EndsInv, EndsInv', NEW c \in Core, OwnChanges(c), NEW d \in Core, d # c,
           page'[d] = page[d], JobInv(d)
    PROVE  /\ Prefetches(d)' = Prefetches(d) /\ TaskJob(d)' = TaskJob(d) /\ Osc(d)' = Osc(d)
           /\ JobStart(d)' = JobStart(d) \/ ~TaskJob(d)
           /\ pc[d] = "job" => JobEnd(d)' = JobEnd(d)
           /\ Working(d)' = Working(d) /\ Target(d)' = Target(d) /\ JobInv(d)'
<1>1. /\ pc'[d] = pc[d] /\ job'[d] = job[d] /\ way'[d] = way[d] /\ oscStart'[d] = oscStart[d]
      /\ \A kind : JobIs(d, kind)' = JobIs(d, kind)
      /\ Osc(d)' = Osc(d)
  BY OthersSame DEF OwnChanges, Others
<1>2. Prefetches(d)' = Prefetches(d) /\ TaskJob(d)' = TaskJob(d)
  BY <1>1 DEF Prefetches, TaskJob
<1>3. ASSUME TaskJob(d), ~JobIs(d, "load") PROVE Kept(way[d])
  <2>1. /\ way[d] \in Way /\ AtWork(d) /\ AtWay(d) /\ Osc(d) \in Component /\ ~Idle(d)
        /\ JobIs(d, "evict") => JobStart(d) \in Parts(Osc(d))
        /\ JobStart(d) = mCacheWays[way[d]].dataStart
    BY <1>3, TaskJobFacts
  <2>2. ~OwnWay(c, way[d])
    <3>1. ~(Current(c) /\ way[c] = way[d])
      <4> SUFFICES ASSUME Current(c), way[c] = way[d] PROVE FALSE
        OBVIOUS
      <4>1. AtWork(c) BY DEF Current, AtWork, JobIs
      <4> QED BY <2>1, <4>1 DEF IInv, WaysNotShared, AtWork
    <3>2. CASE JobIs(d, "victim")
      <4>1. mLock = d BY <2>1, <3>2 DEF AtWay
      <4>2. mLock \notin {Nil, c} BY <4>1, CoresArePages
      <4> QED BY <3>1, <4>2 DEF OwnWay
    <3>3. CASE JobIs(d, "evict")
      <4>1. mCacheWays[way[d]].inUse BY <2>1, <3>3 DEF AtWay
      <4>2. mCacheWays[way[d]].dataStart \in Parts(Osc(d)) BY <2>1, <3>3
      <4>3. ~Idle(c) => Osc(c) # Osc(d) BY <2>1, TasksApart DEF IInv
      <4>4. ~Idle(c) => Osc(c) \in Component BY OwnTask
      <4>5. ~(~Idle(c) /\ mCacheWays[way[d]].dataStart \in Owned(Osc(c)))
        BY <2>1, <4>2, <4>3, <4>4, PartsFacts
      <4> QED BY <3>1, <4>1, <4>5 DEF OwnWay
    <3> QED BY <1>3, <3>2, <3>3 DEF TaskJob
  <2> QED BY <2>1, <2>2 DEF OwnChanges
<1>4. JobStart(d)' = JobStart(d) \/ ~TaskJob(d)
  <2>1. CASE Prefetches(d) BY <1>1, <1>2, <2>1 DEF JobStart
  <2>2. CASE ~Prefetches(d) /\ TaskJob(d)
    <3>1. ~JobIs(d, "load") BY <2>2 DEF JobIs, Prefetches
    <3>2. Kept(way[d]) BY <1>3, <2>2, <3>1
    <3> QED BY <1>1, <1>2, <2>2, <3>2 DEF JobStart, Kept
  <2> QED BY <2>1, <2>2
<1>5. ASSUME pc[d] = "job" PROVE JobEnd(d)' = JobEnd(d)
  <2>1. CASE JobIs(d, "load") \/ JobIs(d, "critical")
    <3>1. CASE job[d] = "load" BY <1>1, <3>1 DEF JobEnd, PartEnd
    <3>2. CASE job[d] = "critical" BY <1>1, <3>2 DEF JobEnd, PartEnd
    <3> QED BY <2>1, <3>1, <3>2 DEF JobIs
  <2>2. CASE TaskJob(d) /\ ~JobIs(d, "load")
    <3>1. job[d] \notin {"load", "critical"} BY <1>5, <2>2 DEF TaskJob, JobIs
    <3>2. JobEnd(d) = mCacheWays[way[d]].dataEnd /\ JobEnd(d)' = mCacheWays'[way[d]].dataEnd
      BY <1>1, <3>1 DEF JobEnd
    <3>3. Kept(way[d]) /\ way[d] \in Way BY <1>3, <2>2, TaskJobFacts
    <3>4. JobStart(d) = mCacheWays[way[d]].dataStart BY <2>2, TaskJobFacts
    <3>5. mCacheWays[way[d]].dataStart # 0 BY <2>2, <3>4 DEF JobInv
    <3>6. PICK o \in Component : mCacheWays[way[d]].dataStart \in Parts(o)
      BY <3>3, <3>5 DEF IInv, LabelsInv
    <3>7. mCacheWays[way[d]].dataEnd = PartEnd(mCacheWays[way[d]].dataStart, End[o])
      BY <3>3, <3>6 DEF EndsInv
    <3>8. mCacheWays'[way[d]].dataEnd = PartEnd(mCacheWays'[way[d]].dataStart, End[o])
      <4>1. mCacheWays'[way[d]].dataStart \in Parts(o) BY <3>3, <3>6 DEF Kept
      <4> QED BY <3>3, <4>1 DEF EndsInv, Parts, Owned, PartEnd
    <3> QED BY <3>2, <3>3, <3>7, <3>8 DEF Kept
  <2> QED BY <1>5, <2>1, <2>2, JobKinds
<1>6. Working(d)' = Working(d)
  <2>1. CASE pc[d] = "job" BY <1>1, <1>5, <2>1 DEF Working
  <2>2. CASE pc[d] # "job" BY <1>1, <2>2 DEF Working
  <2> QED BY <2>1, <2>2
<1>7. Target(d)' = Target(d) BY <1>1, <1>2 DEF Target, ColorPage, ColorOffset
<1>8. JobInv(d)'
  <2>1. TaskJob(d) \/ JobIs(d, "critical") => pc[d] = "job" BY DEF TaskJob, JobIs
  <2> QED BY <1>1, <1>2, <1>4, <1>5, <2>1 DEF JobInv
<1> QED BY <1>1, <1>2, <1>4, <1>5, <1>6, <1>7, <1>8

LEMMA NotBooting ==
    ASSUME IInv', NEW c \in Core, pc'[c] # "off", ~Booting(c)'
    PROVE  CritInv'
<1>1. 0 \in Core BY CoresArePages
<1>2. ~Booting(0)' BY <1>1 DEF IInv, StatesInv
<1>3. pc'[0] # "boot" /\ ~(pc'[0] = "critical" \/ JobIs(0, "critical")') BY <1>2 DEF Booting
<1> QED BY <1>3 DEF CritInv

LEMMA QuietData ==
    ASSUME IInv, IInv', DataInv, Coloring, NEW c \in Core, OwnChanges(c),
           UNCHANGED <<variant, directory, pte, memory, moving, step>>,
           pc[c] = "job" => moving[c] = Nil,
           tlb' \in [Core -> [Page -> Page \cup {Nil}]], \A d \in Core : d # c => tlb'[d] = tlb[d],
           \A v \in Page : tlb'[c][v] \in {Nil, tlb[c][v]},
           page' \in [Core -> Nat], \A d \in Core : d # c => page'[d] = page[d],
           EndsInv',
           \A o \in Component : \A p \in Parts(o) : \A w \in Way :
               Away(w, p) => Away(w, p)' \/ Home(o, p),
           \A o \in Component : \A p \in Parts(o) : \A i \in 1 .. Len(active[c]) :
               active[c][i] = o /\ Holds(c, i, p) =>
                   \/ active'[c] = active[c] /\ Holds(c, i, p)'
                   \/ \A v \in PagesOf(o, p) : tlb'[c][v] = Nil,
           JobInv(c)', EvictInv(c)', pc'[c] # "off", ~Booting(c)'
    PROVE  DataInv'
<1>1. PageTypes /\ EndsInv /\ ColoredInv BY DEF DataInv
<1>2. /\ (\A d \in Core : step[d] = Nil /\ JobInv(d) /\ MoveInv(d) /\ EvictInv(d))
      /\ HomeInv /\ MemInv /\ TlbInv /\ ColorInv
  BY <1>1 DEF ColoredInv
<1>3. PageTypes'
  <2>1. Linked' BY <1>1 DEF PageTypes, Linked
  <2> QED BY <1>1, <2>1 DEF PageTypes, Move
<1>4. CritInv' BY NotBooting
<1>5. moving[c] = Nil BY <1>2 DEF MoveInv, Working
<1>6. \A d \in Core : d # c => JobInv(d)' BY <1>1, <1>2, OthersJobs
<1>7. HomeInv'
  <2> SUFFICES ASSUME NEW o \in Component, NEW p \in Parts(o), NEW u \in PagesOf(o, p)
               PROVE  pte'[u].base = u
                      \/ \E w \in Way : pte'[u].base = ColorPage(w, u - p) /\ Away(w, p)'
    BY DEF HomeInv
  <2>1. CASE Home(o, p) BY <2>1 DEF Home
  <2>2. CASE ~Home(o, p) BY <1>2, <2>2 DEF HomeInv
  <2> QED BY <2>1, <2>2
<1>8. MemInv' BY <1>2 DEF MemInv
<1>9. TlbInv'
  <2> SUFFICES ASSUME NEW d \in Core, NEW o \in Component, NEW p \in Parts(o), NEW u \in PagesOf(o, p),
                      tlb'[d][u] # Nil
               PROVE  /\ tlb'[d][u] = pte[u].base
                      /\ \/ moving[d] # Nil /\ moving[d].page = u
                         \/ \E i \in 1 .. Len(active'[d]) : active'[d][i] = o /\ Holds(d, i, p)'
    BY DEF TlbInv
  <2>1. CASE d # c
    <3>1. active'[d] = active[d] /\ \A i : Holds(d, i, p)' = Holds(d, i, p)
      BY <2>1, OthersSame DEF OwnChanges, Others
    <3> QED BY <1>2, <2>1, <3>1 DEF TlbInv
  <2>2. CASE d = c
    <3>1. u \in Page BY PartPages
    <3>2. tlb[c][u] # Nil /\ tlb'[c][u] = tlb[c][u] BY <2>2, <3>1
    <3>3. /\ tlb[c][u] = pte[u].base
          /\ \E i \in 1 .. Len(active[c]) : active[c][i] = o /\ Holds(c, i, p)
      BY <1>2, <1>5, <3>2 DEF TlbInv
    <3> QED BY <2>2, <3>2, <3>3
  <2> QED BY <2>1, <2>2
<1>10. ColorInv' BY <1>2 DEF ColorInv
<1>11. MoveInv(c)' BY <1>5 DEF MoveInv
<1>12. ASSUME NEW d \in Core, d # c PROVE MoveInv(d)'
  <2>1. /\ Prefetches(d)' = Prefetches(d) /\ TaskJob(d)' = TaskJob(d)
        /\ Working(d)' = Working(d) /\ Target(d)' = Target(d)
    BY <1>1, <1>2, <1>12, OthersJobs
  <2> QED BY <1>2, <1>12, <2>1 DEF MoveInv
<1>13. ASSUME NEW d \in Core, d # c PROVE EvictInv(d)'
  <2>1. /\ Evicting(d)' = Evicting(d) /\ Osc(d)' = Osc(d) /\ pc'[d] = pc[d] /\ way'[d] = way[d]
        /\ JobIs(d, "evict")' = JobIs(d, "evict")
    BY <1>13, OthersSame DEF OwnChanges, Others
  <2>2. \A v : Cleared(d, v)' = Cleared(d, v) BY <1>13 DEF Cleared
  <2>3. \A o : Parts(o)' = Parts(o) /\ \A p : PagesOf(o, p)' = PagesOf(o, p)
    BY DEF Parts, Owned, PagesOf, PartEnd
  <2>4. ASSUME Evicting(d), NEW p \in Parts(Osc(d)), NEW w \in Way, mCacheWays'[w].dataStart = p
        PROVE  mCacheWays[w].dataStart = p
    <3>1. ~Idle(d) /\ Osc(d) \in Component BY <2>4, OwnTask DEF Evicting, Idle, Booting, JobIs
    <3>2. p # 0 BY <3>1, PartsFacts
    <3>3. ~(p = oscStart[c] /\ Loading(c))
      <4> SUFFICES ASSUME p = oscStart[c], Loading(c) PROVE FALSE
        OBVIOUS
      <4>1. ~Idle(c) /\ Osc(c) \in Component /\ oscStart[c] \in Parts(Osc(c))
        BY OwnTask DEF TaskOf
      <4>2. Osc(c) # Osc(d) BY <1>13, <3>1, <4>1, TasksApart DEF IInv
      <4> QED BY <3>1, <4>1, <4>2, PartsFacts
    <3> QED BY <2>4, <3>2, <3>3 DEF OwnChanges
  <2>5. (Evicting(d) => \A p \in Parts(Osc(d)) : \A w \in Way :
            mCacheWays[w].dataStart = p /\ (pc[d] = "free" \/ w < way[d]) =>
                \A v \in PagesOf(Osc(d), p) : Cleared(d, v))'
    <3>1. ASSUME Evicting(d), NEW p \in Parts(Osc(d)), NEW w \in Way, mCacheWays'[w].dataStart = p,
                 pc[d] = "free" \/ w < way[d], NEW v \in PagesOf(Osc(d), p)
          PROVE  Cleared(d, v)'
      <4>1. Cleared(d, v) BY <1>2, <2>4, <3>1 DEF EvictInv
      <4> QED BY <2>2, <4>1
    <3> QED BY <2>1, <2>3, <3>1
  <2>6. (JobIs(d, "evict") => \A v \in PagesOf(Osc(d), JobStart(d)) : v < page[d] => Cleared(d, v))'
    <3>1. JobIs(d, "evict") => JobStart(d)' = JobStart(d)
      BY <1>1, <1>2, <1>13, OthersJobs DEF TaskJob
    <3>2. page'[d] = page[d] BY <1>13
    <3> SUFFICES ASSUME JobIs(d, "evict") PROVE (\A v \in PagesOf(Osc(d), JobStart(d)) : v < page[d] => Cleared(d, v))'
      BY <2>1
    <3>3. PagesOf(Osc(d), JobStart(d))' = PagesOf(Osc(d), JobStart(d))
      BY <2>1, <3>1 DEF PagesOf, PartEnd
    <3>4. \A v \in PagesOf(Osc(d), JobStart(d)) : v < page[d] => Cleared(d, v) BY <1>2 DEF EvictInv
    <3> QED BY <2>2, <3>2, <3>3, <3>4
  <2> QED BY <1>2, <2>1, <2>5, <2>6 DEF EvictInv
<1>14. ColoredInv'
  BY <1>2, <1>4, <1>6, <1>7, <1>8, <1>9, <1>10, <1>11, <1>12, <1>13 DEF ColoredInv
<1> QED BY <1>3, <1>14 DEF DataInv, Coloring, Backend

----------------------------------------------------------------------------
(* Each label keeps its end, or is gone, or is a new one.                  *)
LEMMA EndsStep ==
    ASSUME IInv, EndsInv, NEW c \in Core,
           \A w \in Way :
              \/ mCacheWays'[w].dataStart = 0
              \/ /\ mCacheWays'[w].dataStart = mCacheWays[w].dataStart
                 /\ mCacheWays'[w].dataEnd = mCacheWays[w].dataEnd
              \/ /\ Loading(c) /\ mCacheWays'[w].dataStart = oscStart[c]
                 /\ mCacheWays'[w].dataEnd = PartEnd(oscStart[c], End[Osc(c)])
    PROVE  EndsInv'
<1> SUFFICES ASSUME NEW w \in Way, NEW o \in Component, mCacheWays'[w].dataStart \in Parts(o)
             PROVE  mCacheWays'[w].dataEnd = PartEnd(mCacheWays'[w].dataStart, End[o])
  BY DEF EndsInv, Parts, Owned, PartEnd
<1>1. mCacheWays'[w].dataStart # 0 BY PartsFacts
<1>2. CASE /\ mCacheWays'[w].dataStart = mCacheWays[w].dataStart
           /\ mCacheWays'[w].dataEnd = mCacheWays[w].dataEnd
  BY <1>2 DEF EndsInv
<1>3. CASE /\ Loading(c) /\ mCacheWays'[w].dataStart = oscStart[c]
           /\ mCacheWays'[w].dataEnd = PartEnd(oscStart[c], End[Osc(c)])
  <2>1. oscStart[c] \in Parts(Osc(c)) /\ Osc(c) \in Component BY <1>3, OwnTask DEF TaskOf
  <2>2. o = Osc(c) BY <1>3, <2>1, PartsFacts
  <2> QED BY <1>3, <2>2
<1> QED BY <1>1, <1>2, <1>3

LEMMA KeptData ==
    ASSUME IInv, NEW c \in Core, IInv', OwnChanges(c), NoneLost(c), DataInv, Coloring,
           UNCHANGED <<variant, directory, pte, memory, moving, step>>,
           pc[c] = "job" => moving[c] = Nil,
           tlb' = tlb \/ \E S : FlushTLBWithAddress(c, S),
           page' = page \/ \E n \in Nat : page' = [page EXCEPT ![c] = n],
           EndsInv', JobInv(c)', EvictInv(c)', pc'[c] # "off", ~Booting(c)'
    PROVE  DataInv'
<1>1. PageTypes /\ page \in [Core -> Nat] BY DEF DataInv, ColoredInv
<1>2. tlb \in [Core -> [Page -> Page \cup {Nil}]] BY <1>1 DEF PageTypes
<1>3. /\ tlb' \in [Core -> [Page -> Page \cup {Nil}]] /\ \A d \in Core : d # c => tlb'[d] = tlb[d]
      /\ \A v \in Page : tlb'[c][v] \in {Nil, tlb[c][v]}
  <2>1. CASE tlb' = tlb BY <1>2, <2>1
  <2>2. ASSUME NEW f \in [Page -> Page \cup {Nil}], \A v \in Page : f[v] \in {Nil, tlb[c][v]},
               tlb' = [tlb EXCEPT ![c] = f]
        PROVE  /\ tlb' \in [Core -> [Page -> Page \cup {Nil}]] /\ \A d \in Core : d # c => tlb'[d] = tlb[d]
               /\ \A v \in Page : tlb'[c][v] \in {Nil, tlb[c][v]}
    BY <1>2, <2>2
  <2>3. ASSUME NEW S, FlushTLBWithAddress(c, S)
        PROVE  \E f \in [Page -> Page \cup {Nil}] :
                  (\A v \in Page : f[v] \in {Nil, tlb[c][v]}) /\ tlb' = [tlb EXCEPT ![c] = f]
    <3> DEFINE f == [v \in Page |-> Nil]
               g == [v \in Page |-> IF v \in S THEN Nil ELSE tlb[c][v]]
    <3>1. tlb' = [tlb EXCEPT ![c] = f] \/ tlb' = [tlb EXCEPT ![c] = g]
      BY <1>2, <2>3 DEF FlushTLBWithAddress, FlushTLB
    <3>2. /\ f \in [Page -> Page \cup {Nil}] /\ \A v \in Page : f[v] \in {Nil, tlb[c][v]}
          /\ g \in [Page -> Page \cup {Nil}] /\ \A v \in Page : g[v] \in {Nil, tlb[c][v]}
      BY <1>2
    <3> HIDE DEF f, g
    <3> QED BY <3>1, <3>2
  <2> QED BY <2>1, <2>2, <2>3
<1>4. page' \in [Core -> Nat] /\ \A d \in Core : d # c => page'[d] = page[d]
  BY <1>1
<1>5. ASSUME NEW o \in Component, NEW p \in Parts(o), NEW w \in Way, Away(w, p)
      PROVE  Away(w, p)'
  BY <1>5, AwayKept, PartsFacts
<1>6. ASSUME NEW o \in Component, NEW p \in Parts(o), NEW i \in 1 .. Len(active[c]),
             active[c][i] = o, Holds(c, i, p)
      PROVE  active'[c] = active[c] /\ Holds(c, i, p)'
  BY <1>6, PartsFacts DEF NoneLost
<1> QED BY <1>3, <1>4, <1>5, <1>6, QuietData

LEMMA NoJob ==
    ASSUME NEW c \in Core, pc'[c] # "job"
    PROVE  JobInv(c)' /\ (pc'[c] \notin {"evict", "free"} => EvictInv(c)')
BY DEF JobInv, TaskJob, JobIs, EvictInv, Evicting

(* Steps after which a core is at no page.                                 *)
LEMMA PlainSteps ==
    ASSUME IInv, DataInv, Coloring, NEW c \in Core,
           \/ InitSecondary(c) \/ PreloadSingleOSC(c) \/ Abort(c)
           \/ \E t \in Tasks : NextTask(c, t)
           \/ EndJob(c) /\ job[c] = "load"
    PROVE  DataInv'
<1>1. IInv' /\ OwnChanges(c) /\ NoneLost(c)
  BY InitSecondaryStep, PreloadSingleOSCStep, AbortStep, NextTaskStep, EndLoadStep
<1>2. WayTypes /\ EndsInv BY DEF IInv, DataInv
<1>3. UNCHANGED <<variant, directory, pte, memory, moving, step, mCacheWays>>
  <2>1. CASE EndJob(c) /\ job[c] = "load"
    <3>1. UNCHANGED <<mCacheWays, mLock, oscStart>> BY <1>2, <2>1, Ends
    <3> QED BY <2>1, <3>1 DEF EndJob, pageVars, hwVars
  <2> QED BY <2>1 DEF InitSecondary, PreloadSingleOSC, Abort, NextTask, wayVars, hwVars, pageVars
<1>4. pc[c] = "job" => moving[c] = Nil
  BY DEF InitSecondary, PreloadSingleOSC, Abort, NextTask, EndJob
<1>5. tlb' = tlb \/ \E S : FlushTLBWithAddress(c, S)
  BY DEF InitSecondary, PreloadSingleOSC, Abort, NextTask, EndJob, pageVars, FlushTLBWithAddress
<1>6. page' = page \/ \E n \in Nat : page' = [page EXCEPT ![c] = n]
  BY DEF InitSecondary, PreloadSingleOSC, Abort, NextTask, EndJob
<1>7. pc' = [pc EXCEPT ![c] = pc'[c]] /\ pc'[c] \in {"idle", "getway", "hung", "preload", "label"}
  BY <1>2, Ends DEF InitSecondary, PreloadSingleOSC, Abort, NextTask, Goto, WayTypes
<1>8. EndsInv' BY <1>2, <1>3, EndsStep
<1>9. JobInv(c)' /\ EvictInv(c)' /\ pc'[c] # "off" /\ ~Booting(c)'
  BY <1>7, NoJob DEF Booting, JobIs
<1> QED BY <1>1, <1>3, <1>4, <1>5, <1>6, <1>8, <1>9, KeptData

LEMMA FinishTaskData ==
    ASSUME IInv, DataInv, Coloring, NEW c \in Core, FinishTask(c)
    PROVE  DataInv'
<1>1. IInv' /\ OwnChanges(c) /\ NoneLost(c) BY FinishTaskStep
<1>2. WayTypes /\ EndsInv BY DEF IInv, DataInv
<1>3. /\ UNCHANGED <<variant, directory, pte, memory, moving, step, mCacheWays, tlb, page>>
      /\ pc[c] = "run" /\ pc'[c] = "evict" /\ way'[c] = 0
  BY <1>2 DEF FinishTask, wayVars, hwVars, pageVars, Goto, WayTypes
<1>4. EndsInv' BY <1>2, <1>3, EndsStep
<1>5. JobInv(c)' /\ pc'[c] # "off" /\ ~Booting(c)' BY <1>3, NoJob DEF Booting, JobIs
<1>6. EvictInv(c)'
  <2>1. \A w \in Way : ~(w < 0) BY DEF Way
  <2> QED BY <1>3, <2>1 DEF EvictInv, Evicting, JobIs
<1> QED BY <1>1, <1>3, <1>4, <1>5, <1>6, KeptData

----------------------------------------------------------------------------
LEMMA LoadPartData ==
    ASSUME IInv, DataInv, Coloring, NEW c \in Core, LoadPart(c)
    PROVE  DataInv'
<1>1. IInv' /\ OwnChanges(c) /\ NoneLost(c) BY LoadPartStep
<1>2. WayTypes /\ EndsInv /\ TaskOf(c) /\ page \in [Core -> Nat] BY OwnTask DEF DataInv, ColoredInv
<1>3. /\ UNCHANGED <<variant, directory, pte, memory, moving, step, mCacheWays, tlb,
                     active, at, oscStart>>
      /\ pc[c] = "check"
      /\ \/ pc' = [pc EXCEPT ![c] = "label"] /\ page' = page
         \/ /\ pc' = [pc EXCEPT ![c] = "job"] /\ job' = [job EXCEPT ![c] = "load"]
            /\ page' = [page EXCEPT ![c] = oscStart[c]]
  BY DEF LoadPart, StartJob, Goto, wayVars, hwVars, pageVars
<1>4. Loading(c) /\ ~Idle(c) /\ Osc(c) \in Component /\ oscStart[c] \in Parts(Osc(c))
  BY <1>3, OwnTask DEF Loading, TaskOf
<1>5. oscStart[c] \in Nat \ {0} BY <1>4, PartsFacts
<1>6. page' = page \/ \E n \in Nat : page' = [page EXCEPT ![c] = n] BY <1>3, <1>5
<1>7. EndsInv' BY <1>2, <1>3, EndsStep
<1>8. CASE pc'[c] = "label"
  <2>1. JobInv(c)' /\ EvictInv(c)' /\ pc'[c] # "off" /\ ~Booting(c)'
    BY <1>8, NoJob DEF Booting, JobIs
  <2> QED BY <1>1, <1>3, <1>6, <1>7, <2>1, KeptData
<1>9. CASE pc'[c] = "job" /\ job'[c] = "load" /\ page'[c] = oscStart[c]
  <2>1. pc'[c] # "off" /\ ~Booting(c)' BY <1>9 DEF Booting, JobIs
  <2>2. EvictInv(c)' BY <1>9 DEF EvictInv, Evicting, JobIs
  <2>3. JobEnd(c)' = PartEnd(oscStart[c], End[Osc(c)])
    BY <1>3, <1>9 DEF JobEnd, PartEnd, Osc
  <2>4. JobStart(c)' = oscStart[c] BY <1>3, <1>9 DEF JobStart, Prefetches
  <2>5. oscStart[c] \in oscStart[c] .. PartEnd(oscStart[c], End[Osc(c)])
    BY <1>4, PartPages
  <2>6. JobInv(c)' BY <1>5, <1>9, <2>3, <2>4, <2>5 DEF JobInv, JobIs
  <2> QED BY <1>1, <1>3, <1>6, <1>7, <2>1, <2>2, <2>6, KeptData
<1> QED BY <1>2, <1>3, <1>8, <1>9 DEF WayTypes

(* The smallest of a set of ways.                                          *)
LEMMA Smallest ==
    ASSUME NEW S \in SUBSET Way, S # {}
    PROVE  Min(S) \in S /\ \A x \in S : Min(S) <= x
<1>1. S \in SUBSET Nat BY DEF Way
<1>2. \E m \in S : \A k \in S : m <= k BY <1>1, LeastNumber
<1> QED BY <1>2 DEF Min

(* The ways of the component at hand, and the label of one of them.        *)
LEMMA OwnWays ==
    ASSUME IInv, DataInv, Coloring, NEW c \in Core, Evicting(c),
           NEW p \in Parts(Osc(c)), NEW w \in Way, mCacheWays[w].dataStart = p
    PROVE  /\ w \in WaysOf(Osc(c)) /\ Osc(c) \in Component /\ p \in Nat \ {0}
           /\ mCacheWays[w].dataEnd = PartEnd(p, End[Osc(c)])
<1>1. ~Idle(c) /\ Osc(c) \in Component BY OwnTask DEF Evicting, Idle, Booting, JobIs
<1>2. p \in Owned(Osc(c)) BY DEF Parts
<1>3. mCacheWays[w].osc = Osc(c) BY <1>1, <1>2, WaysOfTask
<1>4. EndsInv BY DEF DataInv
<1> QED BY <1>1, <1>2, <1>3, <1>4, PartsFacts DEF EndsInv, WaysOf

LEMMA LookupOSCData ==
    ASSUME IInv, DataInv, Coloring, NEW c \in Core, LookupOSC(c)
    PROVE  DataInv'
<1> DEFINE rest == {w \in WaysOf(Osc(c)) : w >= way[c]}
<1>1. IInv' /\ OwnChanges(c) /\ NoneLost(c) BY LookupOSCStep
<1>2. WayTypes /\ EndsInv /\ TaskOf(c) /\ page \in [Core -> Nat] /\ EvictInv(c)
  BY OwnTask DEF DataInv, ColoredInv
<1>3. /\ UNCHANGED <<variant, directory, pte, memory, moving, step, mCacheWays, tlb,
                     active, at, oscStart>>
      /\ pc[c] = "evict"
      /\ \/ rest = {} /\ pc' = [pc EXCEPT ![c] = "free"] /\ page' = page /\ way' = way
         \/ /\ rest # {} /\ pc' = [pc EXCEPT ![c] = "job"] /\ job' = [job EXCEPT ![c] = "evict"]
            /\ way' = [way EXCEPT ![c] = Min(rest)]
            /\ page' = [page EXCEPT ![c] = mCacheWays[Min(rest)].dataStart]
  BY DEF LookupOSC, StartJob, Goto, wayVars, hwVars, pageVars, taskVars
<1>4. ~Idle(c) /\ Evicting(c) /\ Osc(c)' = Osc(c) /\ Osc(c) \in Component /\ ~JobIs(c, "evict")
      /\ way[c] \in Nat
  <2>1. ~Idle(c) /\ Evicting(c) /\ Osc(c)' = Osc(c) /\ ~JobIs(c, "evict")
    BY <1>3 DEF Idle, Booting, JobIs, Evicting, Osc
  <2> QED BY <1>2, <2>1, OwnTask DEF EvictInv
<1>5. EndsInv' BY <1>2, <1>3, EndsStep
<1>6. /\ \A v : Cleared(c, v)' = Cleared(c, v)
      /\ Parts(Osc(c))' = Parts(Osc(c)) /\ \A p : PagesOf(Osc(c), p)' = PagesOf(Osc(c), p)
  <2> DEFINE o == Osc(c)
  <2>1. o' = o BY <1>4
  <2> HIDE DEF o
  <2>2. Parts(o)' = Parts(o) /\ \A p : PagesOf(o, p)' = PagesOf(o, p)
    BY <2>1 DEF Parts, Owned, PagesOf, PartEnd
  <2> QED BY <1>3, <2>2 DEF Cleared, o
<1>7. ASSUME NEW p \in Parts(Osc(c)), NEW w \in Way, mCacheWays[w].dataStart = p
      PROVE  /\ w < way[c] \/ w \in rest
             /\ w < way[c] => \A v \in PagesOf(Osc(c), p) : Cleared(c, v)
  <2>1. w \in WaysOf(Osc(c)) BY <1>4, <1>7, OwnWays
  <2>2. w \in Nat BY DEF Way
  <2> QED BY <1>2, <1>4, <1>7, <2>1, <2>2 DEF EvictInv
<1>8. CASE rest = {} /\ pc'[c] = "free" /\ page' = page /\ way' = way
  <2>1. JobInv(c)' /\ pc'[c] # "off" /\ ~Booting(c)' BY <1>8, NoJob DEF Booting, JobIs
  <2>2. EvictInv(c)'
    <3>1. \A p \in Parts(Osc(c)) : \A w \in Way : mCacheWays[w].dataStart = p =>
             \A v \in PagesOf(Osc(c), p) : Cleared(c, v)
      <4> HIDE DEF rest
      <4> QED BY <1>7, <1>8
    <3>2. way'[c] \in Nat /\ ~JobIs(c, "evict")' BY <1>4, <1>8 DEF JobIs
    <3>3. (\A p \in Parts(Osc(c)) : \A w \in Way : mCacheWays[w].dataStart = p =>
             \A v \in PagesOf(Osc(c), p) : Cleared(c, v))'
      BY <1>3, <1>6, <3>1
    <3> QED BY <3>2, <3>3 DEF EvictInv
  <2> QED BY <1>1, <1>3, <1>5, <1>8, <2>1, <2>2, KeptData
<1>9. CASE /\ rest # {} /\ pc'[c] = "job" /\ job'[c] = "evict" /\ way'[c] = Min(rest)
           /\ page' = [page EXCEPT ![c] = mCacheWays[Min(rest)].dataStart]
  <2> DEFINE x == Min(rest)
             p == mCacheWays[x].dataStart
  <2>1. x \in rest /\ \A w \in rest : x <= w
    <3>1. rest \in SUBSET Way BY DEF WaysOf
    <3> HIDE DEF rest
    <3> QED BY <1>9, <3>1, Smallest
  <2>2. x \in Way /\ x \in Nat /\ x >= way[c] /\ p \in Owned(Osc(c))
    <3>1. \A w \in rest : w \in Way /\ w >= way[c] /\ mCacheWays[w].dataStart \in Owned(Osc(c))
      BY DEF WaysOf
    <3> HIDE DEF x, rest
    <3> QED BY <2>1, <3>1 DEF Way
  <2>3. p \in Parts(Osc(c)) BY <1>4, <2>2, WaysOfTask
  <2>4. p \in Nat \ {0} /\ mCacheWays[x].dataEnd = PartEnd(p, End[Osc(c)])
    BY <1>4, <2>2, <2>3, OwnWays
  <2>5. pc'[c] # "off" /\ ~Booting(c)' /\ way'[c] = x /\ page'[c] = p
    BY <1>2, <1>9 DEF Booting, JobIs
  <2>6. JobStart(c)' = p /\ JobEnd(c)' = PartEnd(p, End[Osc(c)])
    <3>1. mCacheWays'[way'[c]] = mCacheWays[x] BY <1>3, <2>5
    <3>2. JobStart(c)' = mCacheWays'[way'[c]].dataStart /\ JobEnd(c)' = mCacheWays'[way'[c]].dataEnd
      BY <1>9 DEF JobStart, JobEnd, Prefetches
    <3> QED BY <2>4, <3>1, <3>2
  <2>7. p \in p .. PartEnd(p, End[Osc(c)]) BY <1>4, <2>3, PartPages
  <2>8. page' = [page EXCEPT ![c] = p] BY <1>9
  <2> HIDE DEF p, x
  <2>9. JobInv(c)' BY <1>9, <2>4, <2>5, <2>6, <2>7 DEF JobInv, JobIs
  <2>10. EvictInv(c)'
    <3>1. way'[c] \in Nat BY <2>2, <2>5
    <3>2. (\A q \in Parts(Osc(c)) : \A w \in Way :
             mCacheWays[w].dataStart = q /\ (pc[c] = "free" \/ w < way[c]) =>
                 \A v \in PagesOf(Osc(c), q) : Cleared(c, v))'
      <4>1. ASSUME NEW q \in Parts(Osc(c)), NEW w \in Way, mCacheWays[w].dataStart = q, w < x
            PROVE  \A v \in PagesOf(Osc(c), q) : Cleared(c, v)
        <5>1. w \notin rest BY <2>1, <2>2, <4>1 DEF Way
        <5> QED BY <1>7, <4>1, <5>1
      <4> QED BY <1>3, <1>6, <1>9, <2>5, <4>1
    <3>3. (\A v \in PagesOf(Osc(c), JobStart(c)) : v < page[c] => Cleared(c, v))'
      <4>1. PagesOf(Osc(c), JobStart(c))' = PagesOf(Osc(c), p)
        BY <1>4, <2>6 DEF PagesOf, PartEnd
      <4>2. \A v \in PagesOf(Osc(c), p) : ~(v < p) BY <1>4, <2>3, PartPages DEF PagesOf
      <4> QED BY <2>5, <4>1, <4>2
    <3> QED BY <3>1, <3>2, <3>3 DEF EvictInv
  <2> QED BY <1>1, <1>3, <1>5, <2>4, <2>5, <2>8, <2>9, <2>10, KeptData
<1> HIDE DEF rest
<1>10. \/ rest = {} /\ pc'[c] = "free" /\ page' = page /\ way' = way
       \/ /\ rest # {} /\ pc'[c] = "job" /\ job'[c] = "evict" /\ way'[c] = Min(rest)
          /\ page' = [page EXCEPT ![c] = mCacheWays[Min(rest)].dataStart]
  BY <1>2, <1>3 DEF WayTypes
<1> QED BY <1>8, <1>9, <1>10

LEMMA EndEvictData ==
    ASSUME IInv, DataInv, Coloring, NEW c \in Core, EndJob(c), job[c] = "evict"
    PROVE  DataInv'
<1>1. IInv' /\ OwnChanges(c) /\ NoneLost(c) BY EndEvictStep
<1>2. WayTypes /\ EndsInv /\ TaskOf(c) /\ AtWay(c) /\ page \in [Core -> Nat] /\ EvictInv(c) /\ JobInv(c)
  BY OwnTask DEF DataInv, ColoredInv
<1>3. /\ UNCHANGED <<variant, directory, pte, memory, moving, step, mCacheWays, tlb,
                     active, at, oscStart>>
      /\ pc[c] = "job" /\ moving[c] = Nil /\ page[c] >= JobEnd(c)
      /\ pc' = [pc EXCEPT ![c] = "evict"] /\ way' = [way EXCEPT ![c] = @ + 1]
      /\ page' = [page EXCEPT ![c] = 0]
  BY <1>2, Ends DEF EndJob, hwVars, pageVars
<1>4. JobIs(c, "evict") /\ Evicting(c) /\ TaskJob(c) BY <1>3 DEF JobIs, Evicting, TaskJob
<1>5. /\ Osc(c) \in Component /\ JobStart(c) = mCacheWays[way[c]].dataStart
      /\ JobStart(c) \in Parts(Osc(c)) /\ ~Idle(c) /\ way[c] \in Way /\ way[c] \in Nat
  <2>1. JobIs(c, "evict") => ~JobIs(c, "load") BY DEF JobIs
  <2> QED BY <1>4, <2>1, TaskJobFacts DEF Way
<1>6. JobEnd(c) = PartEnd(JobStart(c), End[Osc(c)])
  <2>1. JobEnd(c) = mCacheWays[way[c]].dataEnd BY <1>4 DEF JobEnd, JobIs
  <2> QED BY <1>4, <1>5, <2>1, OwnWays
<1>7. \A v \in PagesOf(Osc(c), JobStart(c)) : Cleared(c, v)
  <2>1. \A v \in PagesOf(Osc(c), JobStart(c)) : v < JobEnd(c) /\ v \in Nat
    BY <1>5, <1>6, PartPages DEF PagesOf
  <2>2. JobEnd(c) \in Nat /\ page[c] \in Nat BY <1>2, <1>5, <1>6, PartPages
  <2> QED BY <1>2, <1>3, <1>4, <2>1, <2>2 DEF EvictInv
<1>8. pc'[c] = "evict" /\ way'[c] = way[c] + 1 /\ Osc(c)' = Osc(c)
  BY <1>2, <1>3 DEF WayTypes, Osc
<1>9. EndsInv' BY <1>2, <1>3, EndsStep
<1>10. JobInv(c)' /\ pc'[c] # "off" /\ ~Booting(c)' BY <1>8, NoJob DEF Booting, JobIs
<1>11. EvictInv(c)'
  <2>1. ASSUME NEW p \in Parts(Osc(c)), NEW w \in Way, mCacheWays[w].dataStart = p, w < way[c] + 1
        PROVE  \A v \in PagesOf(Osc(c), p) : Cleared(c, v)
    <3>1. CASE w = way[c] BY <1>5, <1>7, <2>1, <3>1
    <3>2. CASE w # way[c]
      <4>1. w < way[c] BY <1>5, <2>1, <3>2 DEF Way
      <4> QED BY <1>2, <1>4, <2>1, <4>1 DEF EvictInv
    <3> QED BY <3>1, <3>2
  <2>2. /\ \A v : Cleared(c, v)' = Cleared(c, v)
        /\ Parts(Osc(c))' = Parts(Osc(c)) /\ \A p : PagesOf(Osc(c), p)' = PagesOf(Osc(c), p)
    <3> DEFINE o == Osc(c)
    <3>1. o' = o BY <1>8
    <3> HIDE DEF o
    <3>2. Parts(o)' = Parts(o) /\ \A p : PagesOf(o, p)' = PagesOf(o, p)
      BY <3>1 DEF Parts, Owned, PagesOf, PartEnd
    <3> QED BY <1>3, <3>2 DEF Cleared, o
  <2>3. (\A p \in Parts(Osc(c)) : \A w \in Way :
             mCacheWays[w].dataStart = p /\ (pc[c] = "free" \/ w < way[c]) =>
                 \A v \in PagesOf(Osc(c), p) : Cleared(c, v))'
    BY <1>3, <1>8, <2>1, <2>2
  <2>4. way'[c] \in Nat /\ ~JobIs(c, "evict")' BY <1>5, <1>8 DEF JobIs
  <2> QED BY <2>3, <2>4 DEF EvictInv
<1> QED BY <1>1, <1>3, <1>9, <1>10, <1>11, KeptData

----------------------------------------------------------------------------
(* The steps of a core that is loading, after which it is at no page.      *)
LEMMA LoadingData ==
    ASSUME IInv, NEW c \in Core, IInv', OwnChanges(c), NoneLost(c), DataInv, Coloring,
           UNCHANGED <<variant, directory, pte, memory, moving, step, tlb>>,
           pc[c] = "job" => moving[c] = Nil,
           page' = page \/ page' = [page EXCEPT ![c] = 0],
           pc'[c] \in {"check", "owner", "run", "preload", "getway"},
           \A w \in Way :
              \/ mCacheWays'[w].dataStart = 0
              \/ /\ mCacheWays'[w].dataStart = mCacheWays[w].dataStart
                 /\ mCacheWays'[w].dataEnd = mCacheWays[w].dataEnd
              \/ /\ Loading(c) /\ mCacheWays'[w].dataStart = oscStart[c]
                 /\ mCacheWays'[w].dataEnd = PartEnd(oscStart[c], End[Osc(c)])
    PROVE  DataInv'
<1>1. EndsInv BY DEF DataInv
<1>2. EndsInv' BY <1>1, EndsStep
<1>3. JobInv(c)' /\ EvictInv(c)' /\ pc'[c] # "off" /\ ~Booting(c)'
  BY NoJob DEF Booting, JobIs
<1>4. page' = page \/ \E n \in Nat : page' = [page EXCEPT ![c] = n]
  OBVIOUS
<1> QED BY <1>2, <1>3, <1>4, KeptData

LEMMA FoundData ==
    ASSUME IInv, DataInv, Coloring, NEW c \in Core, NEW w \in Way, Found(c, w)
    PROVE  DataInv'
<1>1. IInv' /\ OwnChanges(c) /\ NoneLost(c) BY FoundStep
<1>2. WayTypes BY DEF IInv
<1>3. /\ UNCHANGED <<variant, directory, pte, memory, moving, step, tlb>> /\ page' = page
      /\ pc[c] = "getway" /\ pc' = [pc EXCEPT ![c] = "check"]
      /\ mCacheWays' = [mCacheWays EXCEPT ![w].lruCount = 0, ![w].inUse = TRUE]
  BY DEF Found, Goto, hwVars, pageVars
<1>4. pc'[c] = "check" BY <1>2, <1>3 DEF WayTypes
<1>5. ASSUME NEW x \in Way
      PROVE  /\ mCacheWays'[x].dataStart = mCacheWays[x].dataStart
             /\ mCacheWays'[x].dataEnd = mCacheWays[x].dataEnd
  <2>1. mCacheWays[x] \in Record BY <1>2 DEF WayTypes
  <2> QED BY <1>2, <1>3, <2>1 DEF WayTypes, Record
<1> QED BY <1>1, <1>3, <1>4, <1>5, LoadingData

LEMMA FreeWayData ==
    ASSUME IInv, DataInv, Coloring, NEW c \in Core, NEW w \in Way, FreeWay(c, w)
    PROVE  DataInv'
<1>1. IInv' /\ OwnChanges(c) /\ NoneLost(c) BY FreeWayStep
<1>2. WayTypes BY DEF IInv
<1>3. /\ UNCHANGED <<variant, directory, pte, memory, moving, step, tlb>> /\ page' = page
      /\ pc[c] = "getway" /\ pc' = [pc EXCEPT ![c] = "check"]
      /\ mCacheWays' = [Aged EXCEPT ![w] = Taken(Aged[w])]
  BY DEF FreeWay, Goto, hwVars, pageVars
<1>4. pc'[c] = "check" BY <1>2, <1>3 DEF WayTypes
<1>5. ASSUME NEW x \in Way
      PROVE  \/ mCacheWays'[x].dataStart = 0
             \/ /\ mCacheWays'[x].dataStart = mCacheWays[x].dataStart
                /\ mCacheWays'[x].dataEnd = mCacheWays[x].dataEnd
  <2>1. Aged \in [Way -> Record] BY <1>2, AgedFacts
  <2>2. CASE x = w
    <3>1. mCacheWays'[x] = Taken(Aged[w]) /\ Aged[w] \in Record BY <1>3, <2>1, <2>2
    <3> QED BY <3>1, TakenFacts
  <2>3. CASE x # w
    <3>1. mCacheWays'[x] = Aged[x] BY <1>3, <2>1, <2>3
    <3> QED BY <1>2, <3>1, AgedFacts
  <2> QED BY <2>2, <2>3
<1> QED BY <1>1, <1>3, <1>4, <1>5, LoadingData

LEMMA EndVictimData ==
    ASSUME IInv, DataInv, Coloring, NEW c \in Core, EndJob(c), job[c] = "victim"
    PROVE  DataInv'
<1>1. IInv' /\ OwnChanges(c) /\ NoneLost(c) BY EndVictimStep
<1>2. WayTypes BY DEF IInv
<1>3. /\ UNCHANGED <<variant, directory, pte, memory, moving, step, tlb>>
      /\ page' = [page EXCEPT ![c] = 0] /\ moving[c] = Nil
      /\ pc' = [pc EXCEPT ![c] = "check"]
      /\ mCacheWays' = [mCacheWays EXCEPT ![way[c]] = Taken(@)]
  BY <1>2, Ends DEF EndJob, hwVars, pageVars
<1>4. pc'[c] = "check" BY <1>2, <1>3 DEF WayTypes
<1>5. ASSUME NEW x \in Way
      PROVE  \/ mCacheWays'[x].dataStart = 0
             \/ /\ mCacheWays'[x].dataStart = mCacheWays[x].dataStart
                /\ mCacheWays'[x].dataEnd = mCacheWays[x].dataEnd
  <2>1. mCacheWays[x] \in Record BY <1>2 DEF WayTypes
  <2>2. CASE x = way[c]
    <3>1. mCacheWays'[x] = Taken(mCacheWays[x]) BY <1>2, <1>3, <2>2 DEF WayTypes
    <3> QED BY <2>1, <3>1, TakenFacts
  <2>3. CASE x # way[c] BY <1>2, <1>3, <2>3 DEF WayTypes
  <2> QED BY <2>2, <2>3
<1> QED BY <1>1, <1>3, <1>4, <1>5, LoadingData

LEMMA LabelDataData ==
    ASSUME IInv, DataInv, Coloring, NEW c \in Core, LabelData(c)
    PROVE  DataInv'
<1> DEFINE e == PartEnd(oscStart[c], End[Osc(c)])
<1>1. IInv' /\ OwnChanges(c) /\ NoneLost(c) BY LabelDataStep
<1>2. WayTypes BY DEF IInv
<1>3. /\ UNCHANGED <<variant, directory, pte, memory, moving, step, tlb>> /\ page' = page
      /\ pc[c] = "label" /\ pc' = [pc EXCEPT ![c] = "owner"]
      /\ mCacheWays' = [mCacheWays EXCEPT ![way[c]].dataStart = oscStart[c], ![way[c]].dataEnd = e]
  BY DEF LabelData, Goto, hwVars, pageVars
<1>4. pc'[c] = "owner" /\ Loading(c) BY <1>2, <1>3 DEF WayTypes, Loading
<1> HIDE DEF e
<1>5. ASSUME NEW x \in Way
      PROVE  \/ /\ mCacheWays'[x].dataStart = mCacheWays[x].dataStart
                /\ mCacheWays'[x].dataEnd = mCacheWays[x].dataEnd
             \/ mCacheWays'[x].dataStart = oscStart[c] /\ mCacheWays'[x].dataEnd = e
  <2>1. mCacheWays[x] \in Record BY <1>2 DEF WayTypes
  <2>2. CASE x = way[c] BY <1>2, <1>3, <2>1, <2>2 DEF WayTypes, Record
  <2>3. CASE x # way[c] BY <1>2, <1>3, <2>3 DEF WayTypes
  <2> QED BY <2>2, <2>3
<1>6. ASSUME NEW x \in Way
      PROVE  \/ mCacheWays'[x].dataStart = 0
             \/ /\ mCacheWays'[x].dataStart = mCacheWays[x].dataStart
                /\ mCacheWays'[x].dataEnd = mCacheWays[x].dataEnd
             \/ /\ Loading(c) /\ mCacheWays'[x].dataStart = oscStart[c]
                /\ mCacheWays'[x].dataEnd = PartEnd(oscStart[c], End[Osc(c)])
  BY <1>4, <1>5 DEF e
<1> QED BY <1>1, <1>3, <1>4, <1>6, LoadingData

LEMMA LabelOwnerData ==
    ASSUME IInv, DataInv, Coloring, NEW c \in Core, LabelOwner(c)
    PROVE  DataInv'
<1>1. IInv' /\ OwnChanges(c) /\ NoneLost(c) BY LabelOwnerStep
<1>2. WayTypes BY DEF IInv
<1>3. /\ UNCHANGED <<variant, directory, pte, memory, moving, step, tlb>> /\ page' = page
      /\ pc[c] = "owner"
      /\ \E l \in {"run", "preload", "getway"} : pc' = [pc EXCEPT ![c] = l]
      /\ mCacheWays' = [mCacheWays EXCEPT ![way[c]].osc = Osc(c)]
  BY DEF LabelOwner, Goto, hwVars, pageVars
<1>4. pc'[c] \in {"run", "preload", "getway"} BY <1>2, <1>3 DEF WayTypes
<1>5. ASSUME NEW x \in Way
      PROVE  /\ mCacheWays'[x].dataStart = mCacheWays[x].dataStart
             /\ mCacheWays'[x].dataEnd = mCacheWays[x].dataEnd
  <2>1. mCacheWays[x] \in Record BY <1>2 DEF WayTypes
  <2> QED BY <1>2, <1>3, <2>1 DEF WayTypes, Record
<1> QED BY <1>1, <1>3, <1>4, <1>5, LoadingData

LEMMA VictimData ==
    ASSUME IInv, DataInv, Coloring, NEW c \in Core, NEW w \in Way, Victim(c, w)
    PROVE  DataInv'
<1> DEFINE p == mCacheWays[w].dataStart
<1>1. IInv' /\ OwnChanges(c) /\ NoneLost(c) BY VictimStep
<1>2. WayTypes /\ EndsInv /\ LabelsInv /\ page \in [Core -> Nat] BY DEF IInv, DataInv, ColoredInv
<1>3. /\ UNCHANGED <<variant, directory, pte, memory, moving, step, tlb>>
      /\ page' = [page EXCEPT ![c] = p] /\ pc[c] = "getway"
      /\ pc' = [pc EXCEPT ![c] = "job"] /\ job' = [job EXCEPT ![c] = "victim"]
      /\ way' = [way EXCEPT ![c] = w] /\ mCacheWays' = Aged
      /\ Free = {} /\ Scanned # {} /\ w = Max(Oldest)
  BY DEF Victim, StartJob, Goto, hwVars, pageVars
<1>4. p # 0
  <2>1. Oldest \subseteq Way /\ Oldest \subseteq Eligible BY DEF Oldest, Scanned, Eligible
  <2>2. w \in Eligible BY <1>2, <1>3, <2>1, SomeOldest, WaysInOrder
  <2> QED BY <1>3, <2>2 DEF Free, Eligible
<1>5. PICK o \in Component : p \in Parts(o) BY <1>2, <1>4 DEF LabelsInv
<1>6. p \in Nat /\ p \in p .. PartEnd(p, End[o]) BY <1>5, PartPages
<1>7. ASSUME NEW x \in Way
      PROVE  /\ mCacheWays'[x].dataStart = mCacheWays[x].dataStart
             /\ mCacheWays'[x].dataEnd = mCacheWays[x].dataEnd
  BY <1>2, <1>3, AgedFacts
<1>8. EndsInv' BY <1>2, <1>7, EndsStep
<1>9. pc'[c] = "job" /\ job'[c] = "victim" /\ way'[c] = w /\ page'[c] = p
  BY <1>2, <1>3 DEF WayTypes
<1>10. JobStart(c)' = p /\ JobEnd(c)' = PartEnd(p, End[o])
  <2>1. JobStart(c)' = mCacheWays'[w].dataStart /\ JobEnd(c)' = mCacheWays'[w].dataEnd
    BY <1>9 DEF JobStart, JobEnd, Prefetches
  <2> QED BY <1>2, <1>5, <1>7, <2>1 DEF EndsInv
<1>11. page' = [page EXCEPT ![c] = p] BY <1>3
<1> HIDE DEF p
<1>12. JobInv(c)' BY <1>4, <1>6, <1>9, <1>10 DEF JobInv, JobIs
<1>13. EvictInv(c)' /\ pc'[c] # "off" /\ ~Booting(c)'
  BY <1>9 DEF EvictInv, Evicting, Booting, JobIs
<1> QED BY <1>1, <1>3, <1>6, <1>8, <1>11, <1>12, <1>13, KeptData

----------------------------------------------------------------------------
LEMMA FreeWaysData ==
    ASSUME IInv, DataInv, Coloring, NEW c \in Core, FreeWays(c)
    PROVE  DataInv'
<1> DEFINE o == Osc(c)
           W == WaysOf(o)
           done == at[c] = Len(active[c])
<1>1. IInv' /\ OwnChanges(c) BY FreeWaysStep
<1>2. /\ WayTypes /\ TaskOf(c) /\ OwnHeld(c) /\ TasksInv /\ PageTypes /\ EndsInv /\ EvictInv(c)
      /\ page \in [Core -> Nat]
  BY OwnTask DEF IInv, HeldInv, DataInv, ColoredInv
<1>3. /\ UNCHANGED <<variant, directory, pte, memory, moving, step>> /\ tlb' = tlb /\ page' = page
      /\ pc[c] = "free" /\ pc' = [pc EXCEPT ![c] = IF done THEN "idle" ELSE "evict"]
      /\ active' = [active EXCEPT ![c] = IF done THEN <<>> ELSE @]
      /\ at' = [at EXCEPT ![c] = IF done THEN 1 ELSE @ + 1]
      /\ way' = [way EXCEPT ![c] = 0]
  BY DEF FreeWays, Goto, hwVars, pageVars
<1>4. ASSUME NEW x \in Way
      PROVE  /\ mCacheWays'[x].dataStart \in {0, mCacheWays[x].dataStart}
             /\ mCacheWays'[x].dataEnd = mCacheWays[x].dataEnd
             /\ x \notin W => mCacheWays'[x] = mCacheWays[x]
  <2>1. mCacheWays[x] \in Record BY <1>2 DEF WayTypes
  <2>2. mCacheWays'[x] = IF x \in W
            THEN [mCacheWays[x] EXCEPT !.inUse = FALSE, !.lruCount = 0,
                    !.dataStart = IF variant.evictAfterUse THEN 0 ELSE @,
                    !.osc = IF variant.evictAfterUse THEN Nil ELSE @]
            ELSE mCacheWays[x]
    BY DEF FreeWays
  <2> HIDE DEF W
  <2> QED BY <2>1, <2>2 DEF Record
<1>5. /\ ~Loading(c) /\ ~Current(c) /\ ~Idle(c) /\ Evicting(c) /\ pc[c] # "job"
      /\ o \in Component /\ at[c] \in 1 .. Len(active[c]) /\ Len(active[c]) \in Nat
      /\ o = active[c][at[c]]
  <2>1. ~Loading(c) /\ ~Current(c) /\ ~Idle(c) /\ Evicting(c) /\ pc[c] # "job"
    BY <1>3 DEF Loading, Current, Idle, Booting, JobIs, Evicting
  <2> QED BY <1>2, <2>1, TaskFacts DEF Osc
<1>6. /\ pc'[c] = IF done THEN "idle" ELSE "evict"
      /\ active'[c] = IF done THEN <<>> ELSE active[c]
      /\ at'[c] = IF done THEN 1 ELSE at[c] + 1
      /\ way'[c] = 0
  BY <1>2, <1>3 DEF WayTypes
<1>7. ASSUME NEW p \in Parts(o), NEW w \in Way, mCacheWays[w].dataStart = p
      PROVE  \A v \in PagesOf(o, p) : Cleared(c, v)
  BY <1>2, <1>3, <1>5, <1>7 DEF EvictInv
<1>8. EndsInv' BY <1>2, <1>4, EndsStep
<1>9. ASSUME NEW q \in Component, NEW p \in Parts(q), NEW w \in Way, Away(w, p)
      PROVE  Away(w, p)' \/ Home(q, p)
  <2>1. CASE mCacheWays[w].dataStart = p /\ mCacheWays[w].inUse
    <3>1. CASE w \in W
      <4>1. q = o BY <1>5, <1>9, <2>1, <3>1, PartsFacts DEF WaysOf
      <4> QED BY <1>7, <1>9, <2>1, <4>1 DEF Home, Cleared
    <3>2. CASE w \notin W BY <1>4, <2>1, <3>2 DEF Away
    <3> QED BY <3>1, <3>2
  <2>2. ASSUME NEW d \in Core, AtHand(d, w), oscStart[d] = p PROVE Away(w, p)'
    <3>1. d # c BY <1>5, <2>2 DEF AtHand
    <3>2. Current(d)' = Current(d) /\ way'[d] = way[d] /\ oscStart'[d] = oscStart[d]
      BY <1>1, <3>1, OthersSame DEF OwnChanges, Others
    <3> QED BY <2>2, <3>2 DEF Away, AtHand
  <2> QED BY <1>9, <2>1, <2>2 DEF Away
<1>10. ASSUME NEW q \in Component, NEW p \in Parts(q), NEW i \in 1 .. Len(active[c]),
              active[c][i] = q, Holds(c, i, p)
       PROVE  \/ active'[c] = active[c] /\ Holds(c, i, p)'
              \/ \A v \in PagesOf(q, p) : tlb'[c][v] = Nil
  <2>1. i >= at[c] BY <1>3, <1>5, <1>10 DEF Holds
  <2>2. CASE i = at[c]
    <3>1. q = o BY <1>5, <1>10, <2>2
    <3>2. p \in Nat BY PartsFacts
    <3>3. PICK w \in Way : mCacheWays[w].dataStart = p BY <1>2, <1>10, <3>2 DEF OwnHeld
    <3> QED BY <1>3, <1>7, <3>1, <3>3 DEF Cleared
  <2>3. CASE i # at[c]
    <3>1. ~done /\ i >= at[c] + 1 BY <1>5, <2>1, <2>3
    <3>2. active'[c] = active[c] /\ at'[c] = at[c] + 1 /\ Evicting(c)' BY <1>6, <3>1 DEF Evicting
    <3>3. Holds(c, i, p)' <=> p \in Parts(active[c][i])
      BY <3>1, <3>2, <1>3, <1>6 DEF Holds, Parts, Owned
    <3> QED BY <1>10, <3>2, <3>3
  <2> QED BY <2>2, <2>3
<1>11. JobInv(c)' /\ pc'[c] # "off" /\ ~Booting(c)'
  BY <1>6, NoJob DEF Booting, JobIs
<1>12. EvictInv(c)'
  <2>1. \A w \in Way : ~(w < 0) BY DEF Way
  <2> QED BY <1>6, <2>1 DEF EvictInv, Evicting, JobIs
<1>13. /\ tlb' \in [Core -> [Page -> Page \cup {Nil}]] /\ \A d \in Core : d # c => tlb'[d] = tlb[d]
       /\ \A v \in Page : tlb'[c][v] \in {Nil, tlb[c][v]}
       /\ page' \in [Core -> Nat] /\ \A d \in Core : d # c => page'[d] = page[d]
  BY <1>2, <1>3 DEF PageTypes
<1> QED BY <1>1, <1>3, <1>5, <1>8, <1>9, <1>10, <1>11, <1>12, <1>13, QuietData

----------------------------------------------------------------------------
(* While the first core boots every page of the components is at home.     *)
LEMMA BootData ==
    ASSUME IInv, IInv', DataInv, Coloring, \A d \in Core : Idle(d) /\ Idle(d)',
           UNCHANGED <<variant, directory, memory, moving, step>>,
           pte' \in [Page -> [base : Page, cacheable : BOOLEAN]],
           \A v \in Page : pte'[v].base = pte[v].base,
           tlb' \in [Core -> [Page -> Page \cup {Nil}]],
           \A d \in Core : \A v \in Page : tlb'[d][v] \in {Nil, tlb[d][v]},
           \A d \in Core : moving[d] = Nil, page' \in [Core -> Nat],
           EndsInv', CritInv',
           JobIs(0, "critical")' => page'[0] \in (oscStart[0] .. JobEnd(0))'
    PROVE  DataInv'
<1>1. PageTypes /\ EndsInv /\ ColoredInv BY DEF DataInv
<1>2. /\ \A d \in Core : step[d] = Nil
      /\ HomeInv /\ MemInv /\ TlbInv /\ ColorInv
  BY <1>1 DEF ColoredInv
<1>3. PageTypes'
  <2>1. Linked' BY <1>1 DEF PageTypes, Linked
  <2> QED BY <1>1, <2>1 DEF PageTypes, Move
<1>4. ASSUME NEW d \in Core
      PROVE  ~Evicting(d)' /\ ~TaskJob(d)' /\ ~JobIs(d, "evict")'
  BY <1>4 DEF Idle, Booting, Evicting, TaskJob, JobIs
<1>5. ASSUME NEW o \in Component, NEW p \in Parts(o), NEW u \in PagesOf(o, p)
      PROVE  /\ u \in Page /\ pte[u].base = u /\ pte'[u].base = u
             /\ \A d \in Core : tlb[d][u] = Nil /\ tlb'[d][u] = Nil
  <2>1. u \in Page BY PartPages
  <2>2. pte[u].base = u BY <1>2, NothingUsed DEF HomeInv
  <2>3. ASSUME NEW d \in Core PROVE tlb[d][u] = Nil
    <3>1. \A i : ~Holds(d, i, p) BY NothingUsed
    <3> QED BY <1>2, <3>1 DEF TlbInv
  <2> QED BY <2>1, <2>2, <2>3
<1>6. HomeInv' BY <1>5 DEF HomeInv
<1>7. MemInv' BY <1>2, <1>5 DEF MemInv
<1>8. TlbInv' BY <1>5 DEF TlbInv
<1>9. ColorInv' BY <1>2 DEF ColorInv
<1>10. ASSUME NEW d \in Core PROVE JobInv(d)' /\ MoveInv(d)' /\ EvictInv(d)'
  <2>1. JobIs(d, "critical")' => d = 0
    <3>1. JobIs(d, "critical")' => Booting(d)' BY DEF JobIs, Booting
    <3> QED BY <3>1 DEF IInv, StatesInv
  <2>2. JobInv(d)' BY <1>4, <2>1 DEF JobInv
  <2> QED BY <1>4, <2>2 DEF MoveInv, EvictInv
<1>11. ColoredInv' BY <1>2, <1>6, <1>7, <1>8, <1>9, <1>10 DEF ColoredInv
<1> QED BY <1>3, <1>11 DEF DataInv, Coloring, Backend

LEMMA InitPrimaryPages ==
    ASSUME PageTypes, InitPrimary
    PROVE  /\ pte' \in [Page -> [base : Page, cacheable : BOOLEAN]]
           /\ \A v \in Page : pte'[v].base = pte[v].base
           /\ tlb' = [tlb EXCEPT ![0] = [v \in Page |-> Nil]]
           /\ tlb' \in [Core -> [Page -> Page \cup {Nil}]]
           /\ \A d \in Core : \A v \in Page : tlb'[d][v] \in {Nil, tlb[d][v]}
<1>1. PICK b \in BOOLEAN : \E S : SetRangeCacheable(S, b) BY DEF InitPrimary
<1>2. PICK S : SetRangeCacheable(S, b) BY <1>1
<1>3. pte \in [Page -> [base : Page, cacheable : BOOLEAN]]
      /\ tlb \in [Core -> [Page -> Page \cup {Nil}]]
  BY DEF PageTypes
<1>4. PICK T : pte' = [p \in Page |-> IF p \in T THEN [pte[p] EXCEPT !.cacheable = b] ELSE pte[p]]
  BY <1>2 DEF SetRangeCacheable
<1>5. ASSUME NEW p \in Page
      PROVE  /\ [pte[p] EXCEPT !.cacheable = b] \in [base : Page, cacheable : BOOLEAN]
             /\ [pte[p] EXCEPT !.cacheable = b].base = pte[p].base
             /\ pte[p] \in [base : Page, cacheable : BOOLEAN]
  BY <1>3
<1>6. /\ pte' \in [Page -> [base : Page, cacheable : BOOLEAN]]
      /\ \A v \in Page : pte'[v].base = pte[v].base
  BY <1>4, <1>5
<1>7. tlb' = [tlb EXCEPT ![0] = [v \in Page |-> Nil]] BY DEF InitPrimary, FlushTLB
<1> QED BY <1>3, <1>6, <1>7

LEMMA InitPrimaryData ==
    ASSUME IInv, DataInv, Coloring, InitPrimary
    PROVE  DataInv'
<1>1. 0 \in Core /\ Booting(0) BY CoresArePages DEF InitPrimary, Booting
<1>2. IInv' /\ \A d \in Core : Idle(d) /\ Idle(d)' BY <1>1, BootSteps
<1>3. PageTypes /\ EndsInv /\ ColoredInv /\ WayTypes BY DEF DataInv, IInv
<1>4. /\ UNCHANGED <<variant, directory, memory, moving, step, page, way, mCacheWays, job>>
      /\ pc[0] = "boot" /\ pc' = [pc EXCEPT ![0] = "critical"]
      /\ oscStart' = [oscStart EXCEPT ![0] = CriticalStart]
  BY DEF InitPrimary, Goto, wayVars
<1>5. pc'[0] = "critical" /\ oscStart'[0] = CriticalStart BY <1>1, <1>3, <1>4 DEF WayTypes
<1>6. ASSUME NEW d \in Core PROVE moving[d] = Nil
  <2>1. pc[d] # "job" BY <1>4, <1>6, <1>1 DEF IInv, StatesInv
  <2> QED BY <1>3, <2>1 DEF ColoredInv, MoveInv, Working
<1>7. EndsInv' BY <1>1, <1>3, <1>4, EndsStep
<1>8. CritInv'
  <2>1. way'[0] = 0 BY <1>3, <1>4 DEF ColoredInv, CritInv
  <2>2. CriticalStart \in CriticalStart .. CriticalEnd
        /\ CriticalStart = CriticalStart + 0 * WayPages
    <3> DEFINE n == CacheWayCount * WayPages
    <3>1. CriticalStart \in Nat /\ CriticalEnd \in CriticalStart .. CriticalStart + n
      BY ColorAssumption
    <3>2. n \in Nat BY WaySize, CacheAssumption
    <3>3. 0 * WayPages = 0 BY WaySize
    <3> HIDE DEF n
    <3> QED BY <3>1, <3>2, <3>3
  <2> QED BY <1>5, <2>1, <2>2 DEF CritInv, JobIs
<1>9. ~JobIs(0, "critical")' BY <1>5 DEF JobIs
<1> QED BY <1>2, <1>3, <1>4, <1>6, <1>7, <1>8, <1>9, InitPrimaryPages, BootData DEF ColoredInv

LEMMA CriticalSteps ==
    ASSUME IInv, DataInv, Coloring,
           PreloadCriticalData \/ StartSecondaries \/ (EndJob(0) /\ job[0] = "critical")
    PROVE  DataInv'
<1>1. 0 \in Core /\ Booting(0)
  BY CoresArePages DEF PreloadCriticalData, StartSecondaries, EndJob, Booting, JobIs
<1>2. IInv' /\ \A d \in Core : Idle(d) /\ Idle(d)' BY <1>1, BootSteps
<1>3. PageTypes /\ EndsInv /\ ColoredInv /\ WayTypes BY DEF DataInv, IInv
<1>4. CritInv /\ JobInv(0) /\ page \in [Core -> Nat] BY <1>1, <1>3 DEF ColoredInv
<1>5. UNCHANGED <<variant, directory, pte, tlb, memory, moving, step>>
  BY DEF PreloadCriticalData, StartSecondaries, EndJob, pageVars, wayVars, hwVars
<1>6. ASSUME NEW d \in Core PROVE moving[d] = Nil
  <2>1. d # 0 => pc[d] # "job" BY <1>1 DEF IInv, StatesInv
  <2>2. pc[0] = "job" => moving[0] = Nil BY DEF PreloadCriticalData, StartSecondaries, EndJob
  <2> QED BY <1>3, <2>1, <2>2 DEF ColoredInv, MoveInv, Working
<1>7. /\ pte \in [Page -> [base : Page, cacheable : BOOLEAN]]
      /\ tlb \in [Core -> [Page -> Page \cup {Nil}]]
  BY <1>3 DEF PageTypes
<1>8. CriticalStart \in Nat /\ CriticalEnd \in Int /\ CriticalStart <= CriticalEnd /\ WayPages \in Nat \ {0}
  <2> DEFINE n == CacheWayCount * WayPages
  <2>1. CriticalStart \in Nat /\ CriticalEnd \in CriticalStart .. CriticalStart + n
    BY ColorAssumption
  <2>2. n \in Nat /\ WayPages \in Nat \ {0} BY WaySize, CacheAssumption
  <2> HIDE DEF n
  <2> QED BY <2>1, <2>2
<1>9. CASE PreloadCriticalData
  <2>1. /\ pc[0] = "critical" /\ oscStart[0] < CriticalEnd /\ mCacheWays' = mCacheWays
        /\ oscStart' = oscStart
        /\ job' = [job EXCEPT ![0] = "critical"] /\ way' = [way EXCEPT ![0] = way[0]]
        /\ page' = [page EXCEPT ![0] = oscStart[0]] /\ pc' = [pc EXCEPT ![0] = "job"]
    BY <1>9 DEF PreloadCriticalData, StartJob, Goto, wayVars, taskVars
  <2>2. job'[0] = "critical" /\ way'[0] = way[0] /\ page'[0] = oscStart[0] /\ pc'[0] = "job"
    BY <1>1, <1>3, <1>4, <2>1 DEF WayTypes
  <2>3. /\ way[0] \in Nat /\ oscStart[0] \in CriticalStart .. CriticalEnd
        /\ oscStart[0] = CriticalStart + way[0] * WayPages
    BY <1>4, <2>1 DEF CritInv
  <2>4. CritInv' BY <2>1, <2>2, <2>3 DEF CritInv
  <2>5. JobEnd(0)' = PartEnd(oscStart[0], CriticalEnd) BY <2>1, <2>2 DEF JobEnd, PartEnd
  <2>6. oscStart[0] \in Nat BY <1>8, <2>3
  <2>7. PartEnd(oscStart[0], CriticalEnd) \in Int /\ PartEnd(oscStart[0], CriticalEnd) >= oscStart[0]
    <3>1. oscStart[0] + WayPages \in Int BY <1>8, <2>6
    <3>2. PartEnd(oscStart[0], CriticalEnd)
          = IF oscStart[0] + WayPages <= CriticalEnd THEN oscStart[0] + WayPages ELSE CriticalEnd
      BY <1>8, <3>1, SmallerOf DEF PartEnd
    <3> QED BY <1>8, <2>1, <2>6, <3>2
  <2>8. page'[0] \in (oscStart[0] .. JobEnd(0))' BY <2>1, <2>2, <2>5, <2>6, <2>7
  <2>9. page' \in [Core -> Nat] BY <1>4, <2>1, <2>6
  <2>10. EndsInv' BY <1>1, <1>3, <2>1, EndsStep
  <2> QED BY <1>2, <1>5, <1>6, <1>7, <2>4, <2>8, <2>9, <2>10, BootData
<1>10. CASE StartSecondaries
  <2>1. /\ mCacheWays' = mCacheWays /\ page' = page /\ pc'[0] = "idle"
    BY <1>1, <1>10 DEF StartSecondaries, wayVars
  <2>2. CritInv' /\ ~JobIs(0, "critical")' BY <2>1 DEF CritInv, JobIs
  <2>3. EndsInv' BY <1>1, <1>3, <2>1, EndsStep
  <2> QED BY <1>2, <1>4, <1>5, <1>6, <1>7, <2>1, <2>2, <2>3, BootData
<1>11. CASE EndJob(0) /\ job[0] = "critical"
  <2>1. /\ pc[0] = "job" /\ pc' = [pc EXCEPT ![0] = "critical"] /\ way' = [way EXCEPT ![0] = @ + 1]
        /\ oscStart' = [oscStart EXCEPT ![0] = JobEnd(0)]
        /\ page' = [page EXCEPT ![0] = 0]
        /\ mCacheWays' = [mCacheWays EXCEPT ![way[0]].permanentLocked = TRUE]
    BY <1>1, <1>3, <1>11, Ends DEF EndJob
  <2>2. JobIs(0, "critical") BY <1>11, <2>1 DEF JobIs
  <2>3. /\ JobEnd(0) \in Nat /\ oscStart[0] \in Nat /\ oscStart[0] < CriticalEnd
        /\ JobEnd(0) <= CriticalEnd
        /\ JobEnd(0) # CriticalEnd => JobEnd(0) = oscStart[0] + WayPages
    BY <1>1, <1>4, <2>2, CriticalPlace
  <2>4. way[0] \in Nat /\ oscStart[0] = CriticalStart + way[0] * WayPages
        /\ oscStart[0] \in CriticalStart .. CriticalEnd
    BY <1>4, <2>2, <2>3 DEF CritInv
  <2>5. pc'[0] = "critical" /\ way'[0] = way[0] + 1 /\ oscStart'[0] = JobEnd(0)
    BY <1>1, <1>3, <2>1 DEF WayTypes
  <2>6. JobEnd(0) >= CriticalStart
    <3>1. JobEnd(0) >= oscStart[0] BY <1>8, <2>3
    <3> QED BY <1>8, <2>3, <2>4, <3>1
  <2>7. JobEnd(0) < CriticalEnd => JobEnd(0) = CriticalStart + (way[0] + 1) * WayPages
    <3>1. (way[0] + 1) * WayPages = way[0] * WayPages + WayPages /\ way[0] * WayPages \in Nat
      BY <1>8, <2>4
    <3> DEFINE n == way[0] * WayPages
               k == (way[0] + 1) * WayPages
    <3>2. n \in Nat /\ k = n + WayPages /\ oscStart[0] = CriticalStart + n BY <2>4, <3>1
    <3> HIDE DEF n, k
    <3>3. JobEnd(0) < CriticalEnd => JobEnd(0) = CriticalStart + k BY <1>8, <2>3, <3>2
    <3> QED BY <3>3 DEF k
  <2>8. CritInv' /\ ~JobIs(0, "critical")'
    BY <1>8, <2>3, <2>4, <2>5, <2>6, <2>7 DEF CritInv, JobIs
  <2>9. page' \in [Core -> Nat] BY <1>4, <2>1
  <2>10. EndsInv'
    <3>1. ASSUME NEW x \in Way
          PROVE  /\ mCacheWays'[x].dataStart = mCacheWays[x].dataStart
                 /\ mCacheWays'[x].dataEnd = mCacheWays[x].dataEnd
      <4>1. mCacheWays[x] \in Record BY <1>3 DEF WayTypes
      <4> QED BY <1>3, <2>1, <4>1 DEF WayTypes, Record
    <3> QED BY <1>1, <1>3, <3>1, EndsStep
  <2> QED BY <1>2, <1>5, <1>6, <1>7, <2>8, <2>9, <2>10, BootData
<1> QED BY <1>9, <1>10, <1>11

----------------------------------------------------------------------------
(* The hardware's ways are not touched by the coloring.                    *)
LEMMA NoHardware ==
    ASSUME Coloring, ColoredInv, NEW c \in Core
    PROVE  /\ ~OpenWay(c) /\ ~CloseWay(c) /\ ~CleanAndInvalidateWay(c)
           /\ ~EnableWayExclusive(c) /\ ~DisableAllWays(c) /\ ~FillWay(c)
           /\ \A p \in Page : ~Miss(c, p)
<1>1. Backend = "coloring" BY DEF Coloring
<1>2. step[c] # "fill" BY StepAssumption DEF ColoredInv
<1>3. ~OpenWay(c) /\ ~CloseWay(c) BY <1>1 DEF OpenWay, CloseWay
<1>4. ~CleanAndInvalidateWay(c) BY <1>1 DEF CleanAndInvalidateWay
<1>5. ~EnableWayExclusive(c) /\ ~DisableAllWays(c) BY <1>1 DEF EnableWayExclusive, DisableAllWays
<1>6. ~FillWay(c) BY <1>2 DEF FillWay
<1>7. \A p \in Page : ~Miss(c, p) BY DEF Miss
<1> QED BY <1>3, <1>4, <1>5, <1>6, <1>7

LEMMA EndJobData ==
    ASSUME IInv, DataInv, Coloring, NEW c \in Core, EndJob(c)
    PROVE  DataInv'
<1>1. pc[c] = "job" BY DEF EndJob
<1>2. job[c] \in {"load", "victim", "evict"} \/ (job[c] = "critical" /\ c = 0)
  BY <1>1, JobKinds DEF TaskJob, JobIs
<1>3. CASE job[c] = "load" BY <1>3, PlainSteps
<1>4. CASE job[c] = "victim" BY <1>4, EndVictimData
<1>5. CASE job[c] = "evict" BY <1>5, EndEvictData
<1>6. CASE job[c] = "critical" /\ c = 0 BY <1>6, CriticalSteps
<1> QED BY <1>2, <1>3, <1>4, <1>5, <1>6

LEMMA SameData ==
    ASSUME DataInv, UNCHANGED vars
    PROVE  DataInv'
<1>1. /\ UNCHANGED <<variant, directory, pte, tlb, memory, moving, mCacheWays, pc, job, way,
                     active, at, oscStart, page, step>>
  BY DEF vars, pageVars, wayVars, hwVars, taskVars
<1>2. PageTypes' = PageTypes BY <1>1 DEF PageTypes, Linked
<1>3. Coloring' = Coloring BY <1>1 DEF Coloring, Backend
<1>4. EndsInv' = EndsInv BY <1>1 DEF EndsInv, Parts, Owned, PartEnd
<1>5. ColoredInv => ColoredInv'
  <2> SUFFICES ASSUME ColoredInv PROVE ColoredInv'
    OBVIOUS
  <2>1. HomeInv' BY <1>1 DEF ColoredInv, HomeInv, Away, AtHand, Current, JobIs
  <2>2. MemInv' /\ ColorInv' /\ CritInv'
    BY <1>1 DEF ColoredInv, MemInv, ColorInv, CritInv, JobIs
  <2>3. TlbInv' BY <1>1 DEF ColoredInv, TlbInv, Holds, Loading, Evicting, JobIs
  <2>4. ASSUME NEW c \in Core PROVE JobInv(c)' /\ MoveInv(c)' /\ EvictInv(c)'
    <3>1. /\ JobStart(c)' = JobStart(c) /\ JobEnd(c)' = JobEnd(c) /\ Working(c)' = Working(c)
          /\ Prefetches(c)' = Prefetches(c) /\ Target(c)' = Target(c) /\ TaskJob(c)' = TaskJob(c)
          /\ Evicting(c)' = Evicting(c) /\ Osc(c)' = Osc(c)
          /\ \A kind : JobIs(c, kind)' = JobIs(c, kind)
          /\ \A v : Cleared(c, v)' = Cleared(c, v)
      BY <1>1 DEF JobStart, JobEnd, Working, Prefetches, Target, TaskJob, Evicting, Osc, JobIs, Cleared,
                  ColorPage, ColorOffset, PartEnd
    <3>2. JobInv(c)' BY <1>1, <3>1 DEF ColoredInv, JobInv
    <3>3. MoveInv(c)' BY <1>1, <3>1 DEF ColoredInv, MoveInv
    <3>4. EvictInv(c)' BY <1>1, <3>1 DEF ColoredInv, EvictInv, Parts, Owned, PagesOf, PartEnd
    <3> QED BY <3>2, <3>3, <3>4
  <2>5. page' \in [Core -> Nat] /\ \A c \in Core : step'[c] = Nil BY <1>1 DEF ColoredInv
  <2> QED BY <2>1, <2>2, <2>3, <2>4, <2>5 DEF ColoredInv
<1>6. PlainInv' = PlainInv BY <1>1 DEF PlainInv
<1> QED BY <1>2, <1>3, <1>4, <1>5, <1>6 DEF DataInv

LEMMA ColoredStep ==
    ASSUME IInv, DataInv, Coloring, [Next]_vars
    PROVE  DataInv'
<1>0. ColoredInv BY DEF DataInv
<1>1. CASE InitPrimary BY <1>1, InitPrimaryData
<1>2. CASE PreloadCriticalData \/ StartSecondaries BY <1>2, CriticalSteps
<1>3. ASSUME NEW c \in Core,
             \/ InitSecondary(c) \/ PreloadSingleOSC(c) \/ Abort(c)
             \/ \E t \in Tasks : NextTask(c, t)
      PROVE  DataInv'
  BY <1>3, PlainSteps
<1>4. ASSUME NEW c \in Core, LoadPart(c) PROVE DataInv' BY <1>4, LoadPartData
<1>5. ASSUME NEW c \in Core, NEW w \in Way, GetLRUWay(c, w) PROVE DataInv'
  BY <1>5, FoundData, FreeWayData, VictimData DEF GetLRUWay
<1>6. ASSUME NEW c \in Core, LabelData(c) \/ LabelOwner(c) PROVE DataInv'
  BY <1>6, LabelDataData, LabelOwnerData
<1>7. ASSUME NEW c \in Core, NEW v \in Page, Run(c, v) PROVE DataInv' BY <1>7, RunStep
<1>8. ASSUME NEW c \in Core, FinishTask(c) \/ LookupOSC(c) \/ FreeWays(c) PROVE DataInv'
  BY <1>8, FinishTaskData, LookupOSCData, FreeWaysData
<1>9. ASSUME NEW c \in Core, EndJob(c) PROVE DataInv' BY <1>9, EndJobData
<1>10. ASSUME NEW c \in Core, MovePage(c) \/ Copy(c) \/ NextPage(c) PROVE DataInv'
  BY <1>10, MovePageStep, CopyStep, NextPageStep
<1>11. CASE UNCHANGED vars BY <1>11, SameData
<1> QED BY <1>0, <1>1, <1>2, <1>3, <1>4, <1>5, <1>6, <1>7, <1>8, <1>9, <1>10, <1>11, NoHardware DEF Next

(* Without colors only the boot of a core changes the page table, and no   *)
(* page changes its place.                                                 *)
LEMMA PlainPages ==
    ASSUME PageTypes, PlainInv, ~Coloring, Next
    PROVE  /\ variant' = variant
           /\ UNCHANGED pageVars \/ InitPrimary \/ \E c \in Core : InitSecondary(c)
<1> DEFINE G == /\ variant' = variant
                /\ UNCHANGED pageVars \/ InitPrimary \/ \E c \in Core : InitSecondary(c)
<1>0. \A c \in Core : moving[c] = Nil BY DEF PlainInv
<1>1. CASE InitPrimary BY <1>1 DEF InitPrimary, wayVars
<1>2. CASE PreloadCriticalData \/ StartSecondaries
  BY <1>2 DEF PreloadCriticalData, StartSecondaries, wayVars
<1>3. ASSUME NEW c \in Core, InitSecondary(c) PROVE G BY <1>3 DEF InitSecondary, wayVars
<1>4. ASSUME NEW c \in Core, NEW t \in Tasks, NextTask(c, t) PROVE G BY <1>4 DEF NextTask, wayVars
<1>5. ASSUME NEW c \in Core, PreloadSingleOSC(c) PROVE G
  BY <1>5 DEF PreloadSingleOSC, wayVars, pageVars
<1>6. ASSUME NEW c \in Core, Abort(c) \/ LoadPart(c) PROVE G BY <1>6 DEF Abort, LoadPart, wayVars
<1>7. ASSUME NEW c \in Core, NEW w \in Way, GetLRUWay(c, w) PROVE G
  BY <1>7 DEF GetLRUWay, Found, FreeWay, Victim
<1>8. ASSUME NEW c \in Core, LabelData(c) \/ LabelOwner(c) PROVE G BY <1>8 DEF LabelData, LabelOwner
<1>9. ASSUME NEW c \in Core, NEW v \in Page, Run(c, v) PROVE FALSE BY <1>9 DEF Run
<1>10. ASSUME NEW c \in Core, FinishTask(c) \/ LookupOSC(c) \/ FreeWays(c) PROVE G
  BY <1>10 DEF FinishTask, LookupOSC, FreeWays, wayVars
<1>11. ASSUME NEW c \in Core, EndJob(c) PROVE G BY <1>11 DEF EndJob
<1>12. ASSUME NEW c \in Core, MovePage(c) \/ Copy(c) \/ NextPage(c) PROVE FALSE
  BY <1>0, <1>12 DEF MovePage, Copy, NextPage, CopyPage, EndMove
<1>13. ASSUME NEW c \in Core, OpenWay(c) \/ CloseWay(c) \/ CleanAndInvalidateWay(c) PROVE G
  BY <1>13 DEF OpenWay, CloseWay, CleanAndInvalidateWay, wayVars
<1>14. ASSUME NEW c \in Core, EnableWayExclusive(c) \/ DisableAllWays(c) \/ FillWay(c) PROVE G
  BY <1>14 DEF EnableWayExclusive, DisableAllWays, FillWay, wayVars
<1>15. ASSUME NEW c \in Core, NEW p \in Page, Miss(c, p) PROVE G BY <1>15 DEF Miss, wayVars
<1> HIDE DEF G
<1>16. G
  BY <1>1, <1>2, <1>3, <1>4, <1>5, <1>6, <1>7, <1>8, <1>9, <1>10, <1>11, <1>12, <1>13, <1>14, <1>15
     DEF Next, G
<1> QED BY <1>16 DEF G

LEMMA PlainStep ==
    ASSUME DataInv, ~Coloring, Next
    PROVE  DataInv'
<1>1. PageTypes /\ PlainInv BY DEF DataInv
<1>2. /\ variant' = variant
      /\ UNCHANGED pageVars \/ InitPrimary \/ \E c \in Core : InitSecondary(c)
  BY <1>1, PlainPages
<1>3. ~Coloring' BY <1>2 DEF Coloring, Backend
<1>4. CASE UNCHANGED pageVars
  <2>1. UNCHANGED <<directory, pte, tlb, memory, moving>> BY <1>4 DEF pageVars
  <2>2. PageTypes' /\ PlainInv' BY <1>1, <2>1 DEF PageTypes, Linked, PlainInv
  <2> QED BY <1>3, <2>2 DEF DataInv
<1>5. ASSUME UNCHANGED <<directory, memory, moving>>,
             pte' \in [Page -> [base : Page, cacheable : BOOLEAN]],
             \A v \in Page : pte'[v].base = pte[v].base,
             tlb' \in [Core -> [Page -> Page \cup {Nil}]],
             \A d \in Core : \A v \in Page : tlb'[d][v] \in {Nil, tlb[d][v]}
      PROVE  DataInv'
  <2>1. Linked' BY <1>1, <1>5 DEF PageTypes, Linked
  <2>2. PageTypes' BY <1>1, <1>5, <2>1 DEF PageTypes, Move
  <2>3. PlainInv' BY <1>1, <1>5 DEF PlainInv
  <2> QED BY <1>3, <2>2, <2>3 DEF DataInv
<1>6. CASE InitPrimary
  <2>1. UNCHANGED <<directory, memory, moving>> BY <1>6 DEF InitPrimary
  <2> QED BY <1>1, <1>5, <1>6, <2>1, InitPrimaryPages
<1>7. ASSUME NEW c \in Core, InitSecondary(c) PROVE DataInv'
  <2>1. UNCHANGED <<directory, pte, memory, moving>> /\ FlushTLB(c) BY <1>7 DEF InitSecondary
  <2>2. /\ pte \in [Page -> [base : Page, cacheable : BOOLEAN]]
        /\ tlb \in [Core -> [Page -> Page \cup {Nil}]]
    BY <1>1 DEF PageTypes
  <2>3. /\ tlb' \in [Core -> [Page -> Page \cup {Nil}]]
        /\ \A d \in Core : \A v \in Page : tlb'[d][v] \in {Nil, tlb[d][v]}
    BY <2>1, <2>2 DEF FlushTLB
  <2> QED BY <1>5, <2>1, <2>2, <2>3
<1> QED BY <1>2, <1>4, <1>6, <1>7

LEMMA StepKeepsData == IInv /\ DataInv /\ [Next]_vars => DataInv'
<1>1. CASE Coloring BY <1>1, ColoredStep
<1>2. CASE ~Coloring BY <1>2, PlainStep, SameData
<1> QED BY <1>1, <1>2

LEMMA InitIsData == Init => DataInv
<1> SUFFICES ASSUME Init PROVE DataInv
  OBVIOUS
<1>1. IInv BY InitIsInv
<1>2. /\ Linear /\ tlb = [c \in Core |-> [v \in Page |-> Nil]] /\ memory = [p \in Page |-> p]
      /\ moving = [c \in Core |-> Nil]
      /\ mCacheWays = [w \in Way |-> [permanentLocked |-> FALSE, dataStart |-> 0,
                         dataEnd |-> 0, osc |-> Nil, lruCount |-> 0, inUse |-> FALSE]]
      /\ pc = [c \in Core |-> IF c = 0 THEN "boot" ELSE "off"]
      /\ step = [c \in Core |-> Nil] /\ page = [c \in Core |-> 0] /\ way = [c \in Core |-> 0]
  BY DEF Init, PageInit
<1>3. PageTypes
  <2>1. Linked /\ pte = [p \in Page |-> [base |-> p, cacheable |-> FALSE]] BY <1>2 DEF Linear, Linked
  <2> QED BY <1>2, <2>1 DEF PageTypes
<1>4. \A v \in Page : pte[v].base = v /\ memory[v] = v /\ \A c \in Core : tlb[c][v] = Nil
  BY <1>2 DEF Linear
<1>5. PlainInv BY <1>2, <1>4 DEF PlainInv
<1>6. EndsInv
  <2>1. \A w \in Way : mCacheWays[w].dataStart = 0 BY <1>2
  <2>2. \A o \in Component : 0 \notin Parts(o) BY PartsFacts
  <2> QED BY <2>1, <2>2 DEF EndsInv
<1>7. ColoredInv
  <2>1. \A o \in Component : \A p \in Parts(o) : \A u \in PagesOf(o, p) : u \in Page
    BY PartPages
  <2>2. HomeInv /\ MemInv /\ TlbInv BY <1>4, <2>1 DEF HomeInv, MemInv, TlbInv
  <2>3. ColorInv BY <1>4 DEF ColorInv
  <2>4. 0 \in Core BY CoresArePages
  <2>5. CritInv BY <1>2, <2>4 DEF CritInv, JobIs
  <2>6. ASSUME NEW c \in Core PROVE JobInv(c) /\ MoveInv(c) /\ EvictInv(c)
    <3>1. pc[c] \in {"boot", "off"} /\ moving[c] = Nil BY <1>2
    <3> QED BY <3>1 DEF JobInv, MoveInv, EvictInv, TaskJob, JobIs, Evicting
  <2>7. page \in [Core -> Nat] /\ \A c \in Core : step[c] = Nil BY <1>2
  <2> QED BY <2>2, <2>3, <2>5, <2>6, <2>7 DEF ColoredInv
<1> QED BY <1>3, <1>5, <1>6, <1>7 DEF DataInv

LEMMA DataInvariance == Spec => [](IInv /\ DataInv)
<1>1. Init => IInv /\ DataInv BY InitIsInv, InitIsData
<1>2. (IInv /\ DataInv) /\ [Next]_vars => (IInv /\ DataInv)'
  BY StepPreservesInv, StepKeepsData
<1> QED BY <1>1, <1>2, PTL DEF Spec

LEMMA PreservedByInv == IInv /\ DataInv => DataPreserved
<1> SUFFICES ASSUME IInv, DataInv, NEW c \in Core, pc[c] = "run",
                    NEW o \in ToSet(active[c]), NEW v \in Owned(o)
             PROVE  memory[Translate(c, v)] = v
  BY DEF DataPreserved
<1>1. o \in Component /\ v \in Page
  <2>1. active[c] \in Seq(Component) BY TaskFacts DEF IInv
  <2>2. o \in Component BY <2>1 DEF ToSet
  <2> QED BY <2>2, CacheAssumption
<1>2. PageTypes BY DEF DataInv
<1>3. PhysicalAddress(v) = pte[v].base BY <1>1, <1>2, EntryIs DEF PhysicalAddress, PageTypes
<1>4. CASE Coloring
  <2>1. PICK p \in Parts(o) : v \in PagesOf(o, p) BY <1>1, PartOfPage
  <2>2. ColoredInv BY <1>4 DEF DataInv
  <2>3. memory[pte[v].base] = v BY <1>1, <2>1, <2>2 DEF ColoredInv, MemInv
  <2>4. tlb[c][v] # Nil => tlb[c][v] = pte[v].base
    BY <1>1, <2>1, <2>2 DEF ColoredInv, TlbInv
  <2> QED BY <1>3, <2>3, <2>4 DEF Translate
<1>5. CASE ~Coloring BY <1>1, <1>3, <1>5 DEF DataInv, PlainInv, Translate
<1> QED BY <1>4, <1>5

(* Whichever cores move which pages, and however their moves interleave, a *)
(* trigger that runs finds the latest content of each page of its          *)
(* components (preloadComponent, evictComponent and                        *)
(* moveVirtualPageToPhysicalAddress).                                      *)
THEOREM PagesKeepTheirContent == Spec => []DataPreserved
<1>1. IInv /\ DataInv => DataPreserved BY PreservedByInv
<1> QED BY <1>1, DataInvariance, PTL

----------------------------------------------------------------------------
(* Where the hardware allocates                                            *)
LockTypes ==
    /\ step = [c \in Core |-> step[c]] /\ regVal = [c \in Core |-> regVal[c]]
    /\ mask = [c \in Core |-> mask[c]] /\ variant \in Variants

(* The lock is held from the opening of a way until it is closed, and what *)
(* the core has read of the lockdown register is still in it.              *)
LockInv(c) ==
    /\ step[c] # Nil => hwLock = c /\ pc[c] = "job" /\ ~Coloring
    /\ Backend = "lockdown" =>
          /\ step[c] \in {"open", "shut"} => regVal[c] = lockdown
          /\ step[c] = "fill" => way[c] \notin lockdown
    /\ Backend = "cat" =>
          /\ step[c] = "fill" => mask[c] = WayMask(way[c])
          /\ step[c] = Nil /\ pc[c] \notin {"off", "boot", "start"} => mask[c] = StandbyMask(c)

(* After the boot no way is open but that of the core that has the lock.   *)
ClosedInv == Backend = "lockdown" /\ pc[0] # "boot" => \A w \in Way : w \in lockdown \/ Opened(w)

LocksInv == LockTypes /\ (\A c \in Core : LockInv(c)) /\ ClosedInv

LEMMA OpenAllocates ==
    ASSUME LocksInv, NEW c \in Core, step[c] = "fill", ~Coloring
    PROVE  Allocates(c, way[c])
<1>1. Backend \in {"lockdown", "cat"} BY CacheAssumption DEF LocksInv, LockTypes, Coloring, Backend
<1>2. LockInv(c) BY DEF LocksInv
<1>3. CASE Backend = "lockdown" BY <1>2, <1>3 DEF LockInv, Allocates
<1>4. CASE Backend = "cat"
  <2>1. mask[c] = WayMask(way[c]) BY <1>2, <1>4 DEF LockInv
  <2> QED BY <1>4, <2>1 DEF Allocates
<1> QED BY <1>1, <1>3, <1>4

(* The ways of the masks are not the bits on which the cores stand by.     *)
LEMMA MasksApart ==
    ASSUME NEW c \in Core, NEW w \in Way
    PROVE  ~(WayMask(w) \subseteq StandbyMask(c))
<1>1. c + 1 \in 1 .. Cores + CacheWayCount /\ Cores + w + 1 \in 1 .. Cores + CacheWayCount
      /\ c + 1 # Cores + w + 1
  BY PageTableAssumption, CacheAssumption DEF Core, Way
<1>2. ExclusiveBits[c + 1] # ExclusiveBits[Cores + w + 1] BY <1>1, BitsAssumption
<1> QED BY <1>2 DEF WayMask, StandbyMask

(* A core that is not at a job allocates nowhere but where a way is open.  *)
LEMMA NoStrayWay ==
    ASSUME IInv, LocksInv, NEW c \in Core, ~Coloring, NEW w \in Way, Allocates(c, w),
           pc[c] \notin {"off", "boot", "critical", "start", "job", "hung"}
    PROVE  Opened(w)
<1>1. Backend \in {"lockdown", "cat"} BY CacheAssumption DEF LocksInv, LockTypes, Coloring, Backend
<1>2. CASE Backend = "lockdown"
  <2>1. w \notin lockdown BY <1>2 DEF Allocates
  <2>2. 0 \in Core BY CoresArePages
  <2>3. pc[0] # "boot" BY <2>2 DEF IInv, StatesInv, Booting
  <2> QED BY <1>2, <2>1, <2>3 DEF LocksInv, ClosedInv
<1>3. CASE Backend = "cat"
  <2>1. LockInv(c) /\ step[c] = Nil BY DEF LocksInv, LockInv
  <2>2. mask[c] = StandbyMask(c) BY <1>3, <2>1 DEF LockInv
  <2>3. WayMask(w) \subseteq mask[c] BY <1>3 DEF Allocates
  <2> QED BY <2>2, <2>3, MasksApart
<1> QED BY <1>1, <1>2, <1>3

(* Steps that leave the hardware as it is.                                 *)
LEMMA LocksFrame ==
    ASSUME LocksInv, variant' = variant, UNCHANGED <<hwLock, lockdown, regVal, mask, step>>,
           \A d \in Core : step[d] # Nil => pc'[d] = pc[d] /\ way'[d] = way[d],
           \A d \in Core : pc'[d] \notin {"off", "boot", "start"} => pc[d] \notin {"off", "boot", "start"},
           pc'[0] # "boot" => pc[0] # "boot"
    PROVE  LocksInv'
<1>1. Backend' = Backend /\ Coloring' = Coloring BY DEF Coloring, Backend
<1>2. LockTypes' BY DEF LocksInv, LockTypes
<1>3. ASSUME NEW c \in Core PROVE LockInv(c)'
  <2>1. LockInv(c) BY DEF LocksInv
  <2>2. step[c] = "fill" => step[c] # Nil BY StepAssumption
  <2>3. StandbyMask(c)' = StandbyMask(c) BY DEF StandbyMask
  <2>4. step[c] = "fill" => WayMask(way[c])' = WayMask(way[c]) BY <2>2 DEF WayMask
  <2> QED BY <1>1, <2>1, <2>2, <2>3, <2>4 DEF LockInv
<1>4. ClosedInv'
  <2>1. ASSUME NEW w \in Way, Opened(w) PROVE Opened(w)'
    <3>1. PICK d \in Core : way[d] = w /\ step[d] \in {"fill", "close", "shut"} BY <2>1 DEF Opened
    <3>2. way'[d] = w BY <3>1, StepAssumption
    <3> QED BY <3>1, <3>2 DEF Opened
  <2>2. ClosedInv BY DEF LocksInv
  <2> QED BY <1>1, <2>1, <2>2 DEF ClosedInv
<1> QED BY <1>2, <1>3, <1>4 DEF LocksInv

LEMMA LocksOwn ==
    ASSUME LocksInv, NEW c \in Core, Others(c), variant' = variant,
           UNCHANGED <<hwLock, lockdown, regVal, mask, step>>,
           pc[c] \notin {"off", "boot", "start"}, step[c] = Nil \/ pc[c] # "job"
    PROVE  LocksInv'
<1>1. step[c] = Nil BY DEF LocksInv, LockInv
<1>2. 0 \in Core BY CoresArePages
<1>3. \A d \in Core : d # c => pc'[d] = pc[d] /\ way'[d] = way[d] BY DEF Others
<1>4. \A d \in Core : step[d] # Nil => pc'[d] = pc[d] /\ way'[d] = way[d] BY <1>1, <1>3
<1>5. \A d \in Core : pc'[d] \notin {"off", "boot", "start"} => pc[d] \notin {"off", "boot", "start"}
  BY <1>3
<1>6. pc'[0] # "boot" => pc[0] # "boot" BY <1>2, <1>3
<1> QED BY <1>4, <1>5, <1>6, LocksFrame

LEMMA LocksBoot ==
    ASSUME IInv, LocksInv,
           InitPrimary \/ PreloadCriticalData \/ StartSecondaries \/ \E c \in Core : EndJob(c) /\ Booting(c)
    PROVE  LocksInv'
<1>1. WayTypes /\ LockTypes /\ 0 \in Core BY CoresArePages DEF IInv, LocksInv
<1>2. /\ \A d \in Core : d # 0 => pc[d] = "off"
      /\ \/ InitPrimary \/ PreloadCriticalData \/ StartSecondaries \/ (EndJob(0) /\ job[0] = "critical")
  BY <1>1 DEF IInv, StatesInv, InitPrimary, PreloadCriticalData, StartSecondaries, EndJob, Booting, JobIs
<1>3. \A d \in Core : step[d] = Nil
  <2>1. step[0] = Nil \/ pc[0] # "job"
    BY <1>2 DEF InitPrimary, PreloadCriticalData, StartSecondaries, EndJob
  <2>2. \A d \in Core : step[d] = Nil \/ pc[d] # "job" BY <1>2, <2>1
  <2> QED BY <2>2 DEF LocksInv, LockInv
<1>4. CASE InitPrimary
  <2>1. /\ variant' = variant /\ lockdown' = IF Backend = "lockdown" THEN Way ELSE {}
        /\ mask' = [mask EXCEPT ![0] = StandbyMask(0)] /\ UNCHANGED <<hwLock, regVal, step>>
        /\ pc' = [pc EXCEPT ![0] = "critical"]
    BY <1>4 DEF InitPrimary, wayVars, Goto, enableProcessorCAT, disableAllWays, setMask
  <2>2. Backend' = Backend /\ Coloring' = Coloring BY <2>1 DEF Coloring, Backend
  <2>3. LockTypes' BY <1>1, <2>1 DEF LockTypes
  <2>4. ASSUME NEW d \in Core PROVE LockInv(d)'
    <3>1. step'[d] = Nil BY <1>3, <2>1
    <3>2. CASE d = 0
      <4>1. mask'[d] = StandbyMask(d) /\ StandbyMask(d)' = StandbyMask(d)
        BY <1>1, <2>1, <3>2 DEF LockTypes, StandbyMask
      <4> QED BY <3>1, <4>1, StepAssumption DEF LockInv
    <3>3. CASE d # 0
      <4>1. pc'[d] = "off" BY <1>1, <1>2, <2>1, <3>3 DEF WayTypes
      <4> QED BY <3>1, <4>1, StepAssumption DEF LockInv
    <3> QED BY <3>2, <3>3
  <2>5. ClosedInv' BY <2>1, <2>2 DEF ClosedInv
  <2> QED BY <2>3, <2>4, <2>5 DEF LocksInv
<1>5. CASE ~InitPrimary
  <2>1. variant' = variant /\ UNCHANGED <<hwLock, lockdown, regVal, mask, step>>
    BY <1>2, <1>5 DEF PreloadCriticalData, StartSecondaries, EndJob, wayVars, hwVars
  <2>2. pc[0] \in {"critical", "job"} BY <1>2, <1>5 DEF PreloadCriticalData, StartSecondaries, EndJob
  <2>3. \A d \in Core : d # 0 => pc'[d] \in {"off", "start"}
    BY <1>1, <1>2, <1>5, Ends DEF PreloadCriticalData, StartSecondaries, StartJob, Goto, WayTypes
  <2> QED BY <1>3, <2>1, <2>2, <2>3, LocksFrame
<1> QED BY <1>4, <1>5

LEMMA LocksSecondary ==
    ASSUME IInv, LocksInv, NEW c \in Core, InitSecondary(c)
    PROVE  LocksInv'
<1>1. WayTypes /\ LockTypes /\ 0 \in Core BY CoresArePages DEF IInv, LocksInv
<1>2. /\ variant' = variant /\ UNCHANGED <<hwLock, lockdown, regVal, step, way>> /\ pc[c] = "start"
      /\ mask' = [mask EXCEPT ![c] = StandbyMask(c)] /\ pc' = [pc EXCEPT ![c] = "idle"]
  BY DEF InitSecondary, wayVars, Goto, enableProcessorCAT, disableAllWays, setMask
<1>3. Backend' = Backend /\ Coloring' = Coloring BY <1>2 DEF Coloring, Backend
<1>4. LockTypes' BY <1>1, <1>2 DEF LockTypes
<1>5. ASSUME NEW d \in Core PROVE LockInv(d)'
  <2>1. LockInv(d) BY DEF LocksInv
  <2>2. StandbyMask(d)' = StandbyMask(d) /\ WayMask(way[d])' = WayMask(way[d])
    BY <1>2 DEF StandbyMask, WayMask
  <2>3. CASE d = c
    <3>1. step'[d] = Nil BY <1>2, <2>1, <2>3 DEF LockInv
    <3>2. mask'[d] = StandbyMask(d) BY <1>1, <1>2, <2>3 DEF LockTypes
    <3> QED BY <2>2, <3>1, <3>2, StepAssumption DEF LockInv
  <2>4. CASE d # c
    <3>1. pc'[d] = pc[d] /\ mask'[d] = mask[d] BY <1>1, <1>2, <2>4 DEF WayTypes, LockTypes
    <3> QED BY <1>2, <1>3, <2>1, <2>2, <3>1 DEF LockInv
  <2> QED BY <2>3, <2>4
<1>6. ClosedInv'
  <2>1. pc'[0] # "boot" => pc[0] # "boot" BY <1>1, <1>2 DEF WayTypes
  <2>2. \A w \in Way : Opened(w)' = Opened(w) BY <1>2 DEF Opened
  <2> QED BY <1>2, <1>3, <2>1, <2>2 DEF LocksInv, ClosedInv
<1> QED BY <1>4, <1>5, <1>6 DEF LocksInv

(* The steps under the lock.                                               *)
LEMMA OneOpens ==
    ASSUME LocksInv, NEW c \in Core, hwLock \in {Nil, c}
    PROVE  \A d \in Core : d # c => step[d] = Nil
<1> SUFFICES ASSUME NEW d \in Core, d # c, step[d] # Nil PROVE FALSE
  OBVIOUS
<1>1. hwLock = d BY DEF LocksInv, LockInv
<1> QED BY <1>1, CoresArePages

LEMMA LockdownSteps ==
    ASSUME IInv, LocksInv, NEW c \in Core, OpenWay(c) \/ CloseWay(c)
    PROVE  LocksInv'
<1>1. LockTypes /\ LockInv(c) /\ ClosedInv BY DEF LocksInv
<1>2. /\ UNCHANGED <<variant, pc, way, mask>> /\ Backend = "lockdown" /\ ~Coloring
  BY DEF OpenWay, CloseWay, wayVars, Coloring
<1>3. Backend' = Backend /\ Coloring' = Coloring BY <1>2 DEF Coloring, Backend
<1>4. \/ /\ pc[c] = "job" /\ step[c] = Nil /\ hwLock = Nil /\ hwLock' = c /\ lockdown' = lockdown
         /\ regVal' = [regVal EXCEPT ![c] = lockdown] /\ step' = [step EXCEPT ![c] = "open"]
      \/ /\ step[c] = "open" /\ lockdown' = regVal[c] \ {way[c]} /\ UNCHANGED <<hwLock, regVal>>
         /\ step' = [step EXCEPT ![c] = "fill"]
      \/ /\ step[c] = "close" /\ UNCHANGED <<hwLock, lockdown>>
         /\ regVal' = [regVal EXCEPT ![c] = lockdown] /\ step' = [step EXCEPT ![c] = "shut"]
      \/ /\ step[c] = "shut" /\ lockdown' = regVal[c] \cup {way[c]} /\ hwLock' = Nil
         /\ regVal' = [regVal EXCEPT ![c] = {}] /\ step' = [step EXCEPT ![c] = Nil]
  BY DEF OpenWay, CloseWay, Working, HwFree, Step
<1>5. LockTypes' BY <1>1, <1>2, <1>4 DEF LockTypes
<1>6. step[c] # Nil => hwLock = c /\ pc[c] = "job" BY <1>1 DEF LockInv
<1>7. \A d \in Core : d # c => step[d] = Nil /\ step'[d] = Nil
  <2>1. hwLock \in {Nil, c} BY <1>4, <1>6, StepAssumption
  <2> QED BY <1>1, <1>4, <2>1, OneOpens DEF LockTypes
<1>8. ASSUME NEW d \in Core PROVE LockInv(d)'
  <2>1. CASE d # c BY <1>2, <1>3, <1>7, <2>1, StepAssumption DEF LockInv
  <2>2. CASE d = c
    <3>1. pc[c] = "job" BY <1>4, <1>6, StepAssumption
    <3>2. /\ step'[c] # Nil => hwLock' = c
          /\ step'[c] \in {"open", "shut"} => regVal'[c] = lockdown'
          /\ step'[c] = "fill" => way[c] \notin lockdown'
      BY <1>1, <1>4, <1>6, StepAssumption DEF LockTypes
    <3> QED BY <1>2, <1>3, <2>2, <3>1, <3>2 DEF LockInv
  <2> QED BY <2>1, <2>2
<1>9. ClosedInv'
  <2> SUFFICES ASSUME pc[0] # "boot", NEW w \in Way, w \notin lockdown' PROVE Opened(w)'
    BY <1>2, <1>3 DEF ClosedInv
  <2>1. w \in lockdown \/ (way[c] = w /\ step[c] \in {"fill", "close", "shut"})
    BY <1>1, <1>2, <1>7, StepAssumption DEF ClosedInv, Opened
  <2>2. way[c] = w /\ step'[c] \in {"fill", "shut"}
    BY <1>1, <1>2, <1>4, <2>1, StepAssumption DEF LockTypes, LockInv
  <2> QED BY <1>2, <2>2 DEF Opened
<1> QED BY <1>5, <1>8, <1>9 DEF LocksInv

LEMMA MaskSteps ==
    ASSUME IInv, LocksInv, NEW c \in Core, EnableWayExclusive(c) \/ DisableAllWays(c)
    PROVE  LocksInv'
<1>1. LockTypes /\ LockInv(c) BY DEF LocksInv
<1>2. UNCHANGED <<variant, pc, way, regVal, lockdown>> /\ Backend = "cat" /\ ~Coloring
  BY DEF EnableWayExclusive, DisableAllWays, wayVars, Coloring
<1>3. Backend' = Backend /\ Coloring' = Coloring BY <1>2 DEF Coloring, Backend
<1>4. \/ /\ pc[c] = "job" /\ hwLock = Nil /\ hwLock' = c
         /\ mask' = [mask EXCEPT ![c] = WayMask(way[c])] /\ step' = [step EXCEPT ![c] = "fill"]
      \/ /\ step[c] = "close" /\ hwLock' = Nil
         /\ mask' = [mask EXCEPT ![c] = StandbyMask(c)] /\ step' = [step EXCEPT ![c] = Nil]
  BY DEF EnableWayExclusive, DisableAllWays, Working, HwFree, Step, enableWayExclusive, disableAllWays,
         setMask
<1>5. LockTypes' BY <1>1, <1>2, <1>4 DEF LockTypes
<1>6. step[c] # Nil => hwLock = c /\ pc[c] = "job" BY <1>1 DEF LockInv
<1>7. \A d \in Core : d # c => step[d] = Nil /\ step'[d] = Nil /\ mask'[d] = mask[d]
  <2>1. hwLock \in {Nil, c} BY <1>4, <1>6, StepAssumption
  <2> QED BY <1>1, <1>4, <2>1, OneOpens DEF LockTypes
<1>8. ASSUME NEW d \in Core PROVE LockInv(d)'
  <2>1. StandbyMask(d)' = StandbyMask(d) /\ WayMask(way[d])' = WayMask(way[d])
    BY <1>2 DEF StandbyMask, WayMask
  <2>2. CASE d # c
    <3>1. LockInv(d) BY DEF LocksInv
    <3> QED BY <1>2, <1>3, <1>7, <2>1, <2>2, <3>1, StepAssumption DEF LockInv
  <2>3. CASE d = c
    <3>1. pc[c] = "job" BY <1>4, <1>6, StepAssumption
    <3>2. /\ step'[c] # Nil => hwLock' = c
          /\ step'[c] = "fill" => mask'[c] = WayMask(way[c])
          /\ step'[c] = Nil => mask'[c] = StandbyMask(c)
      BY <1>1, <1>4, StepAssumption DEF LockTypes
    <3> QED BY <1>2, <1>3, <2>1, <2>3, <3>1, <3>2 DEF LockInv
  <2> QED BY <2>2, <2>3
<1>9. ClosedInv' BY <1>2, <1>3 DEF ClosedInv
<1> QED BY <1>5, <1>8, <1>9 DEF LocksInv

LEMMA FillSteps ==
    ASSUME IInv, LocksInv, NEW c \in Core, FillWay(c)
    PROVE  LocksInv'
<1>1. LockTypes /\ LockInv(c) /\ ClosedInv BY DEF LocksInv
<1>2. /\ UNCHANGED <<variant, pc, way, hwLock, lockdown, regVal, mask>>
      /\ step[c] = "fill" /\ step' = [step EXCEPT ![c] = "close"]
  BY DEF FillWay, wayVars, Step
<1>3. Backend' = Backend /\ Coloring' = Coloring BY <1>2 DEF Coloring, Backend
<1>4. LockTypes' BY <1>1, <1>2 DEF LockTypes
<1>5. step'[c] = "close" /\ \A d \in Core : d # c => step'[d] = step[d] BY <1>1, <1>2 DEF LockTypes
<1>6. ASSUME NEW d \in Core PROVE LockInv(d)'
  <2>1. LockInv(d) BY DEF LocksInv
  <2>2. StandbyMask(d)' = StandbyMask(d) /\ WayMask(way[d])' = WayMask(way[d])
    BY <1>2 DEF StandbyMask, WayMask
  <2>3. CASE d # c BY <1>2, <1>3, <1>5, <2>1, <2>2, <2>3 DEF LockInv
  <2>4. CASE d = c BY <1>2, <1>3, <1>5, <2>1, <2>4, StepAssumption DEF LockInv
  <2> QED BY <2>3, <2>4
<1>7. ClosedInv'
  <2>1. ASSUME NEW w \in Way, Opened(w) PROVE Opened(w)'
    <3>1. PICK d \in Core : way[d] = w /\ step[d] \in {"fill", "close", "shut"} BY <2>1 DEF Opened
    <3>2. way'[d] = w /\ step'[d] \in {"fill", "close", "shut"} BY <1>2, <1>5, <3>1
    <3> QED BY <3>2 DEF Opened
  <2> QED BY <1>1, <1>2, <1>3, <2>1 DEF ClosedInv
<1> QED BY <1>4, <1>6, <1>7 DEF LocksInv

LEMMA StepKeepsLocks == IInv /\ LocksInv /\ [Next]_vars => LocksInv'
<1> SUFFICES ASSUME IInv, LocksInv, [Next]_vars PROVE LocksInv'
  OBVIOUS
<1>1. CASE InitPrimary \/ PreloadCriticalData \/ StartSecondaries BY <1>1, LocksBoot
<1>2. ASSUME NEW c \in Core, InitSecondary(c) PROVE LocksInv' BY <1>2, LocksSecondary
<1>3. ASSUME NEW c \in Core, EndJob(c) PROVE LocksInv'
  <2>1. pc[c] = "job" /\ step[c] = Nil /\ UNCHANGED <<variant, hwLock, lockdown, regVal, mask, step>>
    BY <1>3 DEF EndJob, hwVars
  <2>2. job[c] \in {"load", "victim", "evict"} \/ (job[c] = "critical" /\ Booting(c))
    BY <2>1, JobKinds DEF TaskJob, JobIs
  <2>3. CASE job[c] \in {"load", "victim", "evict"}
    <3>1. Others(c) BY <1>3, <2>3, EndLoadStep, EndVictimStep, EndEvictStep DEF OwnChanges
    <3> QED BY <2>1, <3>1, LocksOwn
  <2> QED BY <1>3, <2>2, <2>3, LocksBoot
<1>4. ASSUME NEW c \in Core,
             \/ \E t \in Tasks : NextTask(c, t)
             \/ PreloadSingleOSC(c) \/ Abort(c) \/ LoadPart(c)
             \/ \E w \in Way : GetLRUWay(c, w)
             \/ LabelData(c) \/ LabelOwner(c)
             \/ FinishTask(c) \/ LookupOSC(c) \/ FreeWays(c)
      PROVE  LocksInv'
  <2>1. Others(c)
    <3>1. CASE \E w \in Way : GetLRUWay(c, w)
      BY <3>1, FoundStep, FreeWayStep, VictimStep DEF GetLRUWay, OwnChanges
    <3>2. CASE ~\E w \in Way : GetLRUWay(c, w)
      BY <1>4, <3>2, NextTaskStep, PreloadSingleOSCStep, AbortStep, LoadPartStep, LabelDataStep,
         LabelOwnerStep, FinishTaskStep, LookupOSCStep, FreeWaysStep DEF OwnChanges
    <3> QED BY <3>1, <3>2
  <2>2. /\ pc[c] \notin {"off", "boot", "start", "job"}
        /\ UNCHANGED <<variant, hwLock, lockdown, regVal, mask, step>>
    BY <1>4 DEF NextTask, PreloadSingleOSC, Abort, LoadPart, GetLRUWay, Found, FreeWay, Victim, LabelData,
                LabelOwner, FinishTask, LookupOSC, FreeWays, wayVars, hwVars
  <2> QED BY <2>1, <2>2, LocksOwn
<1>5. ASSUME NEW c \in Core,
             \/ \E v \in Page : Run(c, v)
             \/ MovePage(c) \/ Copy(c) \/ NextPage(c) \/ CleanAndInvalidateWay(c)
             \/ \E p \in Page : Miss(c, p)
      PROVE  LocksInv'
  <2>1. UNCHANGED <<variant, pc, way, hwLock, lockdown, regVal, mask, step>>
    BY <1>5 DEF Run, MovePage, Copy, NextPage, CleanAndInvalidateWay, Miss, wayVars, hwVars
  <2> QED BY <2>1, LocksFrame
<1>6. ASSUME NEW c \in Core,
             \/ OpenWay(c) \/ CloseWay(c) \/ EnableWayExclusive(c) \/ DisableAllWays(c) \/ FillWay(c)
      PROVE  LocksInv'
  BY <1>6, LockdownSteps, MaskSteps, FillSteps
<1>7. CASE UNCHANGED vars
  <2>1. UNCHANGED <<variant, pc, way, hwLock, lockdown, regVal, mask, step>>
    BY <1>7 DEF vars, wayVars, hwVars
  <2> QED BY <2>1, LocksFrame
<1> QED BY <1>1, <1>2, <1>3, <1>4, <1>5, <1>6, <1>7 DEF Next

LEMMA InitIsLocks == Init => LocksInv
<1> SUFFICES ASSUME Init PROVE LocksInv
  OBVIOUS
<1>1. /\ variant \in Variants /\ pc = [c \in Core |-> IF c = 0 THEN "boot" ELSE "off"]
      /\ step = [c \in Core |-> Nil] /\ regVal = [c \in Core |-> {}]
      /\ mask = [c \in Core |-> 0 .. CATBits - 1]
  BY DEF Init
<1>2. LockTypes BY <1>1 DEF LockTypes
<1>3. ASSUME NEW c \in Core PROVE LockInv(c) BY <1>1, StepAssumption DEF LockInv
<1>4. ClosedInv BY <1>1, CoresArePages DEF ClosedInv
<1> QED BY <1>2, <1>3, <1>4 DEF LocksInv

----------------------------------------------------------------------------
(* What a way is loaded with                                               *)
(* What can still be said of a part that was loaded into a way.            *)
In(w, p) == content[w] = p \/ p \in stray \/ content[w] = Lost

(* The pages p to n - 1 of a part are in the way.                          *)
Loaded(w, p, n) ==
    IF Coloring THEN \A v \in p .. n - 1 : pte[v].cacheable /\ pte[v].base = ColorPage(w, v - p)
    ELSE n > p => In(w, p)

PartEndOf(c) == PartEnd(oscStart[c], End[Osc(c)])

FreshTypes ==
    /\ step = [c \in Core |-> step[c]] /\ page = [c \in Core |-> page[c]]
    /\ skipPreload = [c \in Core |-> skipPreload[c]] /\ content = [w \in Way |-> content[w]]

(* A way of the hardware is open only for a job, and filled from the first *)
(* page of the part.                                                       *)
HwInv(c) ==
    step[c] # Nil =>
        /\ pc[c] = "job" /\ ~Coloring
        /\ JobIs(c, "load") /\ step[c] \in {"open", "fill"} => page[c] = oscStart[c]

(* No way keeps its label, so that every part is loaded into an empty way. *)
EmptyInv(c) ==
    /\ ~JobIs(c, "victim")
    /\ Loading(c) => ~skipPreload[c]
    /\ pc[c] = "check" \/ JobIs(c, "load") => mCacheWays[way[c]].dataStart = 0

(* As much of the part as the core has moved is in its way, ...            *)
LoadInv(c) ==
    /\ JobIs(c, "load") =>
          /\ page[c] \in oscStart[c] .. PartEndOf(c) /\ Loaded(way[c], oscStart[c], page[c])
          /\ (~Coloring /\ page[c] < PartEndOf(c)) => page[c] = oscStart[c]
    /\ pc[c] \in {"label", "owner"} => Loaded(way[c], oscStart[c], PartEndOf(c))

(* ... and so is all of each part that it holds.                           *)
HeldLoaded(c) ==
    \A i \in 1 .. Len(active[c]) : \A p : Holds(c, i, p) /\ ~Evicting(c) =>
        \A w \in Way : mCacheWays[w].dataStart = p => Loaded(w, p, PartEnd(p, End[active[c][i]]))

Fresh(c) == HwInv(c) /\ EmptyInv(c) /\ LoadInv(c) /\ HeldLoaded(c)

UsedOnly == \A w \in Way : mCacheWays[w].dataStart # 0 => mCacheWays[w].inUse

FreshInv == /\ FreshTypes
            /\ variant.evictAfterUse => UsedOnly /\ \A c \in Core : Fresh(c)

LEMMA LoadedKept ==
    ASSUME variant' = variant, NEW w \in Way, NEW p, NEW n,
           Coloring => \A v \in p .. n - 1 : pte'[v] = pte[v],
           ~Coloring => (In(w, p) => In(w, p)'), Loaded(w, p, n)
    PROVE  Loaded(w, p, n)'
<1>1. Coloring' <=> Coloring BY DEF Coloring, Backend
<1>2. CASE Coloring
  <2>1. \A v \in p .. n - 1 : ColorPage(w, v - p)' = ColorPage(w, v - p)
    BY DEF ColorPage, ColorOffset
  <2> QED BY <1>1, <1>2, <2>1 DEF Loaded
<1>3. CASE ~Coloring BY <1>1, <1>3 DEF Loaded
<1> QED BY <1>2, <1>3

(* No core's step gives another way the label of a part that is held.      *)
LEMMA LabelKept ==
    ASSUME IInv, NEW c \in Core, OwnChanges(c), NEW d \in Core, NEW i \in 1 .. Len(active[d]), NEW p,
           Holds(d, i, p), NEW w \in Way, mCacheWays'[w].dataStart = p
    PROVE  mCacheWays[w].dataStart = p
<1>1. TasksInv BY DEF IInv
<1>2. active[d][i] \in Component /\ p \in Parts(active[d][i]) BY <1>1, TaskFacts DEF Holds
<1>3. p # 0 BY <1>2, PartsFacts
<1>4. ASSUME p = oscStart[c], Loading(c) PROVE FALSE
  <2>1. ~Idle(c) /\ oscStart[c] \in Parts(Osc(c)) /\ Osc(c) \in Component /\ oscStart[c] \in Nat
    BY <1>4, OwnTask DEF TaskOf
  <2>2. active[d][i] = Osc(c) BY <1>2, <1>4, <2>1, PartsFacts
  <2>3. d = c BY <1>1, <2>1, <2>2, TasksApart
  <2>4. i = at[c] /\ at[c] \in Nat BY <1>1, <2>1, <2>2, <2>3, TaskFacts DEF Osc
  <2>5. ~Evicting(c) /\ pc[c] \notin {"run", "preload"} BY <1>4 DEF Loading, Evicting, JobIs
  <2>6. ~(i < at[c]) /\ ~(p < oscStart[c]) BY <1>4, <2>1, <2>4
  <2> QED BY <2>3, <2>5, <2>6 DEF Holds
<1> QED BY <1>3, <1>4 DEF OwnChanges

LEMMA HeldKept ==
    ASSUME IInv, NEW c \in Core, OwnChanges(c), variant' = variant, NEW d \in Core, HeldLoaded(d),
           \A i, p : Holds(d, i, p)' /\ ~Evicting(d)' =>
               active'[d] = active[d] /\ Holds(d, i, p) /\ ~Evicting(d),
           \A i \in 1 .. Len(active[d]) : \A p : Holds(d, i, p) /\ ~Evicting(d) =>
               /\ Coloring => \A v \in PagesOf(active[d][i], p) : pte'[v] = pte[v]
               /\ ~Coloring => \A w \in Way : mCacheWays[w].dataStart = p => (In(w, p) => In(w, p)')
    PROVE  HeldLoaded(d)'
<1> SUFFICES ASSUME NEW i \in 1 .. Len(active'[d]), NEW p, Holds(d, i, p)', ~Evicting(d)',
                    NEW w \in Way, mCacheWays'[w].dataStart = p
             PROVE  Loaded(w, p, PartEnd(p, End[active[d][i]]))'
  BY DEF HeldLoaded
<1>1. active'[d] = active[d] /\ Holds(d, i, p) /\ ~Evicting(d) /\ i \in 1 .. Len(active[d])
  OBVIOUS
<1> PICK n : n = PartEnd(p, End[active[d][i]])
  OBVIOUS
<1>2. mCacheWays[w].dataStart = p BY <1>1, LabelKept
<1>3. Loaded(w, p, n) BY <1>1, <1>2 DEF HeldLoaded
<1>4. Coloring => \A v \in p .. n - 1 : pte'[v] = pte[v] BY <1>1 DEF PagesOf
<1>5. ~Coloring => (In(w, p) => In(w, p)') BY <1>1, <1>2
<1>6. PartEnd(p, End[active[d][i]])' = n BY <1>1 DEF PartEnd
<1>7. Loaded(w, p, n)' BY <1>3, <1>4, <1>5, LoadedKept
<1> QED BY <1>6, <1>7 DEF Loaded

----------------------------------------------------------------------------
(* A core changes the entries of its component, and fills its way.         *)
PtesKept(c) ==
    Coloring => \A o \in Component : \A p \in Parts(o) : \A v \in PagesOf(o, p) :
        pte'[v] = pte[v] \/ (~Idle(c) /\ o = Osc(c))

ContentKept(c) ==
    ~Coloring => \A w \in Way : \A p :
        \/ In(w, p) => In(w, p)'
        \/ w = way[c] /\ AtWork(c) /\ ~Idle(c) /\ mCacheWays[w].dataStart \in {0} \cup Owned(Osc(c))
        \/ ~Idle(c) /\ p \in Owned(Osc(c))

LEMMA FreshOthers ==
    ASSUME IInv, NEW c \in Core, OwnChanges(c), variant' = variant, NEW d \in Core, d # c, Fresh(d),
           step'[d] = step[d], page'[d] = page[d], skipPreload'[d] = skipPreload[d],
           Idle(d) \/ (PtesKept(c) /\ ContentKept(c))
    PROVE  Fresh(d)'
<1>0. Others(c) BY DEF OwnChanges
<1>1. /\ Loading(d)' = Loading(d) /\ Current(d)' = Current(d) /\ Evicting(d)' = Evicting(d)
      /\ Idle(d)' = Idle(d) /\ \A kind : JobIs(d, kind)' = JobIs(d, kind)
      /\ Osc(d)' = Osc(d) /\ \A i, p : Holds(d, i, p)' = Holds(d, i, p)
      /\ pc'[d] = pc[d] /\ job'[d] = job[d] /\ way'[d] = way[d] /\ active'[d] = active[d]
      /\ at'[d] = at[d] /\ oscStart'[d] = oscStart[d]
  BY <1>0, OthersSame DEF Others
<1>2. Coloring' = Coloring BY DEF Coloring, Backend
<1>3. HwInv(d)' BY <1>1, <1>2 DEF Fresh, HwInv
<1>4. CASE Idle(d)
  <2>1. /\ ~Loading(d)' /\ ~JobIs(d, "victim")' /\ ~JobIs(d, "load")' /\ pc'[d] \notin {"check", "label", "owner"}
        /\ \A i, p : ~Holds(d, i, p)'
    BY <1>1, <1>4, IdleHoldsNothing DEF Loading, Current
  <2> QED BY <1>3, <2>1 DEF Fresh, EmptyInv, LoadInv, HeldLoaded
<1>5. CASE ~Idle(d)
  <2>1. PtesKept(c) /\ ContentKept(c) BY <1>5
  <2>2. Osc(d) \in Component /\ TasksInv BY <1>5, OwnTask DEF IInv
  <2>3. ~Idle(c) => Osc(c) # Osc(d) /\ \A i \in 1 .. Len(active[d]) : active[d][i] # Osc(c)
    BY <1>5, <2>2, TasksApart
  <2>4. ASSUME Current(d)
        PROVE  /\ way[d] \in Way /\ oscStart[d] \in Parts(Osc(d))
               /\ (AtWork(c) => way[c] # way[d])
               /\ mCacheWays[way[d]].dataStart = 0 => mCacheWays'[way[d]].dataStart = 0
               /\ \A w \in Way : \A p : ~Coloring /\ w = way[d] /\ p = oscStart[d] => (In(w, p) => In(w, p)')
    <3>1. Loading(d) /\ AtWork(d) BY <2>4 DEF Current, Loading, AtWork, JobIs
    <3>2. way[d] \in Way /\ oscStart[d] \in Parts(Osc(d)) BY <2>4, <3>1, OwnTask DEF AtWay, TaskOf
    <3>3. AtWork(c) => way[c] # way[d] BY <3>1 DEF IInv, WaysNotShared, AtWork
    <3>4. Current(c) => AtWork(c) BY DEF Current, AtWork, JobIs
    <3>5. ~Idle(c) => oscStart[d] \notin Owned(Osc(c))
      <4>1. ~Idle(c) => Osc(c) \in Component BY OwnTask
      <4> QED BY <2>2, <2>3, <3>2, <4>1, PartsFacts
    <3> QED BY <2>1, <3>2, <3>3, <3>4, <3>5 DEF OwnChanges, ContentKept
  <2>5. pc[d] \in {"check", "label", "owner"} \/ JobIs(d, "load") => Current(d) BY DEF Current
  <2>6. EmptyInv(d)' BY <1>1, <2>4, <2>5 DEF Fresh, EmptyInv
  <2>7. ASSUME Current(d), NEW n, Coloring => n \in oscStart[d] .. PartEndOf(d), Loaded(way[d], oscStart[d], n)
        PROVE  Loaded(way[d], oscStart[d], n)'
    <3>1. ASSUME Coloring, NEW v \in oscStart[d] .. n - 1 PROVE pte'[v] = pte[v]
      <4>1. v \in PagesOf(Osc(d), oscStart[d])
        <5>1. oscStart[d] \in Nat /\ PartEndOf(d) \in Nat BY <2>2, <2>4, <2>7, PartPages DEF PartEndOf
        <5>2. n \in oscStart[d] .. PartEndOf(d) BY <2>7, <3>1
        <5>3. v \in oscStart[d] .. PartEndOf(d) - 1 BY <3>1, <5>1, <5>2
        <5> QED BY <5>3 DEF PagesOf, PartEndOf
      <4> QED BY <2>1, <2>2, <2>3, <2>4, <2>7, <3>1, <4>1 DEF PtesKept
    <3> PICK w, p : w = way[d] /\ p = oscStart[d]
      OBVIOUS
    <3>2. w \in Way /\ Loaded(w, p, n) BY <2>4, <2>7
    <3>3. Loaded(w, p, n)' BY <2>4, <2>7, <3>1, <3>2, LoadedKept
    <3>4. way'[d] = w /\ oscStart'[d] = p BY <1>1
    <3> QED BY <3>3, <3>4 DEF Loaded
  <2>8. PartEndOf(d)' = PartEndOf(d) BY <1>1 DEF PartEndOf, PartEnd
  <2>9. LoadInv(d)'
    <3>1. ASSUME JobIs(d, "load")
          PROVE  /\ page'[d] \in oscStart[d] .. PartEndOf(d)
                 /\ (~Coloring /\ page[d] < PartEndOf(d)) => page[d] = oscStart[d]
                 /\ Loaded(way[d], oscStart[d], page[d])'
      <4>1. /\ page[d] \in oscStart[d] .. PartEndOf(d) /\ Loaded(way[d], oscStart[d], page[d])
            /\ (~Coloring /\ page[d] < PartEndOf(d)) => page[d] = oscStart[d]
        BY <3>1 DEF Fresh, LoadInv
      <4> PICK n : n = page[d]
        OBVIOUS
      <4>2. Loaded(way[d], oscStart[d], n)' BY <2>5, <2>7, <3>1, <4>1
      <4>3. Loaded(way[d], oscStart[d], page[d])' BY <4>2 DEF Loaded
      <4> QED BY <4>1, <4>3
    <3>2. ASSUME pc[d] \in {"label", "owner"}
          PROVE  Loaded(way[d], oscStart[d], PartEndOf(d))'
      <4>1. Loaded(way[d], oscStart[d], PartEndOf(d)) BY <3>2 DEF Fresh, LoadInv
      <4>2. Current(d) /\ PartEndOf(d) \in oscStart[d] .. PartEndOf(d)
        <5>1. PartEndOf(d) \in Nat /\ oscStart[d] \in Nat /\ PartEndOf(d) > oscStart[d]
          BY <2>2, <2>4, <2>5, <3>2, PartPages DEF PartEndOf
        <5> QED BY <2>5, <3>2, <5>1
      <4> PICK n : n = PartEndOf(d)
        OBVIOUS
      <4>3. Loaded(way[d], oscStart[d], n)' BY <2>7, <4>1, <4>2
      <4>4. n = PartEndOf(d)' BY <2>8
      <4> QED BY <4>3, <4>4 DEF Loaded
    <3>3. JobIs(d, "load")' <=> JobIs(d, "load") BY <1>1
    <3> QED BY <1>1, <1>2, <2>8, <3>1, <3>2, <3>3 DEF LoadInv
  <2>10. HeldLoaded(d)'
    <3>1. ASSUME NEW i \in 1 .. Len(active[d]), NEW p, Holds(d, i, p)
          PROVE  /\ Coloring => \A v \in PagesOf(active[d][i], p) : pte'[v] = pte[v]
                 /\ ~Coloring => \A w \in Way : mCacheWays[w].dataStart = p => (In(w, p) => In(w, p)')
      <4>1. active[d][i] \in Component /\ p \in Parts(active[d][i]) BY <2>2, <3>1, TaskFacts DEF Holds
      <4>2. Coloring => \A v \in PagesOf(active[d][i], p) : pte'[v] = pte[v]
        BY <2>1, <2>3, <4>1 DEF PtesKept
      <4>3. ~Idle(c) => p \notin {0} \cup Owned(Osc(c))
        <5>1. ~Idle(c) => Osc(c) \in Component BY OwnTask
        <5> QED BY <2>3, <4>1, <5>1, PartsFacts
      <4> QED BY <2>1, <4>2, <4>3 DEF ContentKept
    <3>2. HeldLoaded(d) BY DEF Fresh
    <3> QED BY <1>1, <3>1, <3>2, HeldKept
  <2> QED BY <1>3, <2>6, <2>9, <2>10 DEF Fresh
<1> QED BY <1>4, <1>5

(* A label only comes with the use of the way.                             *)
LEMMA UsedOnlyStep ==
    ASSUME IInv, IInv', NEW c \in Core, OwnChanges(c), NoneLost(c), UsedOnly
    PROVE  UsedOnly'
<1> SUFFICES ASSUME NEW w \in Way, mCacheWays'[w].dataStart # 0 PROVE mCacheWays'[w].inUse
  BY DEF UsedOnly
<1>1. CASE mCacheWays'[w].dataStart = mCacheWays[w].dataStart BY <1>1 DEF UsedOnly, NoneLost
<1>2. CASE mCacheWays'[w].dataStart = oscStart[c] /\ Current(c) /\ way[c] = w
  <2>1. AtHand(c, w)' \/ mCacheWays'[w].inUse BY <1>2 DEF NoneLost, AtHand
  <2>2. AtHand(c, w)' => mCacheWays'[w].inUse
    <3>1. AtWay(c)' BY DEF IInv
    <3> QED BY <3>1 DEF AtWay, AtHand
  <2> QED BY <2>1, <2>2
<1> QED BY <1>1, <1>2 DEF OwnChanges

LEMMA FreshStep ==
    ASSUME IInv, IInv', FreshInv, variant.evictAfterUse, NEW c \in Core, OwnChanges(c),
           variant' = variant, FreshTypes', UsedOnly', Fresh(c)',
           \A d \in Core : d # c =>
              step'[d] = step[d] /\ page'[d] = page[d] /\ skipPreload'[d] = skipPreload[d],
           (\A d \in Core : Idle(d)) \/ (PtesKept(c) /\ ContentKept(c))
    PROVE  FreshInv'
<1>1. ASSUME NEW d \in Core PROVE Fresh(d)'
  <2>1. CASE d # c
    <3>1. Fresh(d) BY DEF FreshInv
    <3> QED BY <2>1, <3>1, FreshOthers
  <2> QED BY <2>1
<1> QED BY <1>1 DEF FreshInv

(* Steps that leave the pages and the hardware as they are.                *)
LEMMA SameFresh ==
    ASSUME IInv, IInv', FreshInv, variant.evictAfterUse, NEW c \in Core, OwnChanges(c), UsedOnly', Fresh(c)',
           UNCHANGED <<variant, pte, content, stray, step>>,
           page' = page \/ \E n : page' = [page EXCEPT ![c] = n],
           skipPreload' = skipPreload \/ \E b : skipPreload' = [skipPreload EXCEPT ![c] = b]
    PROVE  FreshInv'
<1>1. FreshTypes BY DEF FreshInv
<1>2. page' = [d \in Core |-> page'[d]] /\ \A d \in Core : d # c => page'[d] = page[d]
  BY <1>1 DEF FreshTypes
<1>3. skipPreload' = [d \in Core |-> skipPreload'[d]]
      /\ \A d \in Core : d # c => skipPreload'[d] = skipPreload[d]
  BY <1>1 DEF FreshTypes
<1>4. FreshTypes' BY <1>1, <1>2, <1>3 DEF FreshTypes
<1>5. PtesKept(c) /\ ContentKept(c) BY DEF PtesKept, ContentKept, In
<1> QED BY <1>2, <1>3, <1>4, <1>5, FreshStep

----------------------------------------------------------------------------
(* The steps that load a part, with CONFIG_CACHE_CONTROL_EVICT_AFTER_USE    *)
LEMMA FreshAtRest ==
    ASSUME NEW c \in Core, step'[c] = Nil, ~Loading(c)',
           Evicting(c)' \/ \A i \in 1 .. Len(active'[c]) : \A p : ~Holds(c, i, p)'
    PROVE  Fresh(c)'
<1>1. ~JobIs(c, "victim")' /\ ~JobIs(c, "load")' /\ pc'[c] \notin {"check", "label", "owner"}
  BY DEF Loading
<1>2. HwInv(c)' BY DEF HwInv
<1>3. EmptyInv(c)' /\ LoadInv(c)' BY <1>1 DEF EmptyInv, LoadInv
<1>4. HeldLoaded(c)' BY DEF HeldLoaded
<1> QED BY <1>2, <1>3, <1>4 DEF Fresh

LEMMA RestSteps ==
    ASSUME IInv, IInv', FreshInv, variant.evictAfterUse, NEW c \in Core,
           \/ InitSecondary(c) \/ (\E t \in Tasks : NextTask(c, t)) \/ FinishTask(c)
           \/ LookupOSC(c) \/ (EndJob(c) /\ job[c] = "evict")
    PROVE  FreshInv'
<1>1. OwnChanges(c) /\ NoneLost(c)
  BY InitSecondaryStep, NextTaskStep, FinishTaskStep, LookupOSCStep, EndEvictStep
<1>2. WayTypes /\ Fresh(c) /\ UsedOnly BY DEF IInv, FreshInv
<1>3. UNCHANGED <<variant, pte, content, stray, step, skipPreload>>
      /\ (page' = page \/ \E n : page' = [page EXCEPT ![c] = n])
  BY DEF InitSecondary, NextTask, FinishTask, LookupOSC, EndJob, StartJob, wayVars, hwVars, pageVars, taskVars
<1>4. step'[c] = Nil
  <2>1. pc[c] # "job" \/ step[c] = Nil BY DEF InitSecondary, NextTask, FinishTask, LookupOSC, EndJob
  <2> QED BY <1>2, <1>3, <2>1 DEF Fresh, HwInv
<1>5. ~Loading(c)' /\ (Evicting(c)' \/ \A i \in 1 .. Len(active'[c]) : \A p : ~Holds(c, i, p)')
  <2>1. CASE InitSecondary(c)
    <3>1. pc'[c] = "idle" BY <1>2, <2>1 DEF InitSecondary, Goto, WayTypes
    <3> QED BY <3>1 DEF Loading, Holds, Evicting, JobIs
  <2>2. ASSUME NEW t \in Tasks, NextTask(c, t)
        PROVE  ~Loading(c)' /\ \A i \in 1 .. Len(active'[c]) : \A p : ~Holds(c, i, p)'
    <3>1. pc'[c] = "preload" /\ at'[c] = 1 BY <1>2, <2>2 DEF NextTask, Goto, WayTypes
    <3> QED BY <3>1 DEF Loading, Holds, Evicting, JobIs
  <2>3. CASE FinishTask(c)
    <3>1. pc'[c] = "evict" BY <1>2, <2>3 DEF FinishTask, Goto, WayTypes
    <3> QED BY <3>1 DEF Loading, Evicting, JobIs
  <2>4. CASE LookupOSC(c)
    <3>1. pc'[c] = "free" \/ (pc'[c] = "job" /\ job'[c] = "evict")
      BY <1>2, <2>4 DEF LookupOSC, StartJob, Goto, WayTypes
    <3> QED BY <3>1 DEF Loading, Evicting, JobIs
  <2>5. CASE EndJob(c) /\ job[c] = "evict"
    <3>1. pc'[c] = "evict" BY <1>2, <2>5, Ends DEF WayTypes
    <3> QED BY <3>1 DEF Loading, Evicting, JobIs
  <2> QED BY <2>1, <2>2, <2>3, <2>4, <2>5
<1>6. Fresh(c)' BY <1>4, <1>5, FreshAtRest
<1>7. UsedOnly' BY <1>1, <1>2, UsedOnlyStep
<1> QED BY <1>1, <1>3, <1>6, <1>7, SameFresh

LEMMA FreeWaysFresh ==
    ASSUME IInv, IInv', FreshInv, variant.evictAfterUse, NEW c \in Core, FreeWays(c)
    PROVE  FreshInv'
<1>1. OwnChanges(c) BY FreeWaysStep
<1>2. WayTypes /\ Fresh(c) /\ UsedOnly BY DEF IInv, FreshInv
<1>3. /\ UNCHANGED <<variant, pte, content, stray, step, skipPreload, page>> /\ pc[c] = "free"
      /\ pc'[c] = "idle" \/ pc'[c] = "evict"
      /\ active' = [active EXCEPT ![c] = IF at[c] = Len(active[c]) THEN <<>> ELSE @]
  BY <1>2 DEF FreeWays, Goto, hwVars, pageVars, WayTypes
<1>4. step'[c] = Nil BY <1>2, <1>3 DEF Fresh, HwInv
<1>5. ~Loading(c)' /\ (Evicting(c)' \/ \A i \in 1 .. Len(active'[c]) : \A p : ~Holds(c, i, p)')
  BY <1>3 DEF Loading, Holds, Evicting, JobIs
<1>6. UsedOnly'
  <2> DEFINE freed(r) == [r EXCEPT !.inUse = FALSE, !.lruCount = 0,
                            !.dataStart = IF variant.evictAfterUse THEN 0 ELSE @,
                            !.osc = IF variant.evictAfterUse THEN Nil ELSE @]
  <2>1. mCacheWays' = [w \in Way |-> IF w \in WaysOf(Osc(c)) THEN freed(mCacheWays[w]) ELSE mCacheWays[w]]
    BY DEF FreeWays
  <2>2. ASSUME NEW w \in Way PROVE freed(mCacheWays[w]).dataStart = 0
    <3>1. mCacheWays[w] \in Record BY <1>2 DEF WayTypes
    <3>2. freed(mCacheWays[w]) = [mCacheWays[w] EXCEPT !.inUse = FALSE, !.lruCount = 0,
                                                       !.dataStart = 0, !.osc = Nil]
      OBVIOUS
    <3> QED BY <3>1, <3>2, FreedFacts
  <2> HIDE DEF freed
  <2>3. \A w \in Way : mCacheWays'[w] = mCacheWays[w] \/ mCacheWays'[w].dataStart = 0
    BY <2>1, <2>2
  <2> QED BY <1>2, <2>3 DEF UsedOnly
<1>7. Fresh(c)' BY <1>4, <1>5, FreshAtRest
<1> QED BY <1>1, <1>3, <1>6, <1>7, SameFresh

(* A core that goes on with its component, and moves nothing.              *)
LEMMA HeldSame ==
    ASSUME IInv, NEW c \in Core, OwnChanges(c), HeldLoaded(c), UNCHANGED <<variant, pte, content, stray>>,
           active' = active, \A i, p : Holds(c, i, p)' /\ ~Evicting(c)' => Holds(c, i, p) /\ ~Evicting(c)
    PROVE  HeldLoaded(c)'
BY HeldKept DEF In

(* getLRUWay finds a free way: none that is not in use has a label.        *)
LEMMA NoneReused ==
    ASSUME IInv, FreshInv, variant.evictAfterUse, NEW c \in Core
    PROVE  /\ \A w \in Way : ~Found(c, w) /\ ~Victim(c, w)
           /\ ~(EndJob(c) /\ job[c] = "victim")
<1>1. UsedOnly /\ Fresh(c) /\ WayTypes BY DEF IInv, FreshInv
<1>2. ASSUME NEW w \in Way, Found(c, w) PROVE FALSE
  <2>1. pc[c] = "getway" /\ Labelled(oscStart[c]) # {} BY <1>2 DEF Found
  <2>2. PICK x \in Way : mCacheWays[x].dataStart = oscStart[c] BY <2>1 DEF Labelled
  <2>3. oscStart[c] # 0
    <3>1. Loading(c) BY <2>1 DEF Loading
    <3> QED BY <3>1, OwnTask
  <2> QED BY <1>1, <2>1, <2>2, <2>3, PartIsFresh DEF UsedOnly
<1>3. ASSUME NEW w \in Way, Victim(c, w) PROVE FALSE
  <2>1. Scanned # {} /\ Free = {} BY <1>3 DEF Victim
  <2>2. PICK x \in Eligible : x \notin Free BY <2>1 DEF Scanned
  <2>3. x \in Way /\ ~mCacheWays[x].inUse /\ mCacheWays[x].dataStart # 0
    BY <2>2 DEF Eligible, Free, Unused
  <2> QED BY <1>1, <2>3 DEF UsedOnly
<1>4. ~(EndJob(c) /\ job[c] = "victim") BY <1>1 DEF EndJob, Fresh, EmptyInv, JobIs
<1> QED BY <1>2, <1>3, <1>4

LEMMA SearchFresh ==
    ASSUME IInv, IInv', FreshInv, variant.evictAfterUse, NEW c \in Core, PreloadSingleOSC(c) \/ Abort(c)
    PROVE  FreshInv'
<1>1. OwnChanges(c) /\ NoneLost(c) BY PreloadSingleOSCStep, AbortStep
<1>2. WayTypes /\ Fresh(c) /\ UsedOnly /\ FreshTypes BY DEF IInv, FreshInv
<1>3. /\ UNCHANGED <<variant, pte, content, stray, step, page, active, at>>
      /\ \/ /\ pc[c] = "preload" /\ pc'[c] = "getway" /\ oscStart'[c] = Start[Osc(c)]
            /\ skipPreload' = [skipPreload EXCEPT ![c] = FALSE]
         \/ /\ pc[c] = "getway" /\ pc'[c] = "hung" /\ oscStart' = oscStart
            /\ skipPreload' = skipPreload
  BY <1>2 DEF PreloadSingleOSC, Abort, Goto, wayVars, hwVars, pageVars, taskVars, WayTypes
<1>4. step'[c] = Nil BY <1>2, <1>3 DEF Fresh, HwInv
<1>5. ~skipPreload'[c] BY <1>2, <1>3 DEF Fresh, EmptyInv, Loading, FreshTypes
<1>6. ASSUME NEW i, NEW p, Holds(c, i, p)' PROVE Holds(c, i, p) /\ ~Evicting(c)
  <2>1. ~Evicting(c) BY <1>3 DEF Evicting, JobIs
  <2>2. CASE pc[c] = "getway" /\ pc'[c] = "hung" /\ oscStart' = oscStart
    BY <1>3, <1>6, <2>1, <2>2 DEF Holds, Loading, Evicting, JobIs
  <2>3. CASE pc[c] = "preload" /\ pc'[c] = "getway" /\ oscStart'[c] = Start[Osc(c)]
    <3>1. Osc(c) \in Component BY <2>3, OwnTask DEF Idle, Booting, JobIs
    <3>2. \A q \in Parts(Osc(c)) : ~(q < Start[Osc(c)]) BY <3>1, PartsFacts
    <3>3. p \in Parts(active[c][i]) /\ (i < at[c] \/ (i = at[c] /\ p < Start[Osc(c)]))
      BY <1>3, <1>6, <2>3 DEF Holds, Evicting, JobIs
    <3>4. i < at[c] BY <3>2, <3>3 DEF Osc
    <3> QED BY <2>1, <2>3, <3>3, <3>4 DEF Holds
  <2> QED BY <1>3, <2>2, <2>3
<1>7. HeldLoaded(c)' BY <1>1, <1>2, <1>3, <1>6, HeldSame DEF Fresh
<1>8. /\ ~JobIs(c, "victim")' /\ ~JobIs(c, "load")' /\ pc'[c] \notin {"check", "label", "owner"}
  BY <1>3 DEF JobIs
<1>9. Fresh(c)' BY <1>4, <1>5, <1>7, <1>8 DEF Fresh, HwInv, EmptyInv, LoadInv
<1>10. UsedOnly' BY <1>1, <1>2, UsedOnlyStep
<1>11. skipPreload' = skipPreload \/ \E b : skipPreload' = [skipPreload EXCEPT ![c] = b] BY <1>3
<1>12. page' = page BY <1>3
<1> QED BY <1>1, <1>3, <1>9, <1>10, <1>11, <1>12, SameFresh

----------------------------------------------------------------------------
(* A core gets a free way, and goes to load its part into it.              *)
LEMMA FreeWayFresh ==
    ASSUME IInv, IInv', FreshInv, variant.evictAfterUse, NEW c \in Core, NEW w \in Way, FreeWay(c, w)
    PROVE  FreshInv'
<1>1. OwnChanges(c) /\ NoneLost(c) BY FreeWayStep
<1>2. WayTypes /\ Fresh(c) /\ UsedOnly /\ FreshTypes BY DEF IInv, FreshInv
<1>3. /\ UNCHANGED <<variant, pte, content, stray, step, page, skipPreload, active, at, oscStart, job>>
      /\ pc[c] = "getway" /\ pc'[c] = "check" /\ way'[c] = w
      /\ mCacheWays' = [Aged EXCEPT ![w] = Taken(@)]
  BY <1>2 DEF FreeWay, Goto, wayVars, hwVars, pageVars, taskVars, WayTypes
<1>4. step'[c] = Nil BY <1>2, <1>3 DEF Fresh, HwInv
<1>5. ~skipPreload'[c] BY <1>2, <1>3 DEF Fresh, EmptyInv, Loading
<1>6. mCacheWays'[way'[c]].dataStart = 0
  <2>1. Aged \in [Way -> Record] BY <1>2, AgedFacts
  <2>2. mCacheWays'[w] = Taken(Aged[w]) /\ Aged[w] \in Record BY <1>3, <2>1
  <2> QED BY <1>3, <2>2, TakenFacts
<1>7. ~JobIs(c, "victim")' /\ ~JobIs(c, "load")' /\ pc'[c] \notin {"label", "owner"} BY <1>3 DEF JobIs
<1>8. EmptyInv(c)' /\ LoadInv(c)' /\ HwInv(c)' BY <1>4, <1>5, <1>6, <1>7 DEF EmptyInv, LoadInv, HwInv
<1>9. \A i, p : Holds(c, i, p)' /\ ~Evicting(c)' => Holds(c, i, p) /\ ~Evicting(c)
  BY <1>3 DEF Holds, Loading, Evicting, JobIs
<1>10. HeldLoaded(c)' BY <1>1, <1>2, <1>3, <1>9, HeldSame DEF Fresh
<1>11. Fresh(c)' BY <1>8, <1>10 DEF Fresh
<1>12. UsedOnly' BY <1>1, <1>2, UsedOnlyStep
<1> QED BY <1>1, <1>3, <1>11, <1>12, SameFresh

LEMMA LoadPartFresh ==
    ASSUME IInv, IInv', FreshInv, variant.evictAfterUse, NEW c \in Core, LoadPart(c)
    PROVE  FreshInv'
<1>1. OwnChanges(c) /\ NoneLost(c) BY LoadPartStep
<1>2. WayTypes /\ Fresh(c) /\ UsedOnly /\ FreshTypes BY DEF IInv, FreshInv
<1>3. pc[c] = "check" BY DEF LoadPart
<1>4. Loading(c) /\ ~Evicting(c) BY <1>3 DEF Loading, Evicting, JobIs
<1>5. /\ oscStart[c] \in Parts(Osc(c)) /\ Osc(c) \in Component /\ oscStart[c] \in Nat \ {0}
      /\ ~skipPreload[c] /\ mCacheWays[way[c]].dataStart = 0
  BY <1>2, <1>3, <1>4, OwnTask DEF TaskOf, Fresh, EmptyInv
<1>6. /\ UNCHANGED <<variant, pte, content, stray, step, mCacheWays, way, active, at, oscStart>>
      /\ pc'[c] = "job" /\ job'[c] = "load"
      /\ page' = [page EXCEPT ![c] = oscStart[c]] /\ skipPreload' = [skipPreload EXCEPT ![c] = FALSE]
  <2>1. ~(skipPreload[c] \/ mCacheWays[way[c]].dataStart = oscStart[c]) BY <1>5
  <2>2. /\ skipPreload' = [skipPreload EXCEPT ![c] = FALSE] /\ StartJob(c, "load", way[c], oscStart[c])
        /\ UNCHANGED <<pageVars, wayVars, hwVars, active, at, oscStart>>
    BY <2>1 DEF LoadPart
  <2> QED BY <1>2, <2>2 DEF StartJob, Goto, pageVars, wayVars, hwVars, WayTypes
<1>7. JobIs(c, "load")' /\ ~JobIs(c, "victim")' /\ page'[c] = oscStart[c] /\ ~skipPreload'[c]
      /\ Loading(c)' /\ ~Evicting(c)'
  BY <1>2, <1>6 DEF JobIs, FreshTypes, Loading, Evicting
<1>8. step'[c] = Nil BY <1>2, <1>3, <1>6 DEF Fresh, HwInv
<1>9. HwInv(c)' /\ EmptyInv(c)' BY <1>5, <1>6, <1>7, <1>8 DEF HwInv, EmptyInv
<1>10. LoadInv(c)'
  <2>1. PartEndOf(c)' = PartEndOf(c) /\ PartEndOf(c) \in Nat /\ PartEndOf(c) > oscStart[c]
    BY <1>5, <1>6, PartPages DEF PartEndOf, PartEnd, Osc
  <2> PICK w, p : w = way[c] /\ p = oscStart[c]
    OBVIOUS
  <2>2. Loaded(w, p, p)' BY <1>5 DEF Loaded
  <2>3. Loaded(way[c], oscStart[c], page[c])' BY <1>6, <1>7, <2>2 DEF Loaded
  <2>4. page'[c] \in oscStart'[c] .. PartEndOf(c)' BY <1>5, <1>6, <1>7, <2>1
  <2>5. pc'[c] \notin {"label", "owner"} BY <1>6
  <2> QED BY <1>6, <1>7, <2>3, <2>4, <2>5 DEF LoadInv
<1>11. \A i, p : Holds(c, i, p)' /\ ~Evicting(c)' => Holds(c, i, p) /\ ~Evicting(c)
  BY <1>3, <1>4, <1>6, <1>7 DEF Holds
<1>12. HeldLoaded(c)' BY <1>1, <1>2, <1>6, <1>11, HeldSame DEF Fresh
<1>13. Fresh(c)' BY <1>9, <1>10, <1>12 DEF Fresh
<1>14. UsedOnly' BY <1>1, <1>2, UsedOnlyStep
<1> QED BY <1>1, <1>6, <1>13, <1>14, SameFresh

(* The part is loaded: it is labelled.                                     *)
LEMMA LabelledFresh ==
    ASSUME IInv, IInv', FreshInv, variant.evictAfterUse, NEW c \in Core, OwnChanges(c), NoneLost(c),
           pc[c] \in {"label", "owner"} \/ JobIs(c, "load"), pc'[c] \in {"label", "owner"},
           Loaded(way[c], oscStart[c], PartEndOf(c)), step[c] = Nil,
           UNCHANGED <<variant, pte, content, stray, step, skipPreload, way, active, at, oscStart>>,
           page' = page \/ \E n : page' = [page EXCEPT ![c] = n]
    PROVE  FreshInv'
<1>1. WayTypes /\ Fresh(c) /\ UsedOnly /\ FreshTypes BY DEF IInv, FreshInv
<1>2. Loading(c) /\ Loading(c)' /\ ~Evicting(c) /\ ~Evicting(c)' BY DEF Loading, Evicting, JobIs
<1>3. ~skipPreload'[c] BY <1>1, <1>2 DEF Fresh, EmptyInv
<1>4. ~JobIs(c, "victim")' /\ ~JobIs(c, "load")' /\ pc'[c] # "check" BY DEF JobIs
<1>5. HwInv(c)' /\ EmptyInv(c)' BY <1>3, <1>4 DEF HwInv, EmptyInv
<1>6. LoadInv(c)'
  <2>1. way[c] \in Way BY <1>2, OwnTask DEF AtWay, Current
  <2> PICK w, p, n : w = way[c] /\ p = oscStart[c] /\ n = PartEndOf(c)
    OBVIOUS
  <2>2. Loaded(w, p, n)' BY <2>1, LoadedKept DEF In
  <2>3. PartEndOf(c)' = n BY DEF PartEndOf, PartEnd, Osc
  <2>4. Loaded(way[c], oscStart[c], PartEndOf(c))' BY <2>2, <2>3 DEF Loaded
  <2> QED BY <1>4, <2>4 DEF LoadInv
<1>7. \A i, p : Holds(c, i, p)' /\ ~Evicting(c)' => Holds(c, i, p) /\ ~Evicting(c)
  BY <1>2 DEF Holds, JobIs
<1>8. HeldLoaded(c)' BY <1>1, <1>7, HeldSame DEF Fresh
<1>9. Fresh(c)' BY <1>5, <1>6, <1>8 DEF Fresh
<1>10. UsedOnly' BY <1>1, UsedOnlyStep
<1> QED BY <1>9, <1>10, SameFresh

LEMMA EndLoadFresh ==
    ASSUME IInv, IInv', FreshInv, variant.evictAfterUse, NEW c \in Core, EndJob(c), job[c] = "load"
    PROVE  FreshInv'
<1>1. OwnChanges(c) /\ NoneLost(c) BY EndLoadStep
<1>2. WayTypes /\ Fresh(c) BY DEF IInv, FreshInv
<1>3. /\ UNCHANGED <<variant, pte, content, stray, step, skipPreload, way, active, at, oscStart>>
      /\ pc[c] = "job" /\ pc'[c] = "label" /\ page' = [page EXCEPT ![c] = 0]
      /\ step[c] = Nil /\ page[c] >= JobEnd(c)
  BY <1>2, Ends DEF EndJob, pageVars, hwVars, WayTypes
<1>4. JobIs(c, "load") /\ JobEnd(c) = PartEndOf(c) BY <1>3 DEF JobIs, JobEnd, PartEndOf
<1>5. Loaded(way[c], oscStart[c], PartEndOf(c))
  <2>1. Loading(c) BY <1>4 DEF Loading
  <2>2. PartEndOf(c) \in Nat /\ oscStart[c] \in Nat BY <2>1, OwnTask, PartPages DEF TaskOf, PartEndOf
  <2>3. page[c] \in oscStart[c] .. PartEndOf(c) /\ Loaded(way[c], oscStart[c], page[c])
    BY <1>2, <1>4 DEF Fresh, LoadInv
  <2>4. page[c] = PartEndOf(c) BY <1>3, <1>4, <2>2, <2>3
  <2> QED BY <2>3, <2>4
<1> QED BY <1>1, <1>3, <1>4, <1>5, LabelledFresh

LEMMA LabelDataFresh ==
    ASSUME IInv, IInv', FreshInv, variant.evictAfterUse, NEW c \in Core, LabelData(c)
    PROVE  FreshInv'
<1>1. OwnChanges(c) /\ NoneLost(c) BY LabelDataStep
<1>2. WayTypes /\ Fresh(c) BY DEF IInv, FreshInv
<1>3. /\ UNCHANGED <<variant, pte, content, stray, step, skipPreload, page, way, active, at, oscStart>>
      /\ pc[c] = "label" /\ pc'[c] = "owner"
  BY <1>2 DEF LabelData, Goto, pageVars, hwVars, taskVars, WayTypes
<1>4. step[c] = Nil BY <1>2, <1>3 DEF Fresh, HwInv
<1>5. Loaded(way[c], oscStart[c], PartEndOf(c)) BY <1>2, <1>3 DEF Fresh, LoadInv
<1> QED BY <1>1, <1>3, <1>4, <1>5, LabelledFresh

(* The core holds the part from now on.                                    *)
LEMMA LabelOwnerFresh ==
    ASSUME IInv, IInv', FreshInv, variant.evictAfterUse, NEW c \in Core, LabelOwner(c)
    PROVE  FreshInv'
<1>1. /\ OwnChanges(c) /\ NoneLost(c)
      /\ \A i \in 1 .. Len(active[c]) : \A p \in Nat :
            Holds(c, i, p)' => Holds(c, i, p) \/ (i = at[c] /\ p = oscStart[c])
  BY LabelOwnerStep
<1>2. WayTypes /\ Fresh(c) /\ UsedOnly /\ FreshTypes /\ TasksInv BY DEF IInv, FreshInv
<1>3. /\ UNCHANGED <<variant, pte, content, stray, step, skipPreload, page, active, job>>
      /\ pc[c] = "owner" /\ pc'[c] \in {"run", "preload", "getway"}
  BY <1>2 DEF LabelOwner, Goto, pageVars, hwVars, taskVars, WayTypes
<1>4. Loading(c) /\ ~Evicting(c) /\ Current(c) BY <1>3 DEF Loading, Evicting, JobIs, Current
<1>5. step'[c] = Nil /\ ~skipPreload'[c] BY <1>2, <1>3, <1>4 DEF Fresh, HwInv, EmptyInv
<1>6. /\ ~JobIs(c, "victim")' /\ ~JobIs(c, "load")' /\ pc'[c] \notin {"check", "label", "owner"}
  BY <1>3 DEF JobIs
<1>7. HwInv(c)' /\ EmptyInv(c)' /\ LoadInv(c)' BY <1>5, <1>6 DEF HwInv, EmptyInv, LoadInv
<1>8. HeldLoaded(c)'
  <2> SUFFICES ASSUME NEW i \in 1 .. Len(active'[c]), NEW p, Holds(c, i, p)', ~Evicting(c)',
                      NEW w \in Way, mCacheWays'[w].dataStart = p
               PROVE  Loaded(w, p, PartEnd(p, End[active[c][i]]))'
    BY DEF HeldLoaded
  <2>1. i \in 1 .. Len(active[c]) /\ active'[c] = active[c] BY <1>3
  <2>2. p \in Nat
    <3>1. active[c][i] \in Component BY <1>2, <2>1, TaskFacts
    <3>2. p \in Parts(active[c][i]) BY <2>1 DEF Holds, Parts, Owned
    <3> QED BY <3>1, <3>2, PartsFacts
  <2> PICK n : n = PartEnd(p, End[active[c][i]])
    OBVIOUS
  <2>3. PartEnd(p, End[active[c][i]])' = n BY <2>1 DEF PartEnd
  <2>4. Loaded(w, p, n)
    <3>1. CASE Holds(c, i, p)
      <4>1. mCacheWays[w].dataStart = p BY <1>1, <2>1, <3>1, LabelKept
      <4> QED BY <1>2, <1>4, <2>1, <3>1, <4>1 DEF Fresh, HeldLoaded
    <3>2. CASE i = at[c] /\ p = oscStart[c]
      <4>1. n = PartEndOf(c) BY <3>2 DEF PartEndOf, Osc
      <4>2. w = way[c]
        <5>1. way[c] \in Way /\ mCacheWays[way[c]].dataStart = p /\ p # 0
          BY <1>3, <1>4, <3>2, OwnTask DEF AtWay
        <5>2. mCacheWays' = [mCacheWays EXCEPT ![way[c]].osc = Osc(c)] BY DEF LabelOwner
        <5>3. mCacheWays[w].dataStart = p
          <6>1. mCacheWays[way[c]] \in Record BY <1>2, <5>1 DEF WayTypes
          <6> QED BY <1>2, <5>1, <5>2, <6>1 DEF WayTypes, Record
        <5> QED BY <5>1, <5>3 DEF IInv, LabelsInv
      <4> QED BY <1>2, <1>3, <3>2, <4>1, <4>2 DEF Fresh, LoadInv
    <3> QED BY <1>1, <2>1, <2>2, <3>1, <3>2
  <2>5. Loaded(w, p, n)' BY <1>3, <2>4, LoadedKept DEF In
  <2> QED BY <2>3, <2>5 DEF Loaded
<1>9. Fresh(c)' BY <1>7, <1>8 DEF Fresh
<1>10. UsedOnly' BY <1>1, <1>2, UsedOnlyStep
<1> QED BY <1>1, <1>3, <1>9, <1>10, SameFresh

----------------------------------------------------------------------------
(* Steps on the pages and on the hardware leave the tasks as they are.     *)
LEMMA TasksSame ==
    ASSUME UNCHANGED <<mCacheWays, mLock, pc, job, way, active, at, oscStart, variant>>
    PROVE  /\ \A c \in Core : OwnChanges(c) /\ PartEndOf(c)' = PartEndOf(c)
           /\ \A c \in Core : /\ Evicting(c)' = Evicting(c) /\ Loading(c)' = Loading(c)
                              /\ \A kind : JobIs(c, kind)' = JobIs(c, kind)
                              /\ \A i, p : Holds(c, i, p)' = Holds(c, i, p)
           /\ Coloring' = Coloring /\ (UsedOnly => UsedOnly')
<1>1. \A c \in Core : OwnChanges(c) BY DEF OwnChanges, Others, Kept
<1>2. \A c \in Core : PartEndOf(c)' = PartEndOf(c) BY DEF PartEndOf, PartEnd, Osc
<1>3. Coloring' = Coloring /\ (UsedOnly => UsedOnly') BY DEF Coloring, Backend, UsedOnly
<1>4. \A c \in Core : /\ Evicting(c)' = Evicting(c) /\ Loading(c)' = Loading(c)
                      /\ \A kind : JobIs(c, kind)' = JobIs(c, kind)
  BY DEF Evicting, Loading, JobIs
<1>5. \A c \in Core : \A i, p : Holds(c, i, p)' = Holds(c, i, p) BY <1>4 DEF Holds
<1> QED BY <1>1, <1>2, <1>3, <1>4, <1>5

LEMMA NothingFresh ==
    ASSUME IInv, FreshInv, variant.evictAfterUse,
           UNCHANGED <<mCacheWays, mLock, pc, job, way, active, at, oscStart, variant, pte, step,
                       page, skipPreload>>,
           content' = [w \in Way |-> content'[w]],
           \A w \in Way : \A p : In(w, p) => In(w, p)'
    PROVE  FreshInv'
<1>1. FreshTypes' BY DEF FreshInv, FreshTypes
<1>2. UsedOnly' BY TasksSame DEF FreshInv
<1>3. \A w \in Way : \A p, n : Loaded(w, p, n) => Loaded(w, p, n)' BY LoadedKept
<1>4. ASSUME NEW c \in Core PROVE Fresh(c)'
  <2>1. Fresh(c) BY DEF FreshInv
  <2>2. HwInv(c)' BY <2>1, TasksSame DEF Fresh, HwInv
  <2>3. EmptyInv(c)' BY <2>1, TasksSame DEF Fresh, EmptyInv
  <2>4. LoadInv(c)'
    <3> PICK w, p, n, e : w = way[c] /\ p = oscStart[c] /\ n = page[c] /\ e = PartEndOf(c)
      OBVIOUS
    <3>1. JobIs(c, "load") \/ pc[c] \in {"label", "owner"} => w \in Way
      <4>1. JobIs(c, "load") \/ pc[c] \in {"label", "owner"} => Loading(c) /\ Current(c)
        BY DEF Loading, Current
      <4> QED BY <4>1, OwnTask DEF AtWay
    <3>2. Loaded(way[c], oscStart[c], page[c])' <=> Loaded(w, p, n)' BY DEF Loaded, In
    <3>3. Loaded(way[c], oscStart[c], PartEndOf(c))' <=> Loaded(w, p, e)'
      <4>1. PartEndOf(c)' = e BY TasksSame
      <4> QED BY <4>1 DEF Loaded, In
    <3> QED BY <1>3, <2>1, <3>1, <3>2, <3>3, TasksSame DEF Fresh, LoadInv
  <2>5. HeldLoaded(c)' BY <2>1, TasksSame, HeldKept DEF Fresh
  <2> QED BY <2>2, <2>3, <2>4, <2>5 DEF Fresh
<1> QED BY <1>1, <1>2, <1>4 DEF FreshInv

(* A job of the coloring changes the entry of its page, and of its part no *)
(* other.                                                                  *)
LEMMA MovedPage ==
    ASSUME IInv, DataInv, Coloring, NEW c \in Core, Working(c), ~JobIs(c, "victim"),
           \A u \in Page : u \notin Core /\ u < ColorsStart /\ u # page[c] => pte'[u] = pte[u]
    PROVE  /\ (\A d \in Core : Idle(d)) \/ PtesKept(c)
           /\ \A i \in 1 .. Len(active[c]) : \A p : Holds(c, i, p) /\ ~Evicting(c) =>
                 \A v \in PagesOf(active[c][i], p) : pte'[v] = pte[v]
           /\ JobIs(c, "load") => \A v \in oscStart[c] .. page[c] - 1 : pte'[v] = pte[v]
<1>1. EndsInv /\ CritInv /\ JobInv(c) /\ TasksInv BY DEF DataInv, ColoredInv, IInv
<1>2. pc[c] = "job" BY DEF Working
<1>3. \A o \in Component : \A p \in Parts(o) : \A v \in PagesOf(o, p) : v # page[c] => pte'[v] = pte[v]
  BY PartPages
<1>4. CASE TaskJob(c)
  <2>1. ~Idle(c) /\ Osc(c) \in Component BY <1>4, TaskJobFacts
  <2>2. /\ JobStart(c) \in Parts(Osc(c)) /\ JobEnd(c) = PartEnd(JobStart(c), End[Osc(c)])
        /\ page[c] \in PagesOf(Osc(c), JobStart(c))
    BY <1>1, <1>4, TaskPlace
  <2>3. PtesKept(c)
    <3> SUFFICES ASSUME NEW o \in Component, NEW p \in Parts(o), NEW v \in PagesOf(o, p), v = page[c]
                 PROVE  o = Osc(c)
      BY <1>3, <2>1 DEF PtesKept
    <3> QED BY <2>1, <2>2, PartsApart
  <2>4. ASSUME NEW i \in 1 .. Len(active[c]), NEW p, Holds(c, i, p), ~Evicting(c),
               NEW v \in PagesOf(active[c][i], p)
        PROVE  pte'[v] = pte[v]
    <3>1. active[c][i] \in Component /\ p \in Parts(active[c][i]) BY <1>1, <2>4, TaskFacts DEF Holds
    <3>2. ASSUME v = page[c] PROVE FALSE
      <4>1. JobIs(c, "load") /\ JobStart(c) = oscStart[c] /\ oscStart[c] \in Nat
        <5>1. ~JobIs(c, "evict") BY <2>4 DEF Evicting
        <5>2. JobIs(c, "load") BY <1>4, <5>1 DEF TaskJob
        <5>3. JobStart(c) = oscStart[c] BY <1>4, <5>2, TaskJobFacts
        <5> QED BY <2>1, <2>2, <5>2, <5>3, PartsFacts
      <4>2. active[c][i] = Osc(c) /\ p = oscStart[c]
        BY <2>1, <2>2, <2>4, <3>1, <3>2, <4>1, PartsApart
      <4>3. i = at[c] /\ at[c] \in Nat BY <1>1, <2>1, <4>2, TaskFacts DEF Osc
      <4> QED BY <1>2, <2>4, <4>1, <4>2, <4>3 DEF Holds
    <3> QED BY <1>3, <2>4, <3>1, <3>2
  <2>5. ASSUME JobIs(c, "load"), NEW v \in oscStart[c] .. page[c] - 1 PROVE pte'[v] = pte[v]
    <3>1. JobStart(c) = oscStart[c] BY <1>4, <2>5, TaskJobFacts
    <3>2. oscStart[c] \in Nat /\ page[c] \in Nat /\ PartEnd(oscStart[c], End[Osc(c)]) \in Nat
      BY <2>1, <2>2, <3>1, PartPages
    <3>3. v \in PagesOf(Osc(c), oscStart[c]) /\ v # page[c] BY <2>2, <2>5, <3>1, <3>2 DEF PagesOf
    <3> QED BY <1>3, <2>1, <2>2, <3>1, <3>3
  <2> QED BY <2>3, <2>4, <2>5
<1>5. CASE ~TaskJob(c)
  <2>1. (\A d \in Core : Idle(d)) BY <1>2, <1>5, JobKinds
  <2>2. \A i, p : ~Holds(c, i, p) BY <2>1, IdleHoldsNothing
  <2>3. ~JobIs(c, "load") BY <1>5 DEF TaskJob
  <2> QED BY <2>1, <2>2, <2>3
<1> QED BY <1>4, <1>5

(* ... and so what it holds stays loaded.                                  *)
LEMMA PageFresh ==
    ASSUME IInv, IInv', DataInv, FreshInv, variant.evictAfterUse, Coloring, NEW c \in Core, Working(c),
           \A u \in Page : u \notin Core /\ u < ColorsStart /\ u # page[c] => pte'[u] = pte[u],
           UNCHANGED <<mCacheWays, mLock, pc, job, way, active, at, oscStart, variant, content, step,
                       skipPreload>>,
           NEW n, page' = [page EXCEPT ![c] = n],
           JobIs(c, "load") => /\ n \in oscStart[c] .. PartEndOf(c)
                               /\ \A v \in page[c] .. n - 1 :
                                     pte'[v].cacheable /\ pte'[v].base = ColorPage(way[c], v - oscStart[c])
    PROVE  FreshInv'
<1>1. UsedOnly /\ Fresh(c) /\ FreshTypes BY DEF FreshInv
<1>2. pc[c] = "job" /\ ~JobIs(c, "victim") /\ step[c] = Nil /\ page[c] \in Nat
  BY <1>1 DEF Working, Fresh, EmptyInv, DataInv, ColoredInv
<1>3. /\ OwnChanges(c) /\ PartEndOf(c)' = PartEndOf(c) /\ Coloring' /\ UsedOnly'
      /\ Loading(c)' = Loading(c) /\ Evicting(c)' = Evicting(c)
      /\ \A kind : JobIs(c, kind)' = JobIs(c, kind)
      /\ \A i, p : Holds(c, i, p)' = Holds(c, i, p)
  BY <1>1, TasksSame
<1>4. /\ (\A d \in Core : Idle(d)) \/ (PtesKept(c) /\ ContentKept(c))
      /\ \A i \in 1 .. Len(active[c]) : \A p : Holds(c, i, p) /\ ~Evicting(c) =>
            \A v \in PagesOf(active[c][i], p) : pte'[v] = pte[v]
      /\ JobIs(c, "load") => \A v \in oscStart[c] .. page[c] - 1 : pte'[v] = pte[v]
  BY <1>2, MovedPage DEF ContentKept
<1>5. HwInv(c)' /\ EmptyInv(c)' BY <1>1, <1>2, <1>3 DEF HwInv, EmptyInv, Fresh
<1>6. HeldLoaded(c)' BY <1>1, <1>3, <1>4, HeldKept DEF Fresh
<1>7. page'[c] = n /\ page' = [d \in Core |-> page'[d]] /\ \A d \in Core : d # c => page'[d] = page[d]
  BY <1>1 DEF FreshTypes
<1>8. LoadInv(c)'
  <2>1. ASSUME JobIs(c, "load")
        PROVE  n \in oscStart[c] .. PartEndOf(c) /\ Loaded(way[c], oscStart[c], page[c])'
    <3>1. page[c] \in oscStart[c] .. PartEndOf(c) /\ Loaded(way[c], oscStart[c], page[c])
      BY <1>1, <2>1 DEF Fresh, LoadInv
    <3>2. TaskJob(c) BY <2>1 DEF TaskJob
    <3>3. oscStart[c] \in Nat /\ PartEndOf(c) \in Nat
      BY <2>1, <3>2, TaskJobFacts, PartPages DEF PartEndOf
    <3>4. \A v \in oscStart[c] .. page[c] - 1 :
             pte'[v].cacheable /\ pte'[v].base = ColorPage(way[c], v - oscStart[c])
      BY <1>4, <2>1, <3>1 DEF Loaded
    <3>5. \A v \in oscStart[c] .. n - 1 :
             pte'[v].cacheable /\ pte'[v].base = ColorPage(way[c], v - oscStart[c])
      <4>1. n \in Nat /\ \A v \in oscStart[c] .. n - 1 : v \in oscStart[c] .. page[c] - 1 \/ v \in page[c] .. n - 1
        BY <1>2, <2>1, <3>3
      <4> QED BY <2>1, <3>4, <4>1
    <3> PICK w, p : w = way[c] /\ p = oscStart[c]
      OBVIOUS
    <3>6. \A v : ColorPage(w, v - p)' = ColorPage(w, v - p) BY DEF ColorPage, ColorOffset
    <3>7. Loaded(w, p, n)' BY <1>3, <3>5, <3>6 DEF Loaded
    <3>8. Loaded(way[c], oscStart[c], page[c])' BY <1>7, <3>7 DEF Loaded
    <3> QED BY <2>1, <3>8
  <2> QED BY <1>2, <1>3, <1>7, <2>1 DEF LoadInv
<1>9. Fresh(c)' BY <1>5, <1>6, <1>8 DEF Fresh
<1>10. FreshTypes' BY <1>1, <1>7 DEF FreshTypes
<1> QED BY <1>3, <1>4, <1>7, <1>9, <1>10, FreshStep

LEMMA MovePageFresh ==
    ASSUME IInv, IInv', DataInv, FreshInv, variant.evictAfterUse, NEW c \in Core, MovePage(c)
    PROVE  FreshInv'
<1>1. Coloring BY DEF MovePage
<1>2. /\ Working(c) /\ \A u \in Page : u \notin {c, page[c], Target(c)} => pte'[u] = pte[u]
      /\ UNCHANGED <<mCacheWays, mLock, pc, job, way, active, at, oscStart, variant, step, page>>
  BY <1>1, MovePageFacts
<1>3. UNCHANGED <<content, skipPreload>> BY DEF MovePage, hwVars, taskVars
<1>4. Target(c) = page[c] \/ Target(c) >= ColorsStart
  BY <1>1, <1>2, WorkPlace DEF DataInv, ColoredInv
<1>5. \A u \in Page : u \notin Core /\ u < ColorsStart /\ u # page[c] => pte'[u] = pte[u]
  <2>1. Target(c) \in Nat /\ ColorsStart \in Nat /\ Page \subseteq Nat
    BY <1>1, <1>2, WorkPlace, ColorAssumption, CoresArePages DEF DataInv, ColoredInv
  <2> QED BY <1>2, <1>4, <2>1
<1>6. page' = [page EXCEPT ![c] = page[c]] /\ page[c] \in Nat
  BY <1>1, <1>2 DEF FreshInv, FreshTypes, DataInv, ColoredInv
<1>7. JobIs(c, "load") => page[c] \in oscStart[c] .. PartEndOf(c) BY DEF FreshInv, Fresh, LoadInv
<1>8. \A v : v \notin page[c] .. page[c] - 1 BY <1>6
<1> QED BY <1>1, <1>2, <1>3, <1>5, <1>6, <1>7, <1>8, PageFresh

LEMMA NextPageFresh ==
    ASSUME IInv, IInv', DataInv, FreshInv, variant.evictAfterUse, Coloring, NEW c \in Core, NextPage(c)
    PROVE  FreshInv'
<1>1. /\ moving[c] # Nil
      /\ UNCHANGED <<mCacheWays, pc, job, way, active, at, oscStart, step, variant, mLock>>
      /\ page' = [page EXCEPT ![c] = page[c] + 1]
      /\ \A u \in Page : u # page[c] /\ u # c => pte'[u] = pte[u]
      /\ pte'[page[c]] = To(Target(c), Prefetches(c))
  BY NextPageFacts
<1>2. UNCHANGED <<content, skipPreload>> BY DEF NextPage, hwVars, taskVars
<1>3. Working(c) /\ EndsInv /\ CritInv /\ JobInv(c) BY <1>1 DEF DataInv, ColoredInv, MoveInv
<1>4. \A u \in Page : u \notin Core /\ u < ColorsStart /\ u # page[c] => pte'[u] = pte[u] BY <1>1
<1>5. ASSUME JobIs(c, "load")
      PROVE  /\ page[c] + 1 \in oscStart[c] .. PartEndOf(c)
             /\ \A v \in page[c] .. (page[c] + 1) - 1 :
                   pte'[v].cacheable /\ pte'[v].base = ColorPage(way[c], v - oscStart[c])
  <2>1. TaskJob(c) /\ JobEnd(c) = PartEndOf(c) BY <1>5 DEF TaskJob, JobEnd, PartEndOf, JobIs
  <2>2. /\ Prefetches(c) /\ oscStart[c] \in Nat /\ PartEndOf(c) \in Nat
    BY <1>5, <2>1, TaskJobFacts, PartPages DEF PartEndOf
  <2>3. page[c] \in oscStart[c] .. PartEndOf(c) /\ page[c] < PartEndOf(c)
    BY <1>3, <1>5, <2>1 DEF FreshInv, Fresh, LoadInv, Working
  <2>4. \A v \in page[c] .. (page[c] + 1) - 1 : v = page[c] BY <2>2, <2>3
  <2>5. Target(c) = ColorPage(way[c], page[c] - oscStart[c]) BY <2>2 DEF Target
  <2> QED BY <1>1, <2>2, <2>3, <2>4, <2>5 DEF To
<1> PICK n : n = page[c] + 1
  OBVIOUS
<1> QED BY <1>1, <1>2, <1>3, <1>4, <1>5, PageFresh

(* The way of the hardware is filled for the core's own part, and cleaned  *)
(* for a part that it gives back.                                          *)
LEMMA FillFresh ==
    ASSUME IInv, IInv', FreshInv, variant.evictAfterUse, ~Coloring, NEW c \in Core, pc[c] = "job",
           UNCHANGED <<mCacheWays, mLock, pc, job, way, active, at, oscStart, variant, skipPreload>>,
           NEW s, NEW n, NEW r, step' = [step EXCEPT ![c] = s], page' = [page EXCEPT ![c] = n],
           content' = content \/ content' = [content EXCEPT ![way[c]] = r],
           \A p \in stray : p \in stray' \/ p = JobStart(c),
           HwInv(c)', LoadInv(c)'
    PROVE  FreshInv'
<1>1. UsedOnly /\ Fresh(c) /\ FreshTypes BY DEF FreshInv
<1>2. /\ OwnChanges(c) /\ UsedOnly'
      /\ Loading(c)' = Loading(c) /\ Evicting(c)' = Evicting(c)
      /\ \A kind : JobIs(c, kind)' = JobIs(c, kind)
      /\ \A i, p : Holds(c, i, p)' = Holds(c, i, p)
  BY <1>1, TasksSame
<1>3. EmptyInv(c)' BY <1>1, <1>2 DEF EmptyInv, Fresh
<1>4. /\ content' = [w \in Way |-> content'[w]]
      /\ \A w \in Way : w # way[c] => content'[w] = content[w]
  BY <1>1 DEF FreshTypes
<1>5. /\ step' = [d \in Core |-> step'[d]] /\ page' = [d \in Core |-> page'[d]]
      /\ skipPreload' = [d \in Core |-> skipPreload'[d]]
      /\ \A d \in Core : d # c => step'[d] = step[d] /\ page'[d] = page[d]
  BY <1>1 DEF FreshTypes
<1>6. FreshTypes' BY <1>4, <1>5 DEF FreshTypes
<1>7. CASE TaskJob(c)
  <2>0. \A w \in Way : \A p : w # way[c] /\ p # JobStart(c) => (In(w, p) => In(w, p)')
    BY <1>4 DEF In
  <2>1. ~Idle(c) /\ AtWork(c) BY <1>7, TaskJobFacts
  <2>2. JobIs(c, "load") \/ JobIs(c, "evict") BY <1>1, <1>7 DEF TaskJob, Fresh, EmptyInv
  <2>3. JobIs(c, "load") => mCacheWays[way[c]].dataStart = 0 BY <1>1 DEF Fresh, EmptyInv
  <2>4. JobIs(c, "evict") => mCacheWays[way[c]].dataStart \in Owned(Osc(c)) /\ Evicting(c)
    BY <2>1, OwnTask DEF AtWay, Parts, Evicting
  <2>5. PtesKept(c) /\ ContentKept(c)
    <3>1. JobStart(c) \in Owned(Osc(c)) BY <1>7, <2>2, TaskJobFacts DEF Parts
    <3> QED BY <2>0, <2>1, <2>2, <2>3, <2>4, <3>1 DEF PtesKept, ContentKept
  <2>6. ASSUME NEW i \in 1 .. Len(active[c]), NEW p, Holds(c, i, p), ~Evicting(c),
               NEW w \in Way, mCacheWays[w].dataStart = p
        PROVE  In(w, p) => In(w, p)'
    <3>1. p # 0
      <4>1. active[c][i] \in Component BY <2>6, TaskFacts DEF IInv
      <4> QED BY <2>6, <4>1, PartsFacts DEF Holds
    <3>2. JobIs(c, "load") BY <2>2, <2>4, <2>6
    <3>3. w # way[c] BY <2>3, <2>6, <3>1, <3>2
    <3>4. p # JobStart(c)
      <4>1. Current(c) /\ JobStart(c) = oscStart[c] /\ AtWay(c) BY <1>7, <3>2, TaskJobFacts
      <4> QED BY <2>6, <3>3, <4>1 DEF AtWay, Labelled
    <3> QED BY <2>0, <3>3, <3>4
  <2>7. HeldLoaded(c)' BY <1>1, <1>2, <2>6, HeldKept DEF Fresh
  <2>8. Fresh(c)' BY <1>3, <2>7 DEF Fresh
  <2> QED BY <1>2, <1>5, <1>6, <2>5, <2>8, FreshStep
<1>8. CASE ~TaskJob(c)
  <2>1. (\A d \in Core : Idle(d)) BY <1>8, JobKinds
  <2>2. \A i, p : ~Holds(c, i, p)' BY <1>2, <2>1, IdleHoldsNothing
  <2>3. HeldLoaded(c)' BY <2>2 DEF HeldLoaded
  <2>4. Fresh(c)' BY <1>3, <2>3 DEF Fresh
  <2> QED BY <1>2, <1>5, <1>6, <2>1, <2>4, FreshStep
<1> QED BY <1>7, <1>8

----------------------------------------------------------------------------
LEMMA OpenFresh ==
    ASSUME IInv, IInv', FreshInv, variant.evictAfterUse, NEW c \in Core,
           \/ OpenWay(c) \/ CloseWay(c) \/ EnableWayExclusive(c) \/ DisableAllWays(c)
    PROVE  FreshInv'
<1>1. UsedOnly /\ Fresh(c) /\ FreshTypes BY DEF FreshInv
<1>2. /\ UNCHANGED <<mCacheWays, mLock, pc, job, way, active, at, oscStart, variant, skipPreload, page,
                     content, stray>>
      /\ ~Coloring
  BY DEF OpenWay, CloseWay, EnableWayExclusive, DisableAllWays, wayVars, taskVars, Coloring
<1>3. \/ Working(c) /\ (step' = [step EXCEPT ![c] = "open"] \/ step' = [step EXCEPT ![c] = "fill"])
      \/ step[c] = "open" /\ step' = [step EXCEPT ![c] = "fill"]
      \/ step[c] \in {"close", "shut"} /\ (step' = [step EXCEPT ![c] = "shut"] \/ step' = [step EXCEPT ![c] = Nil])
  BY DEF OpenWay, CloseWay, EnableWayExclusive, DisableAllWays, Step
<1>4. pc[c] = "job"
  <2>1. Working(c) \/ step[c] # Nil BY <1>3, StepAssumption
  <2> QED BY <1>1, <2>1 DEF Working, Fresh, HwInv
<1>5. PICK s : step' = [step EXCEPT ![c] = s] /\ step'[c] = s
  BY <1>1, <1>3 DEF FreshTypes
<1>6. HwInv(c)'
  <2>1. Coloring' = Coloring /\ JobIs(c, "load")' = JobIs(c, "load") BY <1>2, TasksSame
  <2>2. ASSUME JobIs(c, "load"), step'[c] \in {"open", "fill"} PROVE page[c] = oscStart[c]
    <3>1. CASE Working(c)
      <4>1. page[c] < PartEndOf(c) BY <2>2, <3>1 DEF Working, JobEnd, JobIs, PartEndOf
      <4> QED BY <1>1, <1>2, <2>2, <4>1 DEF Fresh, LoadInv
    <3>2. CASE step[c] = "open"
      BY <1>1, <2>2, <3>2, StepAssumption DEF Fresh, HwInv
    <3>3. CASE step[c] \in {"close", "shut"} /\ (step' = [step EXCEPT ![c] = "shut"] \/ step' = [step EXCEPT ![c] = Nil])
      <4>1. step'[c] \in {"shut", Nil} BY <1>1, <3>3 DEF FreshTypes
      <4> QED BY <2>2, <4>1, StepAssumption
    <3> QED BY <1>3, <3>1, <3>2, <3>3
  <2> QED BY <1>2, <1>4, <2>1, <2>2 DEF HwInv
<1>7. LoadInv(c)'
  <2> PICK w, p, n : w = way[c] /\ p = oscStart[c] /\ n = page[c]
    OBVIOUS
  <2>1. Loaded(w, p, n)' = Loaded(w, p, n) BY <1>2 DEF Loaded, In, Coloring, Backend
  <2>2. Loaded(way[c], oscStart[c], page[c])' = Loaded(w, p, n)' BY <1>2 DEF Loaded, In
  <2>3. PartEndOf(c)' = PartEndOf(c) /\ Coloring' = Coloring /\ JobIs(c, "load")' = JobIs(c, "load")
    BY <1>2, TasksSame
  <2> QED BY <1>1, <1>2, <1>4, <2>1, <2>2, <2>3 DEF Fresh, LoadInv
<1>8. page' = [page EXCEPT ![c] = page[c]] BY <1>1, <1>2 DEF FreshTypes
<1> QED BY <1>2, <1>4, <1>5, <1>6, <1>7, <1>8, FillFresh

LEMMA FillWayFresh ==
    ASSUME IInv, IInv', LocksInv, FreshInv, variant.evictAfterUse, NEW c \in Core,
           FillWay(c) \/ CleanAndInvalidateWay(c)
    PROVE  FreshInv'
<1>1. UsedOnly /\ Fresh(c) /\ FreshTypes BY DEF FreshInv
<1>2. /\ UNCHANGED <<mCacheWays, mLock, pc, job, way, active, at, oscStart, variant, skipPreload>>
      /\ page' = [page EXCEPT ![c] = JobEnd(c)]
  BY DEF FillWay, CleanAndInvalidateWay, wayVars, taskVars
<1>3. pc[c] = "job" /\ ~Coloring
  <2>1. CASE FillWay(c) BY <1>1, <2>1, StepAssumption DEF FillWay, Fresh, HwInv
  <2>2. CASE CleanAndInvalidateWay(c) BY <2>2 DEF CleanAndInvalidateWay, Working, Coloring
  <2> QED BY <2>1, <2>2
<1>4. /\ content' = content \/ \E r : content' = [content EXCEPT ![way[c]] = r]
      /\ \A p \in stray : p \in stray' \/ p = JobStart(c)
      /\ Prefetches(c) => /\ FillWay(c)
                          /\ Allocates(c, way[c]) =>
                                \/ content' = [content EXCEPT ![way[c]] = JobStart(c)]
                                \/ JobStart(c) \in stray'
  <2>1. CASE FillWay(c) BY <2>1 DEF FillWay
  <2>2. CASE CleanAndInvalidateWay(c) BY <2>2 DEF CleanAndInvalidateWay
  <2> QED BY <2>1, <2>2
<1>5. \/ FillWay(c) /\ step' = [step EXCEPT ![c] = "close"]
      \/ CleanAndInvalidateWay(c) /\ step' = [step EXCEPT ![c] = step[c]]
  BY <1>1 DEF FillWay, CleanAndInvalidateWay, Step, FreshTypes
<1>6. /\ Coloring' = Coloring /\ JobIs(c, "load")' = JobIs(c, "load") /\ PartEndOf(c)' = PartEndOf(c)
  BY <1>2, TasksSame
<1>7. JobIs(c, "load") => Prefetches(c) /\ JobEnd(c) = PartEndOf(c)
  BY DEF JobIs, Prefetches, JobEnd, PartEndOf
<1>8. HwInv(c)'
  <2>1. CASE FillWay(c) /\ step' = [step EXCEPT ![c] = "close"]
    <3>1. step'[c] \notin {"open", "fill"} BY <1>1, <2>1 DEF FreshTypes
    <3> QED BY <1>2, <1>3, <1>6, <3>1 DEF HwInv
  <2>2. CASE CleanAndInvalidateWay(c)
    <3>1. ~JobIs(c, "load") BY <1>7, <2>2 DEF CleanAndInvalidateWay
    <3> QED BY <1>2, <1>3, <1>6, <3>1 DEF HwInv
  <2> QED BY <1>5, <2>1, <2>2
<1>9. LoadInv(c)'
  <2>1. ASSUME JobIs(c, "load")
        PROVE  page'[c] = PartEndOf(c) /\ PartEndOf(c) \in oscStart[c] .. PartEndOf(c)
               /\ (content'[way[c]] = oscStart[c] \/ oscStart[c] \in stray')
    <3>1. /\ oscStart[c] \in Nat /\ PartEndOf(c) \in Nat /\ PartEndOf(c) > oscStart[c] /\ way[c] \in Way
      <4>1. TaskJob(c) BY <2>1 DEF TaskJob
      <4> QED BY <2>1, <4>1, TaskJobFacts, PartPages DEF PartEndOf
    <3>2. FillWay(c) /\ JobStart(c) = oscStart[c] BY <1>4, <1>7, <2>1 DEF JobStart
    <3>3. Allocates(c, way[c]) BY <1>3, <3>1, <3>2, OpenAllocates DEF FillWay
    <3> QED BY <1>1, <1>2, <1>4, <1>7, <2>1, <3>1, <3>2, <3>3 DEF FreshTypes
  <2> PICK w, p, n : w = way[c] /\ p = oscStart[c] /\ n = page'[c]
    OBVIOUS
  <2>2. JobIs(c, "load") => Loaded(w, p, n)' BY <1>3, <1>6, <2>1 DEF Loaded, In
  <2>3. Loaded(way[c], oscStart[c], page[c])' = Loaded(w, p, n)' BY <1>2 DEF Loaded, In
  <2>4. PartEndOf(c) \in Nat => ~(PartEndOf(c) < PartEndOf(c)) OBVIOUS
  <2>5. JobIs(c, "load") => PartEndOf(c) \in Nat
    <3>1. JobIs(c, "load") => TaskJob(c) BY DEF TaskJob
    <3> QED BY <3>1, TaskJobFacts, PartPages DEF PartEndOf
  <2> QED BY <1>2, <1>3, <1>6, <2>1, <2>2, <2>3, <2>4, <2>5 DEF LoadInv
<1>10. PICK r : content' = content \/ content' = [content EXCEPT ![way[c]] = r] BY <1>4
<1>11. PICK s : step' = [step EXCEPT ![c] = s] BY <1>5
<1> QED BY <1>2, <1>3, <1>4, <1>8, <1>9, <1>10, <1>11, FillFresh

(* A core's own miss takes nothing of what is loaded: it finds no place    *)
(* but in a way that is open, of which that can be told.                   *)
LEMMA MissFresh ==
    ASSUME IInv, LocksInv, FreshInv, FreshTypes', variant.evictAfterUse, NEW c \in Core, NEW p \in Page,
           Miss(c, p)
    PROVE  FreshInv'
<1>1. /\ UNCHANGED <<mCacheWays, mLock, pc, job, way, active, at, oscStart, variant, pte, step,
                     page, skipPreload>>
      /\ stray' = stray \cup {p}
  BY DEF Miss, pageVars, wayVars, taskVars
<1>2. content' = content \/ \E w \in Way : content' = [content EXCEPT ![w] = Lost]
  <2>1. ASSUME NEW w \in Way, Allocates(c, w) PROVE Opened(w)
    BY <2>1, NoStrayWay DEF Miss
  <2> QED BY <2>1 DEF Miss
<1>3. \A w \in Way : content'[w] \in {content[w], Lost} BY <1>2 DEF FreshInv, FreshTypes
<1>4. \A w \in Way : \A q : In(w, q) => In(w, q)' BY <1>1, <1>3 DEF In
<1>5. content' = [w \in Way |-> content'[w]] BY DEF FreshTypes
<1> QED BY <1>1, <1>4, <1>5, NothingFresh

(* While the first core boots, no way has a label.                         *)
LEMMA BootFresh ==
    ASSUME IInv, FreshInv, FreshTypes', variant.evictAfterUse, variant' = variant,
           InitPrimary \/ PreloadCriticalData \/ StartSecondaries \/ \E c \in Core : EndJob(c) /\ Booting(c)
    PROVE  FreshInv'
<1>1. PICK c \in Core : /\ c = 0 /\ Booting(c)
                        /\ InitPrimary \/ PreloadCriticalData \/ StartSecondaries \/ EndJob(c)
  BY CoresArePages DEF IInv, StatesInv, InitPrimary, PreloadCriticalData, StartSecondaries, Booting
<1>2. IInv' /\ \A d \in Core : Idle(d) /\ Idle(d)' BY <1>1, BootSteps
<1>3. \A d \in Core : step'[d] = Nil
  <2>1. step' = step
    BY <1>1 DEF InitPrimary, PreloadCriticalData, StartSecondaries, EndJob, hwVars
  <2>2. pc[0] # "job" \/ step[0] = Nil
    BY <1>1 DEF InitPrimary, PreloadCriticalData, StartSecondaries, EndJob
  <2>3. \A d \in Core : d # 0 => pc[d] = "off" BY <1>1 DEF IInv, StatesInv
  <2> QED BY <1>1, <2>1, <2>2, <2>3 DEF FreshInv, Fresh, HwInv
<1>4. ASSUME NEW d \in Core PROVE Fresh(d)'
  <2>1. ~Loading(d)' /\ \A i, p : ~Holds(d, i, p)' 
    <3>1. Idle(d)' BY <1>2
    <3> QED BY <3>1 DEF Idle, Booting, Loading, Evicting, Holds, JobIs
  <2> QED BY <1>3, <2>1, FreshAtRest
<1>5. \A w \in Way : mCacheWays[w].dataStart = 0 BY <1>2, NothingUsed DEF FreshInv, UsedOnly
<1>6. \A w \in Way : mCacheWays'[w].dataStart = 0
  <2>1. WayTypes BY DEF IInv
  <2>2. mCacheWays' = mCacheWays \/ mCacheWays' = [mCacheWays EXCEPT ![way[0]].permanentLocked = TRUE]
    <3>1. CASE EndJob(c)
      <4>1. job[c] = "critical" BY <1>1, <3>1 DEF Booting, JobIs, EndJob
      <4> QED BY <1>1, <2>1, <3>1, <4>1, Ends
    <3>2. CASE InitPrimary \/ PreloadCriticalData \/ StartSecondaries
      BY <3>2 DEF InitPrimary, PreloadCriticalData, StartSecondaries, wayVars
    <3> QED BY <1>1, <3>1, <3>2
  <2>3. ASSUME NEW w \in Way PROVE mCacheWays'[w].dataStart = mCacheWays[w].dataStart
    <3> DEFINE r == [mCacheWays[way[0]] EXCEPT !.permanentLocked = TRUE]
    <3>1. mCacheWays \in [Way -> Record] BY <2>1 DEF WayTypes
    <3>2. mCacheWays' = mCacheWays \/ mCacheWays' = [mCacheWays EXCEPT ![way[0]] = r] BY <2>2
    <3>3. way[0] \in Way => r.dataStart = mCacheWays[way[0]].dataStart BY <3>1 DEF Record
    <3> HIDE DEF r
    <3> QED BY <3>1, <3>2, <3>3
  <2> QED BY <1>5, <2>3
<1>7. UsedOnly' BY <1>6 DEF UsedOnly
<1> QED BY <1>4, <1>7 DEF FreshInv

LEMMA TypesStep ==
    ASSUME FreshTypes, [Next]_vars
    PROVE  FreshTypes' /\ variant' = variant
<1> DEFINE S == step' = step \/ \E c \in Core : \E x : step' = [step EXCEPT ![c] = x]
           P == page' = page \/ \E c \in Core : \E x : page' = [page EXCEPT ![c] = x]
           K == skipPreload' = skipPreload \/ \E c \in Core : \E x : skipPreload' = [skipPreload EXCEPT ![c] = x]
           C == content' = content \/ \E w, x : content' = [content EXCEPT ![w] = x]
           G == S /\ P /\ K /\ C /\ variant' = variant
<1>1. ASSUME InitPrimary \/ PreloadCriticalData \/ StartSecondaries PROVE G
  BY <1>1, CoresArePages DEF InitPrimary, PreloadCriticalData, StartSecondaries, StartJob, wayVars, hwVars, taskVars
<1>2. ASSUME NEW c \in Core, InitSecondary(c) \/ \E t \in Tasks : NextTask(c, t) PROVE G
  BY <1>2 DEF InitSecondary, NextTask, wayVars, hwVars, taskVars
<1>3. ASSUME NEW c \in Core, PreloadSingleOSC(c) PROVE G
  BY <1>3 DEF PreloadSingleOSC, wayVars, hwVars
<1>4. ASSUME NEW c \in Core, Abort(c) PROVE G BY <1>4 DEF Abort, wayVars, hwVars, taskVars
<1>5. ASSUME NEW c \in Core, LoadPart(c) PROVE G
  BY <1>5 DEF LoadPart, StartJob, wayVars, hwVars
<1>6. ASSUME NEW c \in Core, NEW w \in Way, GetLRUWay(c, w) PROVE G
  BY <1>6 DEF GetLRUWay, Found, FreeWay, Victim, StartJob, hwVars, taskVars
<1>7. ASSUME NEW c \in Core, LabelData(c) \/ LabelOwner(c) PROVE G
  BY <1>7 DEF LabelData, LabelOwner, hwVars, taskVars
<1>8. ASSUME NEW c \in Core, NEW v \in Page, Run(c, v) PROVE G
  BY <1>8 DEF Run, wayVars, hwVars, taskVars
<1>9. ASSUME NEW c \in Core, FinishTask(c) \/ LookupOSC(c) \/ FreeWays(c) PROVE G
  BY <1>9 DEF FinishTask, LookupOSC, FreeWays, StartJob, wayVars, hwVars, taskVars
<1>10. ASSUME NEW c \in Core, EndJob(c) PROVE G BY <1>10 DEF EndJob, hwVars
<1>11. ASSUME NEW c \in Core, MovePage(c) \/ Copy(c) \/ NextPage(c) PROVE G
  BY <1>11 DEF MovePage, Copy, NextPage, wayVars, hwVars, taskVars
<1>12. ASSUME NEW c \in Core, OpenWay(c) \/ CloseWay(c) \/ CleanAndInvalidateWay(c) PROVE G
  BY <1>12 DEF OpenWay, CloseWay, CleanAndInvalidateWay, Step, wayVars, taskVars
<1>13. ASSUME NEW c \in Core, EnableWayExclusive(c) \/ DisableAllWays(c) \/ FillWay(c) PROVE G
  BY <1>13 DEF EnableWayExclusive, DisableAllWays, FillWay, Step, wayVars, taskVars
<1>14. ASSUME NEW c \in Core, NEW p \in Page, Miss(c, p) PROVE G
  BY <1>14 DEF Miss, wayVars, taskVars
<1>15. ASSUME UNCHANGED vars PROVE G BY <1>15 DEF vars, wayVars, hwVars, taskVars
<1> HIDE DEF G
<1>16. G
  BY <1>1, <1>2, <1>3, <1>4, <1>5, <1>6, <1>7, <1>8, <1>9, <1>10, <1>11, <1>12, <1>13, <1>14, <1>15
     DEF Next, G
<1>17. S /\ P /\ K /\ C /\ variant' = variant BY <1>16 DEF G
<1>18. step' = [c \in Core |-> step'[c]] BY <1>17 DEF FreshTypes
<1>19. page' = [c \in Core |-> page'[c]] BY <1>17 DEF FreshTypes
<1>20. skipPreload' = [c \in Core |-> skipPreload'[c]] BY <1>17 DEF FreshTypes
<1>21. content' = [w \in Way |-> content'[w]] BY <1>17 DEF FreshTypes
<1> QED BY <1>17, <1>18, <1>19, <1>20, <1>21 DEF FreshTypes

LEMMA StepKeepsFresh == IInv /\ DataInv /\ LocksInv /\ FreshInv /\ [Next]_vars => FreshInv'
<1> SUFFICES ASSUME IInv, DataInv, LocksInv, FreshInv, [Next]_vars PROVE FreshInv'
  OBVIOUS
<1>1. IInv' BY StepPreservesInv
<1>2. FreshTypes' /\ variant' = variant BY TypesStep DEF FreshInv
<1>3. CASE ~variant.evictAfterUse BY <1>2, <1>3 DEF FreshInv
<1>4. CASE variant.evictAfterUse
  <2>1. CASE InitPrimary \/ PreloadCriticalData \/ StartSecondaries
    BY <1>2, <1>4, <2>1, BootFresh
  <2>2. ASSUME NEW c \in Core, InitSecondary(c) \/ \E t \in Tasks : NextTask(c, t) PROVE FreshInv'
    BY <1>1, <1>4, <2>2, RestSteps
  <2>3. ASSUME NEW c \in Core, FinishTask(c) \/ LookupOSC(c) PROVE FreshInv'
    BY <1>1, <1>4, <2>3, RestSteps
  <2>4. ASSUME NEW c \in Core, PreloadSingleOSC(c) \/ Abort(c) PROVE FreshInv'
    BY <1>1, <1>4, <2>4, SearchFresh
  <2>5. ASSUME NEW c \in Core, LoadPart(c) PROVE FreshInv' BY <1>1, <1>4, <2>5, LoadPartFresh
  <2>6. ASSUME NEW c \in Core, NEW w \in Way, GetLRUWay(c, w) PROVE FreshInv'
    <3>1. FreeWay(c, w) BY <1>4, <2>6, NoneReused DEF GetLRUWay
    <3> QED BY <1>1, <1>4, <3>1, FreeWayFresh
  <2>7. ASSUME NEW c \in Core, LabelData(c) PROVE FreshInv' BY <1>1, <1>4, <2>7, LabelDataFresh
  <2>8. ASSUME NEW c \in Core, LabelOwner(c) PROVE FreshInv' BY <1>1, <1>4, <2>8, LabelOwnerFresh
  <2>9. ASSUME NEW c \in Core, FreeWays(c) PROVE FreshInv' BY <1>1, <1>4, <2>9, FreeWaysFresh
  <2>10. ASSUME NEW c \in Core, EndJob(c) PROVE FreshInv'
    <3>1. pc[c] = "job" BY <2>10 DEF EndJob
    <3>2. job[c] \in {"load", "victim", "evict"} \/ (job[c] = "critical" /\ Booting(c))
      BY <3>1, JobKinds DEF TaskJob, JobIs
    <3>3. CASE job[c] = "load" BY <1>1, <1>4, <2>10, <3>3, EndLoadFresh
    <3>4. CASE job[c] = "victim" BY <1>4, <2>10, <3>4, NoneReused
    <3>5. CASE job[c] = "evict" BY <1>1, <1>4, <2>10, <3>5, RestSteps
    <3>6. CASE Booting(c) BY <1>2, <1>4, <2>10, <3>6, BootFresh
    <3> QED BY <3>2, <3>3, <3>4, <3>5, <3>6
  <2>11. ASSUME NEW c \in Core, (\E v \in Page : Run(c, v)) \/ Copy(c) PROVE FreshInv'
    <3>1. UNCHANGED <<mCacheWays, mLock, pc, job, way, active, at, oscStart, variant, pte, content,
                      stray, step, page, skipPreload>>
      BY <2>11 DEF Run, Access, Copy, CopyPage, wayVars, hwVars, taskVars
    <3> QED BY <1>2, <1>4, <3>1, NothingFresh DEF FreshTypes, In
  <2>12. ASSUME NEW c \in Core, MovePage(c) PROVE FreshInv' BY <1>1, <1>4, <2>12, MovePageFresh
  <2>13. ASSUME NEW c \in Core, NextPage(c) PROVE FreshInv'
    <3>1. Coloring BY <2>13 DEF NextPage, EndMove, DataInv, PlainInv
    <3> QED BY <1>1, <1>4, <2>13, <3>1, NextPageFresh
  <2>14. ASSUME NEW c \in Core,
                OpenWay(c) \/ CloseWay(c) \/ EnableWayExclusive(c) \/ DisableAllWays(c)
         PROVE  FreshInv'
    BY <1>1, <1>4, <2>14, OpenFresh
  <2>15. ASSUME NEW c \in Core, CleanAndInvalidateWay(c) \/ FillWay(c) PROVE FreshInv'
    BY <1>1, <1>4, <2>15, FillWayFresh
  <2>16. ASSUME NEW c \in Core, NEW p \in Page, Miss(c, p) PROVE FreshInv'
    BY <1>2, <1>4, <2>16, MissFresh
  <2>17. CASE UNCHANGED vars
    <3>1. UNCHANGED <<mCacheWays, mLock, pc, job, way, active, at, oscStart, variant, pte, content,
                      stray, step, page, skipPreload>>
      BY <2>17 DEF vars, pageVars, wayVars, hwVars, taskVars
    <3> QED BY <1>2, <1>4, <3>1, NothingFresh DEF FreshTypes, In
  <2> QED
    BY <2>1, <2>2, <2>3, <2>4, <2>5, <2>6, <2>7, <2>8, <2>9, <2>10, <2>11, <2>12, <2>13, <2>14, <2>15,
       <2>16, <2>17 DEF Next
<1> QED BY <1>3, <1>4

LEMMA InitIsFresh == Init => FreshInv
<1> SUFFICES ASSUME Init PROVE FreshInv
  OBVIOUS
<1>1. /\ mCacheWays = [w \in Way |-> [permanentLocked |-> FALSE, dataStart |-> 0,
                         dataEnd |-> 0, osc |-> Nil, lruCount |-> 0, inUse |-> FALSE]]
      /\ pc = [c \in Core |-> IF c = 0 THEN "boot" ELSE "off"]
      /\ step = [c \in Core |-> Nil] /\ page = [c \in Core |-> 0]
      /\ skipPreload = [c \in Core |-> FALSE] /\ content = [w \in Way |-> Nil]
  BY DEF Init
<1>2. FreshTypes BY <1>1 DEF FreshTypes
<1>3. UsedOnly BY <1>1 DEF UsedOnly
<1>4. ASSUME NEW c \in Core PROVE Fresh(c)
  <2>1. pc[c] \in {"boot", "off"} /\ step[c] = Nil BY <1>1
  <2> QED BY <2>1 DEF Fresh, HwInv, EmptyInv, LoadInv, HeldLoaded, Holds, Loading, Evicting, JobIs
<1> QED BY <1>2, <1>3, <1>4 DEF FreshInv

LEMMA FreshInvariance == Spec => [](IInv /\ DataInv /\ LocksInv /\ FreshInv)
<1>1. Init => IInv /\ DataInv /\ LocksInv /\ FreshInv BY InitIsInv, InitIsData, InitIsLocks, InitIsFresh
<1>2. (IInv /\ DataInv /\ LocksInv /\ FreshInv) /\ [Next]_vars
         => (IInv /\ DataInv /\ LocksInv /\ FreshInv)'
  BY StepPreservesInv, StepKeepsData, StepKeepsLocks, StepKeepsFresh
<1> QED BY <1>1, <1>2, PTL DEF Spec

LEMMA CachedByInv == IInv /\ DataInv /\ FreshInv => RunsCachedIfEvicted
<1> SUFFICES ASSUME IInv, DataInv, FreshInv, variant.evictAfterUse, NEW c \in Core, pc[c] = "run",
                    NEW o \in ToSet(active[c]), NEW p \in Parts(o)
             PROVE  Cached(c, o, p)
  BY DEF RunsCachedIfEvicted, RunsCached
<1>1. active[c] \in Seq(Component) BY TaskFacts DEF IInv
<1>2. PICK i \in 1 .. Len(active[c]) : o = active[c][i] BY <1>1 DEF ToSet
<1>3. o \in Component /\ Owned(o) \subseteq Page BY <1>1, <1>2, CacheAssumption
<1>4. p \in Nat \ {0} /\ PartEnd(p, End[o]) \in Nat /\ PartEnd(p, End[o]) > p
  BY <1>3, PartPages
<1>5. Holds(c, i, p) /\ ~Evicting(c) BY <1>2 DEF Holds, Evicting, JobIs
<1>6. PICK w \in Way : mCacheWays[w].dataStart = p BY <1>4, <1>5 DEF IInv, HeldInv, OwnHeld
<1>7. Loaded(w, p, PartEnd(p, End[o])) BY <1>2, <1>5, <1>6 DEF FreshInv, Fresh, HeldLoaded
<1>8. ASSUME Coloring, NEW v \in PagesOf(o, p)
      PROVE  pte[Entry(v)].cacheable /\ Translate(c, v) >= ColorsStart
  <2>1. v \in Page /\ v \in Nat /\ v - p \in 0 .. WayPages - 1 BY <1>3, <1>8, PartPages, WaySize
  <2>2. pte[v].cacheable /\ pte[v].base = ColorPage(w, v - p) BY <1>7, <1>8 DEF Loaded, PagesOf
  <2>3. ColorPage(w, v - p) >= ColorsStart BY <2>1, ColorsApart
  <2>4. Linked /\ TlbInv BY <1>8 DEF DataInv, PageTypes, ColoredInv
  <2>5. Entry(v) = v BY <2>1, <2>4, EntryIs
  <2>6. tlb[c][v] # Nil => tlb[c][v] = pte[v].base BY <1>3, <1>8, <2>4 DEF TlbInv
  <2>7. Translate(c, v) = pte[v].base BY <2>5, <2>6 DEF Translate, PhysicalAddress
  <2> QED BY <2>2, <2>3, <2>5, <2>7
<1>9. CASE Coloring BY <1>8, <1>9 DEF Cached, PagesOf
<1>10. CASE ~Coloring
  <2>1. In(w, p) BY <1>4, <1>7, <1>10 DEF Loaded
  <2> QED BY <1>6, <1>10, <2>1 DEF Cached, In, Labelled
<1> QED BY <1>9, <1>10

(* With CONFIG_CACHE_CONTROL_EVICT_AFTER_USE a trigger runs from the cache *)
(* ways that its components were loaded into, whichever back end loads     *)
(* them (preloadComponent, prefetchDataToWay and evictOSC): of what is     *)
(* loaded nothing is lost but to a core that reached the component while   *)
(* it was not loaded, or that missed while the way was open for the load;  *)
(* no core allocates in a way that nobody has opened.                      *)
THEOREM LoadedIsCached == Spec => []RunsCachedIfEvicted
<1>1. IInv /\ DataInv /\ FreshInv => RunsCachedIfEvicted BY CachedByInv
<1> QED BY <1>1, FreshInvariance, PTL

===============================================================================
