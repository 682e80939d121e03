----------------------------- MODULE QueueProofs -----------------------------
(***************************************************************************)
(* Proofs about Queue, EventPriorityQueue and Scheduler, for any number of *)
(* elements, priorities and cores: the links always are those of a         *)
(* sequence without duplicates, every operation does to it what module     *)
(* List says, and the four scheduling strategies serve a level in order    *)
(* and leave nothing better behind.                                        *)
(***************************************************************************)
EXTENDS Scheduler, SequenceLemmas

(* The links are those of the sequence s. *)
Chain(s) ==
    /\ s \in Seq(Element) /\ pSize = Len(s)
    /\ \A i, j \in 1 .. Len(s) : s[i] = s[j] => i = j
    /\ pHead = IF Len(s) = 0 THEN Nil ELSE s[1]
    /\ pTail = IF Len(s) = 0 THEN Nil ELSE s[Len(s)]
    /\ pNext \in [Element -> Element \cup {Nil}]
    /\ pPrevious \in [Element -> Element \cup {Nil}]
    /\ \A i \in 1 .. Len(s) :
           /\ pNext[s[i]] = IF i = Len(s) THEN Nil ELSE s[i + 1]
           /\ pPrevious[s[i]] = IF i = 1 THEN Nil ELSE s[i - 1]
    /\ \A e \in Element : (\A i \in 1 .. Len(s) : s[i] # e) => pNext[e] = Nil /\ pPrevious[e] = Nil

QInv == \E s : Chain(s)

----------------------------------------------------------------------------
(* The walk along pNext, which Elements is, comes to the elements of s. *)
LEMMA ChainIsElements == \A s : Chain(s) => Elements = s
<1> SUFFICES ASSUME NEW s, Chain(s) PROVE Elements = s
  OBVIOUS
<1> DEFINE path[i \in 1 .. pSize] ==
               IF i = 1 THEN pHead ELSE IF path[i - 1] = Nil THEN Nil ELSE pNext[path[i - 1]]
<1> DEFINE walk(f) ==
               [i \in 1 .. pSize |->
                   IF i = 1 THEN pHead ELSE IF f[i - 1] = Nil THEN Nil ELSE pNext[f[i - 1]]]
<1>1. /\ s \in Seq(Element) /\ pSize = Len(s) /\ Len(s) \in Nat
      /\ s = [i \in 1 .. Len(s) |-> s[i]]
  BY DEF Chain
<1>2. \A i \in 1 .. Len(s) : s[i] \in Element /\ s[i] # Nil
  BY <1>1, NilAssumption
<1>3. s = walk(s)
  <2>1. \A i \in 1 .. Len(s) : s[i] = walk(s)[i]
    <3> SUFFICES ASSUME NEW i \in 1 .. Len(s) PROVE s[i] = walk(s)[i]
      OBVIOUS
    <3>1. CASE i = 1 BY <1>1, <3>1 DEF Chain
    <3>2. CASE i # 1
      <4>1. i - 1 \in 1 .. Len(s) /\ i - 1 # Len(s) /\ (i - 1) + 1 = i BY <1>1, <3>2
      <4>2. s[i - 1] # Nil BY <1>2, <4>1
      <4>3. pNext[s[i - 1]] = s[i]
        <5>1. \A k \in 1 .. Len(s) : pNext[s[k]] = IF k = Len(s) THEN Nil ELSE s[k + 1]
          BY ZenonT(60) DEF Chain
        <5> QED BY <4>1, <5>1
      <4> QED BY <1>1, <3>2, <4>2, <4>3
    <3> QED BY <3>1, <3>2
  <2> QED BY <1>1, <2>1
<1>4. path = walk(path)
  BY <1>3, ZenonT(60) DEF path
<1> HIDE DEF path
<1> DEFINE Same == {n \in Nat : n \in 1 .. Len(s) => path[n] = s[n]}
<1>5. 0 \in Same OBVIOUS
<1>6. ASSUME NEW n \in Same PROVE n + 1 \in Same
  <2> SUFFICES ASSUME n + 1 \in 1 .. Len(s) PROVE path[n + 1] = s[n + 1]
    OBVIOUS
  <2>1. path[n + 1] = walk(path)[n + 1] /\ s[n + 1] = walk(s)[n + 1]
    BY <1>3, <1>4
  <2>2. CASE n = 0 BY <1>1, <2>1, <2>2
  <2>3. CASE n # 0
    <3>1. path[n] = s[n] /\ n = (n + 1) - 1 BY <1>1, <2>3
    <3> QED BY <1>1, <2>1, <3>1
  <2> QED BY <2>2, <2>3
<1> HIDE DEF Same
<1>7. Same = Nat
  BY <1>5, <1>6, Induction DEF Same
<1>8. \A i \in 1 .. Len(s) : path[i] = s[i]
  BY <1>7 DEF Same
<1>9. Elements = [i \in 1 .. pSize |-> path[i]]
  BY DEF Elements, path
<1> QED BY <1>1, <1>8, <1>9

LEMMA ChainFacts ==
    ASSUME NEW s, Chain(s)
    PROVE  /\ Elements = s /\ pSize = Len(s)
           /\ s \in Seq(Element) /\ DOMAIN s = 1 .. Len(s) /\ Len(s) \in Nat
           /\ \A k \in 1 .. Len(s) : s[k] \in Element
           /\ \A k, l \in 1 .. Len(s) : s[k] = s[l] => k = l
<1>1. Elements = s BY ChainIsElements
<1>2. s \in Seq(Element) /\ pSize = Len(s) BY DEF Chain
<1>3. \A k, l \in 1 .. Len(s) : s[k] = s[l] => k = l BY DEF Chain
<1>4. DOMAIN s = 1 .. Len(s) /\ Len(s) \in Nat /\ \A k \in 1 .. Len(s) : s[k] \in Element
  BY <1>2
<1> QED BY <1>1, <1>2, <1>3, <1>4

LEMMA ChainIsElementsNext == \A s : Chain(s)' => Elements' = s
<1>1. (\A s : Chain(s) => Elements = s)'
  BY ChainIsElements, PTL
<1> QED BY <1>1
----------------------------------------------------------------------------
(* The operations on the links *)

LEMMA LinkLastChain ==
    ASSUME NEW s, Chain(s), NEW e \in Element, \A i \in 1 .. Len(s) : s[i] # e, LinkLast(e)
    PROVE  Chain(Append(s, e))'
<1> DEFINE t == Append(s, e)
<1>1. s \in Seq(Element) /\ Len(s) \in Nat /\ pSize = Len(s) /\ e # Nil
      /\ \A i \in 1 .. Len(s) : s[i] \in Element /\ s[i] # Nil
  BY NilAssumption DEF Chain
<1>2. /\ t \in Seq(Element) /\ Len(t) = Len(s) + 1
      /\ \A k \in 1 .. Len(s) + 1 : t[k] = IF k = Len(s) + 1 THEN e ELSE s[k]
  BY <1>1
<1> HIDE DEF t
<1>3. /\ pTail' = e /\ pSize' = pSize + 1 /\ pHead' = IF Len(s) = 0 THEN e ELSE pHead
      /\ pNext' = [x \in Element |-> IF x = e THEN Nil ELSE IF x = pTail THEN e ELSE pNext[x]]
      /\ pPrevious' = [pPrevious EXCEPT ![e] = pTail]
  BY <1>1 DEF LinkLast, Chain
<1>4. pNext' \in [Element -> Element \cup {Nil}] /\ pPrevious' \in [Element -> Element \cup {Nil}]
  BY <1>1, <1>3 DEF Chain
<1>5. \A i, j \in 1 .. Len(t) : t[i] = t[j] => i = j
  BY <1>1, <1>2 DEF Chain
<1>6. ASSUME NEW i \in 1 .. Len(t)
      PROVE  /\ pNext'[t[i]] = IF i = Len(t) THEN Nil ELSE t[i + 1]
             /\ pPrevious'[t[i]] = IF i = 1 THEN Nil ELSE t[i - 1]
  <2>1. CASE i = Len(s) + 1
    BY <1>1, <1>2, <1>3, <2>1 DEF Chain
  <2>2. CASE i \in 1 .. Len(s)
    <3>1. t[i] = s[i] /\ s[i] # e /\ (i # 1 => t[i - 1] = s[i - 1]) BY <1>1, <1>2, <2>2
    <3>2. s[i] = pTail <=> i = Len(s) BY <1>1, <2>2 DEF Chain
    <3>3. pPrevious'[s[i]] = pPrevious[s[i]] BY <1>1, <1>3, <3>1 DEF Chain
    <3>4. pNext'[s[i]] = IF i = Len(s) THEN e ELSE pNext[s[i]] BY <1>1, <1>3, <2>2, <3>1, <3>2
    <3>5. i # Len(t) /\ t[i + 1] = IF i = Len(s) THEN e ELSE s[i + 1] BY <1>1, <1>2, <2>2
    <3>6. /\ pNext[s[i]] = IF i = Len(s) THEN Nil ELSE s[i + 1]
          /\ pPrevious[s[i]] = IF i = 1 THEN Nil ELSE s[i - 1]
      BY <2>2 DEF Chain
    <3>7. pNext'[s[i]] = t[i + 1] BY <3>4, <3>5, <3>6
    <3>8. pPrevious'[s[i]] = IF i = 1 THEN Nil ELSE t[i - 1] BY <3>1, <3>3, <3>6
    <3> QED BY <3>1, <3>5, <3>7, <3>8
  <2> QED BY <1>1, <1>2, <2>1, <2>2
<1>7. ASSUME NEW x \in Element, \A i \in 1 .. Len(t) : t[i] # x
      PROVE  pNext'[x] = Nil /\ pPrevious'[x] = Nil
  <2>1. x # e /\ \A i \in 1 .. Len(s) : s[i] # x BY <1>1, <1>2, <1>7
  <2>2. x # pTail BY <1>1, <2>1, NilAssumption DEF Chain
  <2> QED BY <1>3, <2>1, <2>2 DEF Chain
<1>8. pHead' = t[1] /\ pTail' = t[Len(t)] /\ Len(t) # 0 /\ pSize' = Len(t)
  BY <1>1, <1>2, <1>3 DEF Chain
<1>9. Chain(t)'
  BY <1>2, <1>4, <1>5, <1>6, <1>7, <1>8 DEF Chain
<1> QED BY <1>9 DEF t

LEMMA LinkBeforeChain ==
    ASSUME NEW s, Chain(s), NEW e \in Element, \A j \in 1 .. Len(s) : s[j] # e,
           NEW i \in 1 .. Len(s), LinkBefore(e, s[i])
    PROVE  Chain(InsertAt(s, i, e))'
<1> DEFINE t == InsertAt(s, i, e)
<1>1. s \in Seq(Element) /\ Len(s) \in Nat /\ pSize = Len(s) /\ e # Nil
      /\ \A j \in 1 .. Len(s) : s[j] \in Element /\ s[j] # Nil
  BY NilAssumption DEF Chain
<1>2. /\ t \in Seq(Element) /\ Len(t) = Len(s) + 1
      /\ \A k \in 1 .. Len(s) + 1 :
             t[k] = IF k < i THEN s[k] ELSE IF k = i THEN e ELSE s[k - 1]
  <2>1. s \in Seq(Element) /\ i \in 1 .. Len(s) + 1 BY <1>1
  <2>2. /\ InsertAt(s, i, e) \in Seq(Element) /\ Len(InsertAt(s, i, e)) = Len(s) + 1
        /\ \A k \in 1 .. Len(s) + 1 :
               InsertAt(s, i, e)[k] = IF k < i THEN s[k] ELSE IF k = i THEN e ELSE s[k - 1]
    BY <2>1, InsertAtElements
  <2> QED BY <2>2
<1> HIDE DEF t
<1> DEFINE before == IF i = 1 THEN Nil ELSE s[i - 1]
<1>3. /\ pTail' = pTail /\ pSize' = pSize + 1 /\ pHead' = IF i = 1 THEN e ELSE pHead
      /\ pNext' = [x \in Element |->
             IF x = e THEN s[i] ELSE IF x = before THEN e ELSE pNext[x]]
      /\ pPrevious' = [pPrevious EXCEPT ![e] = before, ![s[i]] = e]
  <2>1. pPrevious[s[i]] = before /\ (before = Nil <=> i = 1) BY <1>1 DEF Chain
  <2> QED BY <2>1 DEF LinkBefore
<1>4. before \in Element \cup {Nil} /\ s[i] \in Element /\ s[i] # e
  BY <1>1
<1>5. pNext' \in [Element -> Element \cup {Nil}] /\ pPrevious' \in [Element -> Element \cup {Nil}]
  BY <1>3, <1>4 DEF Chain
<1>6. \A j, k \in 1 .. Len(t) : t[j] = t[k] => j = k
  <2> SUFFICES ASSUME NEW j \in 1 .. Len(t), NEW k \in 1 .. Len(t), t[j] = t[k] PROVE j = k
    OBVIOUS
  <2> DEFINE old(n) == IF n < i THEN n ELSE n - 1
  <2>1. \A n \in 1 .. Len(t) : n # i => old(n) \in 1 .. Len(s) /\ t[n] = s[old(n)] /\ t[n] # e
    BY <1>1, <1>2
  <2>2. t[i] = e BY <1>1, <1>2
  <2>3. CASE j = i \/ k = i BY <2>1, <2>2, <2>3
  <2>4. CASE j # i /\ k # i
    <3>1. old(j) = old(k) BY <2>1, <2>4 DEF Chain
    <3> QED BY <2>4, <3>1
  <2> QED BY <2>3, <2>4
<1>7. ASSUME NEW k \in 1 .. Len(t)
      PROVE  /\ pNext'[t[k]] = IF k = Len(t) THEN Nil ELSE t[k + 1]
             /\ pPrevious'[t[k]] = IF k = 1 THEN Nil ELSE t[k - 1]
  <2>1. CASE k = i
    BY <1>1, <1>2, <1>3, <1>4, <2>1 DEF Chain
  <2>2. CASE k < i
    <3>1. k \in 1 .. Len(s) /\ k # Len(s) /\ t[k] = s[k] /\ s[k] # e /\ s[k] # s[i]
          /\ (k # 1 => t[k - 1] = s[k - 1])
      BY <1>1, <1>2, <2>2 DEF Chain
    <3>2. s[k] = before <=> k = i - 1
      BY <1>1, <2>2, <3>1 DEF Chain
    <3>3. pNext'[s[k]] = IF k = i - 1 THEN e ELSE s[k + 1]
      BY <1>1, <1>3, <3>1, <3>2 DEF Chain
    <3>4. pPrevious'[s[k]] = pPrevious[s[k]]
      BY <1>1, <1>3, <3>1 DEF Chain
    <3>5. t[k + 1] = IF k = i - 1 THEN e ELSE s[k + 1]
      BY <1>1, <1>2, <2>2
    <3>6. k # Len(t) BY <1>1, <1>2, <3>1
    <3>7. pPrevious[s[k]] = IF k = 1 THEN Nil ELSE s[k - 1]
      BY <3>1 DEF Chain
    <3> QED BY <3>1, <3>3, <3>4, <3>5, <3>6, <3>7
  <2>3. CASE k > i
    <3>0. /\ k \in 1 .. Len(s) + 1 /\ k - 1 \in 1 .. Len(s) /\ k - 1 >= i /\ (k - 1) + 1 = k
          /\ k # Len(s) + 1 => k + 1 \in 1 .. Len(s) + 1 /\ (k + 1) - 1 = k
          /\ k = Len(s) + 1 <=> k - 1 = Len(s)
          /\ Len(t) = Len(s) + 1
      <4> DEFINE n == Len(s)
      <4>1. n \in Nat /\ k \in 1 .. n + 1 /\ i \in 1 .. n /\ k > i /\ Len(t) = n + 1
        BY <1>1, <1>2, <2>3
      <4> HIDE DEF n
      <4>2. /\ k \in 1 .. n + 1 /\ k - 1 \in 1 .. n /\ k - 1 >= i /\ (k - 1) + 1 = k
            /\ k # n + 1 => k + 1 \in 1 .. n + 1 /\ (k + 1) - 1 = k
            /\ k = n + 1 <=> k - 1 = n
        BY <4>1
      <4> QED BY <4>1, <4>2 DEF n
    <3>1. t[k] = s[k - 1] /\ s[k - 1] # e
      BY <1>2, <2>3, <3>0
    <3>2. s[k - 1] # before
      <4>1. i # 1 => i - 1 \in 1 .. Len(s) /\ i - 1 # k - 1 BY <1>1, <2>3
      <4> QED BY <1>1, <3>0, <4>1 DEF Chain
    <3>3. pNext'[s[k - 1]] = IF k - 1 = Len(s) THEN Nil ELSE s[k]
      BY <1>1, <1>3, <3>0, <3>1, <3>2 DEF Chain
    <3>4. k # Len(t) => t[k + 1] = s[k]
      <4>1. k # Len(t) => ~(k + 1 < i) /\ k + 1 # i BY <2>3, <3>0
      <4> QED BY <1>2, <3>0, <4>1
    <3>5. k = Len(t) <=> k - 1 = Len(s)
      BY <3>0
    <3>6. CASE k = i + 1
      <4>1. s[k - 1] = s[i] /\ t[k - 1] = e /\ k # 1 BY <1>1, <1>2, <3>6
      <4>2. pPrevious'[s[i]] = e BY <1>3, <1>4 DEF Chain
      <4> QED BY <3>1, <3>3, <3>4, <3>5, <4>1, <4>2
    <3>7. CASE k > i + 1
      <4>1. t[k - 1] = s[k - 2] /\ k # 1 /\ k - 1 # 1 BY <1>1, <1>2, <3>7
      <4>2. s[k - 1] # s[i]
        <5>1. k - 1 # i BY <3>7
        <5> QED BY <3>0, <5>1 DEF Chain
      <4>3. pPrevious'[s[k - 1]] = pPrevious[s[k - 1]] BY <1>1, <1>3, <3>0, <3>1, <4>2 DEF Chain
      <4>4. pPrevious[s[k - 1]] = s[(k - 1) - 1] BY <3>0, <4>1 DEF Chain
      <4>5. (k - 1) - 1 = k - 2 OBVIOUS
      <4> QED BY <3>1, <3>3, <3>4, <3>5, <4>1, <4>3, <4>4, <4>5
    <3> QED BY <2>3, <3>6, <3>7
  <2> QED BY <2>1, <2>2, <2>3
<1>8. ASSUME NEW x \in Element, \A k \in 1 .. Len(t) : t[k] # x
      PROVE  pNext'[x] = Nil /\ pPrevious'[x] = Nil
  <2>1. x # e
    <3>1. i \in 1 .. Len(t) /\ t[i] = e BY <1>1, <1>2
    <3> QED BY <3>1, <1>8
  <2>2. ASSUME NEW j \in 1 .. Len(s) PROVE s[j] # x
    <3> DEFINE k == IF j < i THEN j ELSE j + 1
    <3>1. k \in 1 .. Len(t) /\ t[k] = s[j] BY <1>1, <1>2
    <3> QED BY <3>1, <1>8
  <2>3. x # before /\ x # s[i] BY <1>1, <2>2, NilAssumption
  <2>4. pNext'[x] = pNext[x] /\ pPrevious'[x] = pPrevious[x]
    BY <1>3, <2>1, <2>3 DEF Chain
  <2> QED BY <2>2, <2>4 DEF Chain
<1>9. pHead' = t[1] /\ pTail' = t[Len(t)] /\ Len(t) # 0 /\ pSize' = Len(t)
  BY <1>1, <1>2, <1>3 DEF Chain
<1>10. Chain(t)'
  BY <1>2, <1>5, <1>6, <1>7, <1>8, <1>9 DEF Chain
<1> QED BY <1>10 DEF t

LEMMA UnlinkChain ==
    ASSUME NEW s, Chain(s), NEW i \in 1 .. Len(s), Unlink(s[i])
    PROVE  Chain(RemoveAt(s, i))'
<1> DEFINE t == RemoveAt(s, i)
           n == Len(s)
           e == s[i]
           before == IF i = 1 THEN Nil ELSE s[i - 1]
           after == IF i = n THEN Nil ELSE s[i + 1]
<1>1. /\ s \in Seq(Element) /\ n \in Nat /\ pSize = n /\ i \in 1 .. n
      /\ \A j \in 1 .. n : s[j] \in Element /\ s[j] # Nil
  BY NilAssumption DEF Chain
<1>2. /\ t \in Seq(Element) /\ Len(t) = n - 1
      /\ \A k \in 1 .. n - 1 : t[k] = IF k < i THEN s[k] ELSE s[k + 1]
  BY <1>1, RemoveAtElements
<1>3. /\ pHead' = IF i = 1 THEN after ELSE pHead
      /\ pTail' = IF i = n THEN before ELSE pTail
      /\ pNext' = [x \in Element |->
             IF x = e THEN Nil ELSE IF x = before THEN after ELSE pNext[x]]
      /\ pPrevious' = [x \in Element |->
             IF x = e THEN Nil ELSE IF x = after THEN before ELSE pPrevious[x]]
      /\ pSize' = n - 1
  <2>1. pPrevious[e] = before /\ pNext[e] = after BY <1>1 DEF Chain
  <2>2. pHead = e <=> i = 1 BY <1>1 DEF Chain
  <2>3. pTail = e <=> i = n BY <1>1 DEF Chain
  <2> QED BY <1>1, <2>1, <2>2, <2>3 DEF Unlink
<1>4. before \in Element \cup {Nil} /\ after \in Element \cup {Nil} /\ e \in Element
  BY <1>1
<1>5. pNext' \in [Element -> Element \cup {Nil}] /\ pPrevious' \in [Element -> Element \cup {Nil}]
  BY <1>3, <1>4 DEF Chain
<1>6. \A j, k \in 1 .. n : s[j] = s[k] => j = k
  BY DEF Chain
<1>7. \A j \in 1 .. n : /\ s[j] = e <=> j = i
                        /\ s[j] = before <=> j = i - 1
                        /\ s[j] = after <=> j = i + 1
  <2> SUFFICES ASSUME NEW j \in 1 .. n
               PROVE  /\ s[j] = e <=> j = i
                      /\ s[j] = before <=> j = i - 1
                      /\ s[j] = after <=> j = i + 1
    OBVIOUS
  <2>1. s[j] = e <=> j = i BY <1>1, <1>6
  <2>2. s[j] = before <=> j = i - 1 BY <1>1, <1>6
  <2>3. s[j] = after <=> j = i + 1 BY <1>1, <1>6
  <2> QED BY <2>1, <2>2, <2>3
<1>8. \A j \in 1 .. n : j # i =>
          /\ pNext'[s[j]] = IF j = i - 1 THEN after ELSE pNext[s[j]]
          /\ pPrevious'[s[j]] = IF j = i + 1 THEN before ELSE pPrevious[s[j]]
  BY <1>1, <1>3, <1>7
<1>9. \A j \in 1 .. n : /\ pNext[s[j]] = IF j = n THEN Nil ELSE s[j + 1]
                        /\ pPrevious[s[j]] = IF j = 1 THEN Nil ELSE s[j - 1]
  BY DEF Chain
<1> HIDE DEF t
<1> DEFINE old(k) == IF k < i THEN k ELSE k + 1
<1>10. \A k \in 1 .. n - 1 : old(k) \in 1 .. n /\ old(k) # i /\ t[k] = s[old(k)]
  BY <1>1, <1>2
<1>11. \A j, k \in 1 .. Len(t) : t[j] = t[k] => j = k
  <2> SUFFICES ASSUME NEW j \in 1 .. n - 1, NEW k \in 1 .. n - 1, t[j] = t[k] PROVE j = k
    BY <1>2
  <2>1. old(j) = old(k) BY <1>6, <1>10
  <2> QED BY <1>1, <2>1
<1>12. ASSUME NEW k \in 1 .. n - 1
       PROVE  /\ pNext'[t[k]] = IF k = n - 1 THEN Nil ELSE t[k + 1]
              /\ pPrevious'[t[k]] = IF k = 1 THEN Nil ELSE t[k - 1]
  <2> HIDE DEF n, e
  <2>1. /\ old(k) \in 1 .. n /\ old(k) # i /\ t[k] = s[old(k)]
        /\ k # n - 1 => k + 1 \in 1 .. n - 1 /\ t[k + 1] = s[old(k + 1)]
        /\ k # 1 => k - 1 \in 1 .. n - 1 /\ t[k - 1] = s[old(k - 1)]
    <3>1. k # n - 1 => k + 1 \in 1 .. n - 1 BY <1>1
    <3>2. k # 1 => k - 1 \in 1 .. n - 1 BY <1>1
    <3> QED BY <1>10, <3>1, <3>2
  <2>2. pNext'[s[old(k)]] = IF k = n - 1 THEN Nil ELSE s[old(k + 1)]
    <3>1. CASE k < i - 1
      <4>1. old(k) = k /\ k # n /\ k # n - 1 /\ old(k + 1) = k + 1 /\ k # i - 1 BY <1>1, <3>1
      <4> QED BY <1>8, <1>9, <2>1, <4>1
    <3>2. CASE k = i - 1
      <4>1. old(k) = k /\ (k = n - 1 <=> i = n) /\ old(k + 1) = i + 1 BY <1>1, <3>2
      <4> QED BY <1>8, <2>1, <3>2, <4>1
    <3>3. CASE k >= i
      <4>1. /\ old(k) = k + 1 /\ (k = n - 1 <=> k + 1 = n) /\ old(k + 1) = (k + 1) + 1
            /\ k + 1 # i - 1
        BY <1>1, <3>3
      <4> QED BY <1>8, <1>9, <2>1, <4>1
    <3> QED BY <1>1, <3>1, <3>2, <3>3
  <2>3. pPrevious'[s[old(k)]] = IF k = 1 THEN Nil ELSE s[old(k - 1)]
    <3>1. CASE k < i
      <4>1. old(k) = k /\ (k # 1 => old(k - 1) = k - 1) /\ k # i + 1 BY <1>1, <3>1
      <4> QED BY <1>8, <1>9, <2>1, <4>1
    <3>2. CASE k = i
      <4>1. old(k) = i + 1 /\ (k # 1 => old(k - 1) = i - 1) BY <1>1, <3>2
      <4> QED BY <1>8, <2>1, <3>2, <4>1
    <3>3. CASE k > i
      <4>1. old(k) = k + 1 /\ k # 1 /\ old(k - 1) = k /\ (k + 1) - 1 = k /\ k + 1 # i + 1
            /\ k + 1 # 1
        BY <1>1, <3>3
      <4> QED BY <1>8, <1>9, <2>1, <4>1
    <3> QED BY <1>1, <3>1, <3>2, <3>3
  <2> QED BY <2>1, <2>2, <2>3
<1>13. ASSUME NEW x \in Element, \A k \in 1 .. Len(t) : t[k] # x
       PROVE  pNext'[x] = Nil /\ pPrevious'[x] = Nil
  <2>1. CASE x = e BY <1>3, <2>1
  <2>2. CASE x # e
    <3>1. ASSUME NEW j \in 1 .. n PROVE s[j] # x
      <4> DEFINE k == IF j < i THEN j ELSE j - 1
      <4>1. j # i => k \in 1 .. n - 1 /\ t[k] = s[j] BY <1>1, <1>2
      <4> QED BY <1>2, <1>13, <2>2, <4>1
    <3>2. x # before /\ x # after BY <1>1, <3>1, NilAssumption
    <3>3. pNext'[x] = pNext[x] /\ pPrevious'[x] = pPrevious[x] BY <1>3, <2>2, <3>2
    <3> QED BY <3>1, <3>3 DEF Chain
  <2> QED BY <2>1, <2>2
<1>14. /\ pHead' = IF Len(t) = 0 THEN Nil ELSE t[1]
       /\ pTail' = IF Len(t) = 0 THEN Nil ELSE t[Len(t)]
       /\ pSize' = Len(t)
  BY <1>1, <1>2, <1>3 DEF Chain
<1>15. Chain(t)'
  BY <1>2, <1>5, <1>11, <1>12, <1>13, <1>14 DEF Chain
<1> QED BY <1>15 DEF t

LEMMA EmptyChain ==
    ASSUME pHead = Nil, pTail = Nil, pSize = 0,
           pNext = [e \in Element |-> Nil], pPrevious = [e \in Element |-> Nil]
    PROVE  Chain(<<>>)
BY DEF Chain

LEMMA UnchangedChain ==
    ASSUME NEW s, Chain(s), UNCHANGED linkVars
    PROVE  Chain(s)'
BY DEF Chain, linkVars

(* The first element leaves as any other, except that nothing links to it. *)
LEMMA FirstChain ==
    ASSUME NEW s, Chain(s), pHead # Nil, DequeueFirst
    PROVE  /\ Len(s) # 0 /\ pHead = s[1]
           /\ Chain(Tail(s))'
<1>1. s \in Seq(Element) /\ Len(s) \in Nat /\ Len(s) # 0 /\ pHead = s[1] /\ 1 \in 1 .. Len(s)
      /\ s[1] \in Element /\ \A j \in 1 .. Len(s) : s[j] # Nil
  BY NilAssumption DEF Chain
<1>2. pPrevious[s[1]] = Nil /\ pNext[s[1]] = (IF Len(s) = 1 THEN Nil ELSE s[2])
      /\ (pHead = pTail <=> Len(s) = 1)
  BY <1>1 DEF Chain
<1>3. pNext \in [Element -> Element \cup {Nil}] /\ pPrevious \in [Element -> Element \cup {Nil}]
  BY DEF Chain
<1>4. Unlink(s[1])
  <2>1. CASE Len(s) = 1
    BY <1>1, <1>2, <1>3, <2>1, NilAssumption DEF DequeueFirst, Unlink
  <2>2. CASE Len(s) # 1
    <3>1. s[2] \in Element /\ s[2] # s[1] BY <1>1, <2>2 DEF Chain
    <3> QED BY <1>1, <1>2, <1>3, <2>2, <3>1, NilAssumption DEF DequeueFirst, Unlink
  <2> QED BY <2>1, <2>2
<1>5. Chain(RemoveAt(s, 1))'
  BY <1>1, <1>4, UnlinkChain
<1>6. RemoveAt(s, 1) = Tail(s)
  <2>1. /\ RemoveAt(s, 1) \in Seq(Element) /\ Len(RemoveAt(s, 1)) = Len(s) - 1
        /\ \A k \in 1 .. Len(s) - 1 : RemoveAt(s, 1)[k] = s[k + 1]
    BY <1>1, RemoveAtElements
  <2>2. /\ Tail(s) \in Seq(Element) /\ Len(Tail(s)) = Len(s) - 1
        /\ \A k \in 1 .. Len(s) - 1 : Tail(s)[k] = s[k + 1]
    BY <1>1
  <2> HIDE DEF Chain
  <2> QED BY <2>1, <2>2, SeqEqual
<1> QED BY <1>1, <1>5, <1>6

----------------------------------------------------------------------------
(* Each operation is one of List. *)

(* Operators on sequences are the same in all instances. *)
LEMMA SameOperators ==
    ASSUME NEW s, NEW i, NEW e
    PROVE  /\ Sequence!Contains(s, e) <=> Contains(s, e)
           /\ Sequence!RemoveAt(s, i) = RemoveAt(s, i)
           /\ Sequence!InsertAt(s, i, e) = InsertAt(s, i, e)
BY DEF Sequence!Contains, Contains, Sequence!RemoveAt, RemoveAt, Sequence!InsertAt, InsertAt

LEMMA ListedIn ==
    ASSUME NEW s, Chain(s), NEW e
    PROVE  Listed(e) <=> \E i \in 1 .. Len(s) : s[i] = e
BY ChainIsElements DEF Listed, Contains

LEMMA QueueSteps ==
    ASSUME NEW s, Chain(s), QueueNext
    PROVE  QInv' /\ Sequence!Next
<1>1. Elements = s /\ s \in Seq(Element) /\ DOMAIN s = 1 .. Len(s) /\ Len(s) \in Nat
      /\ pSize = Len(s)
  BY ChainFacts
<1>2. ASSUME NEW t, Chain(t)' PROVE QInv' /\ Elements' = t
  BY <1>2, ChainIsElementsNext DEF QInv
<1>3. ASSUME NEW e \in Element, EnqueueNew(e) PROVE QInv' /\ Sequence!Next
  <2>1. Chain(Append(s, e))' BY <1>3, ListedIn, LinkLastChain DEF EnqueueNew
  <2>2. Sequence!Enqueue(e)
    BY <1>1, <1>2, <1>3, <2>1 DEF EnqueueNew, Listed, Sequence!Enqueue, Sequence!Contains, Contains
  <2> QED BY <1>2, <2>1, <2>2 DEF Sequence!Next
<1>4. ASSUME NEW e \in Element, EnqueueAgain(e) PROVE QInv' /\ Sequence!Next
  <2>1. Chain(s)' BY <1>4, UnchangedChain DEF EnqueueAgain
  <2>2. Sequence!Enqueue(e)
    BY <1>1, <1>2, <1>4, <2>1 DEF EnqueueAgain, Listed, Sequence!Enqueue, Sequence!Contains, Contains
  <2> QED BY <1>2, <2>1, <2>2 DEF Sequence!Next
<1>5. ASSUME NEW e \in Element, RemoveElement(e) PROVE QInv' /\ Sequence!Next
  <2>1. CASE Listed(e)
    <3> PICK i \in 1 .. Len(s) : s[i] = e BY <2>1, ListedIn
    <3>1. Chain(RemoveAt(s, i))' BY <1>5, <2>1, UnlinkChain DEF RemoveElement
    <3>2. i \in DOMAIN Elements /\ Elements[i] = e /\ Elements' = RemoveAt(Elements, i)
      BY <1>1, <1>2, <3>1
    <3>3. Contains(Elements, e) /\ ret' = <<"remove", e>>
      BY <1>5, <2>1 DEF RemoveElement, Listed
    <3>4. Sequence!RemoveElement(e)
      BY <3>2, <3>3, SameOperators DEF Sequence!RemoveElement
    <3> QED BY <1>2, <3>1, <3>4 DEF Sequence!Next
  <2>2. CASE ~Listed(e)
    <3>1. Chain(s)' BY <1>5, <2>2, UnchangedChain DEF RemoveElement
    <3>2. Sequence!RemoveElement(e)
      BY <1>1, <1>2, <1>5, <2>2, <3>1
         DEF RemoveElement, Listed, Sequence!RemoveElement, Sequence!Contains, Contains
    <3> QED BY <1>2, <3>1, <3>2 DEF Sequence!Next
  <2> QED BY <2>1, <2>2
<1>6. ASSUME NEW e \in Element, NEW before \in Element, EnqueueBefore(e, before)
      PROVE  QInv' /\ Sequence!Next
  <2> PICK i \in 1 .. Len(s) : s[i] = before BY <1>6, ListedIn DEF EnqueueBefore
  <2>1. Chain(InsertAt(s, i, e))' BY <1>6, ListedIn, LinkBeforeChain DEF EnqueueBefore
  <2>2. i \in DOMAIN Elements /\ Elements[i] = before /\ Elements' = InsertAt(Elements, i, e)
    BY <1>1, <1>2, <2>1
  <2>3. ~Contains(Elements, e) /\ ret' = <<"enqueueBefore", e>>
    BY <1>6 DEF EnqueueBefore, Listed
  <2>4. Sequence!EnqueueBefore(e, before)
    BY <2>2, <2>3, SameOperators DEF Sequence!EnqueueBefore
  <2> QED BY <1>2, <2>1, <2>4 DEF Sequence!Next
<1>7. ASSUME NEW pos \in 0 .. Cardinality(Element), DequeueAt(pos)
      PROVE  QInv' /\ Sequence!Next
  <2>1. CASE pos >= pSize
    <3>1. Chain(s)' BY <1>7, <2>1, UnchangedChain DEF DequeueAt
    <3>2. Sequence!DequeueBehindEnd
      BY <1>1, <1>2, <1>7, <2>1, <3>1 DEF DequeueAt, Sequence!DequeueBehindEnd
    <3> QED BY <1>2, <3>1, <3>2 DEF Sequence!Next
  <2>2. CASE ~(pos >= pSize)
    <3>1. pos + 1 \in 1 .. Len(s) BY <1>1, <2>2
    <3>2. Chain(RemoveAt(s, pos + 1))' BY <1>1, <1>7, <2>2, <3>1, UnlinkChain DEF DequeueAt
    <3>3. Sequence!DequeueAt(pos + 1)
      BY <1>1, <1>2, <1>7, <2>2, <3>2
         DEF DequeueAt, Sequence!DequeueAt, Sequence!RemoveAt, RemoveAt
    <3> QED BY <1>1, <1>2, <3>1, <3>2, <3>3 DEF Sequence!Next
  <2> QED BY <2>1, <2>2
<1>8. ASSUME DequeueFirst PROVE QInv' /\ Sequence!Next
  <2>1. CASE pHead = Nil
    <3>1. Len(s) = 0 /\ s = <<>> BY <1>1, <2>1, NilAssumption DEF Chain
    <3>2. Chain(s)' BY <1>8, <2>1, UnchangedChain DEF DequeueFirst
    <3>3. Sequence!DequeueFirst
      BY <1>1, <1>2, <1>8, <2>1, <3>1, <3>2 DEF DequeueFirst, Sequence!DequeueFirst
    <3> QED BY <1>2, <3>2, <3>3 DEF Sequence!Next
  <2>2. CASE pHead # Nil
    <3>1. Len(s) # 0 /\ pHead = s[1] /\ Chain(Tail(s))' BY <1>8, <2>2, FirstChain
    <3>2. ret' = <<"dequeueFirst", Head(s)>> BY <1>1, <1>8, <3>1 DEF DequeueFirst
    <3>3. Elements' = Tail(s) /\ QInv' BY <1>2, <3>1
    <3>4. s # <<>> BY <1>1, <3>1
    <3>5. Sequence!DequeueFirst
      BY <1>1, <3>2, <3>3, <3>4 DEF Sequence!DequeueFirst
    <3> QED BY <3>3, <3>5 DEF Sequence!Next
  <2> QED BY <2>1, <2>2
<1>9. ASSUME ClearList PROVE QInv' /\ Sequence!Next
  <2>1. Chain(<<>>)'
    <3>1. \A e \in Element : ~Listed(e) => pNext[e] = Nil /\ pPrevious[e] = Nil
      <4>1. \A e \in Element : (\A i \in 1 .. Len(s) : s[i] # e) =>
                pNext[e] = Nil /\ pPrevious[e] = Nil
        BY <1>1, Zenon DEF Chain
      <4>2. \A e : ~Listed(e) => \A i \in 1 .. Len(s) : s[i] # e
        BY <1>1, ListedIn, Zenon
      <4> QED BY <4>1, <4>2, Zenon
    <3>2. /\ pHead' = Nil /\ pTail' = Nil /\ pSize' = 0
          /\ pNext' = [e \in Element |-> Nil] /\ pPrevious' = [e \in Element |-> Nil]
      BY <1>9, <3>1 DEF ClearList
    <3> QED BY <3>2, NilAssumption DEF Chain
  <2>2. Sequence!Clear
    BY <1>2, <1>9, <2>1 DEF ClearList, Sequence!Clear
  <2> QED BY <1>2, <2>1, <2>2 DEF Sequence!Next
<1> QED BY <1>3, <1>4, <1>5, <1>6, <1>7, <1>8, <1>9 DEF QueueNext

(* The operations of the priority queue find their place by a search. *)
LEMMA PrioritySteps ==
    ASSUME NEW s, Chain(s), PriorityNext
    PROVE  QInv' /\ Sequence!Next
<1>1. Elements = s /\ s \in Seq(Element) /\ DOMAIN s = 1 .. Len(s) /\ Len(s) \in Nat
      /\ pSize = Len(s)
  BY ChainFacts
<1>2. ASSUME NEW S \in SUBSET (1 .. pSize), S # {}
      PROVE  (CHOOSE i \in S : \A j \in S : i <= j) \in S
  <2>1. S \in SUBSET Nat BY <1>1
  <2>2. \E m \in S : \A k \in S : m <= k BY <1>2, <2>1, LeastNumber
  <2> QED BY <2>2
<1>3. ASSUME NEW e \in Element, NEW p \in PriorityLevel, Enqueue(e, p)
      PROVE  QInv' /\ Sequence!Next
  <2>1. CASE Lower(p) = {}
    <3>1. EnqueueNew(e) BY <1>3, <2>1 DEF Enqueue, EnqueueNew
    <3> QED BY <3>1, QueueSteps DEF QueueNext
  <2>2. CASE Lower(p) # {}
    <3> DEFINE i == CHOOSE i \in Lower(p) : \A j \in Lower(p) : i <= j
    <3>1. i \in 1 .. pSize BY <1>2, <2>2 DEF Lower
    <3>2. s[i] \in Element /\ Listed(s[i]) BY <1>1, <3>1, ListedIn
    <3>3. EnqueueBefore(e, s[i])
      BY <1>1, <1>3, <2>2, <3>2 DEF Enqueue, EnqueueBefore
    <3> QED BY <3>2, <3>3, QueueSteps DEF QueueNext
  <2> QED BY <2>1, <2>2
<1>4. ASSUME NEW free \in SUBSET Element, DequeueHighestPriority(free)
      PROVE  QInv' /\ Sequence!Next
  <2> DEFINE candidates == {i \in Tried : Elements[i] \in free}
  <2>1. CASE candidates = {}
    <3>1. UNCHANGED linkVars /\ ret' = <<"dequeue", Nil>>
      BY <1>4, <2>1 DEF DequeueHighestPriority
    <3>2. Chain(s)' BY <3>1, UnchangedChain
    <3>3. Elements' = Elements BY <1>1, <3>2, ChainIsElementsNext
    <3> QED BY <3>1, <3>2, <3>3 DEF QInv, Sequence!Next, Sequence!DequeueBehindEnd
  <2>2. CASE candidates # {}
    <3> DEFINE i == CHOOSE i \in candidates : \A j \in candidates : i <= j
    <3>1. i \in 1 .. pSize BY <1>2, <2>2 DEF Tried
    <3>2. s[i] \in Element /\ Listed(s[i]) BY <1>1, <3>1, ListedIn
    <3>3. RemoveElement(s[i])
      BY <1>1, <1>4, <2>2, <3>2 DEF DequeueHighestPriority, RemoveElement
    <3> QED BY <3>2, <3>3, QueueSteps DEF QueueNext
  <2> QED BY <2>1, <2>2
<1> QED BY <1>3, <1>4 DEF PriorityNext

LEMMA QueueInductive ==
    ASSUME QInv, [QueuesNext]_<<vars, schedulerVars>>
    PROVE  QInv' /\ [Sequence!Next]_(Sequence!vars)
<1> PICK s : Chain(s) BY DEF QInv
<1>1. CASE UNCHANGED vars
  <2>1. Chain(s)' /\ ret' = ret BY <1>1, UnchangedChain DEF vars, queueVars
  <2>2. Elements' = Elements BY <2>1, ChainIsElements, ChainIsElementsNext
  <2> QED BY <2>1, <2>2 DEF QInv, Sequence!vars
<1>2. CASE Next
  BY <1>2, QueueSteps, PrioritySteps DEF Next
<1> QED BY <1>1, <1>2 DEF QueuesNext

LEMMA QueueInit0 == QueuesInit => QInv /\ Sequence!Init
<1> SUFFICES ASSUME QueuesInit PROVE QInv /\ Sequence!Init
  OBVIOUS
<1>1. Chain(<<>>) BY EmptyChain DEF QueuesInit, Init, QueueInit
<1>2. Elements = <<>> BY <1>1, ChainIsElements
<1> QED BY <1>1, <1>2 DEF QInv, Sequence!Init, QueuesInit, Init, QueueInit

LEMMA QueueInvariant == QueuesSpec => []QInv
<1>1. QInv /\ [QueuesNext]_<<vars, schedulerVars>> => QInv' BY QueueInductive
<1> QED BY <1>1, QueueInit0, PTL DEF QueuesSpec

(* Queue: after any sequence of calls the links in both directions, the    *)
(* head, the tail and the size agree, and an element that is in no list    *)
(* has no links; for any number of elements.                               *)
THEOREM LinksCorrect == QueuesSpec => []LinksAgree
<1>1. QInv => LinksAgree
  <2> SUFFICES ASSUME NEW s, Chain(s) PROVE LinksAgree
    BY DEF QInv
  <2>1. Elements = s /\ pSize = Len(s) /\ Len(s) \in Nat
        /\ \A i \in 1 .. Len(s) : s[i] \in Element /\ s[i] # Nil
    BY ChainIsElements, NilAssumption DEF Chain
  <2>2. \A e : Listed(e) <=> \E i \in 1 .. Len(s) : s[i] = e BY ListedIn
  <2> QED BY <2>1, <2>2 DEF Chain, LinksAgree
<1> QED BY <1>1, QueueInvariant, PTL

(* Queue, EventPriorityQueue: a linked list is the sequence that its users *)
(* take it for, with the answers of every call.                            *)
THEOREM QueueIsList == QueuesSpec => ImplementsList
<1>1. QInv /\ [QueuesNext]_<<vars, schedulerVars>> => [Sequence!Next]_(Sequence!vars)
  BY QueueInductive
<1> QED BY <1>1, QueueInit0, QueueInvariant, PTL DEF QueuesSpec, ImplementsList, Sequence!Spec
----------------------------------------------------------------------------
(* What enqueue and dequeueHighestPriority do to the sequence.             *)
Ranked(s) ==
    /\ \A k \in 1 .. Len(s) : pPriority[s[k]] \in PriorityLevel
    /\ \A k, l \in 1 .. Len(s) : k < l => pPriority[s[k]] >= pPriority[s[l]]

Inserted(s, i, e, t) ==
    /\ Len(t) = Len(s) + 1
    /\ \A k \in 1 .. Len(s) + 1 : t[k] = IF k < i THEN s[k] ELSE IF k = i THEN e ELSE s[k - 1]

Removed(s, i, t) ==
    /\ Len(t) = Len(s) - 1
    /\ \A k \in 1 .. Len(s) - 1 : t[k] = IF k < i THEN s[k] ELSE s[k + 1]

LEMMA EnqueueIs ==
    ASSUME NEW s, Chain(s), NEW e \in Element, NEW p \in PriorityLevel, Enqueue(e, p)
    PROVE  /\ \A k \in 1 .. Len(s) : s[k] # e
           /\ \E t, i : /\ i \in 1 .. Len(s) + 1 /\ Inserted(s, i, e, t) /\ Chain(t)'
                        /\ \A k \in 1 .. i - 1 : ~(pPriority[s[k]] < p)
                        /\ i <= Len(s) => pPriority[s[i]] < p
<1>1. Elements = s /\ s \in Seq(Element) /\ Len(s) \in Nat /\ pSize = Len(s)
  BY ChainFacts
<1>2. \A k \in 1 .. Len(s) : s[k] # e BY ListedIn DEF Enqueue
<1>3. Lower(p) = {k \in 1 .. Len(s) : pPriority[s[k]] < p} BY <1>1 DEF Lower
<1>4. CASE Lower(p) = {}
  <2>1. Chain(Append(s, e))' BY <1>2, <1>4, LinkLastChain DEF Enqueue
  <2>2. Inserted(s, Len(s) + 1, e, Append(s, e)) BY <1>1 DEF Inserted
  <2>3. \A k \in 1 .. (Len(s) + 1) - 1 : ~(pPriority[s[k]] < p) BY <1>1, <1>3, <1>4
  <2>4. Len(s) + 1 \in 1 .. Len(s) + 1 /\ ~(Len(s) + 1 <= Len(s)) BY <1>1
  <2> QED BY <1>2, <2>1, <2>2, <2>3, <2>4
<1>5. CASE Lower(p) # {}
  <2>1. Lower(p) \in SUBSET Nat BY <1>1, <1>3
  <2>2. \E m \in Lower(p) : \A k \in Lower(p) : m <= k BY <1>5, <2>1, LeastNumber
  <2>3. PICK i : i = CHOOSE m \in Lower(p) : \A j \in Lower(p) : m <= j OBVIOUS
  <2>4. i \in Lower(p) /\ \A j \in Lower(p) : i <= j BY <2>2, <2>3
  <2>5. i \in 1 .. Len(s) /\ pPriority[s[i]] < p BY <1>3, <2>4
  <2>6. LinkBefore(e, s[i]) BY <1>1, <1>5, <2>3 DEF Enqueue
  <2>7. Chain(InsertAt(s, i, e))' BY <1>2, <2>5, <2>6, LinkBeforeChain
  <2>8. i \in 1 .. Len(s) + 1 BY <1>1, <2>5
  <2>9. Inserted(s, i, e, InsertAt(s, i, e))
    <3>1. s \in Seq(Element) /\ i \in 1 .. Len(s) + 1 BY <1>1, <2>8
    <3>2. /\ InsertAt(s, i, e) \in Seq(Element) /\ Len(InsertAt(s, i, e)) = Len(s) + 1
          /\ \A k \in 1 .. Len(s) + 1 :
                InsertAt(s, i, e)[k] = IF k < i THEN s[k] ELSE IF k = i THEN e ELSE s[k - 1]
      BY <3>1, InsertAtElements
    <3> QED BY <3>2 DEF Inserted
  <2>10. \A k \in 1 .. i - 1 : ~(pPriority[s[k]] < p)
    <3> SUFFICES ASSUME NEW k \in 1 .. i - 1, pPriority[s[k]] < p PROVE FALSE
      OBVIOUS
    <3>1. k \in 1 .. Len(s) /\ k < i BY <1>1, <2>5
    <3>2. k \in Lower(p) BY <1>3, <3>1
    <3>3. i <= k BY <2>4, <3>2
    <3> QED BY <2>5, <3>1, <3>3
  <2> QED BY <1>2, <2>5, <2>7, <2>8, <2>9, <2>10
<1> QED BY <1>4, <1>5

LEMMA DequeueIs ==
    ASSUME NEW s, Chain(s), NEW free \in SUBSET Element, DequeueHighestPriority(free)
    PROVE  \/ /\ ret' = <<"dequeue", Nil>> /\ Chain(s)' /\ pPriority' = pPriority
              /\ \A k \in 1 .. Len(s) : s[k] \in free =>
                    k # 1 /\ pPriority[s[k - 1]] = pPriority[s[k]]
           \/ \E t : \E i \in 1 .. Len(s) :
                 /\ ret' = <<"remove", s[i]>> /\ Chain(t)' /\ Removed(s, i, t)
                 /\ pPriority' = [pPriority EXCEPT ![s[i]] = Nil]
                 /\ i = 1 \/ pPriority[s[i - 1]] # pPriority[s[i]]
                 /\ \A k \in 1 .. i - 1 : s[k] \in free =>
                       k # 1 /\ pPriority[s[k - 1]] = pPriority[s[k]]
<1>1. Elements = s /\ s \in Seq(Element) /\ Len(s) \in Nat /\ pSize = Len(s)
  BY ChainFacts
<1> DEFINE candidates == {i \in Tried : Elements[i] \in free}
<1>2. candidates = {k \in 1 .. Len(s) : /\ k = 1 \/ pPriority[s[k - 1]] # pPriority[s[k]]
                                        /\ s[k] \in free}
  BY <1>1 DEF Tried
<1>3. CASE candidates = {}
  <2>1. ret' = <<"dequeue", Nil>> /\ UNCHANGED linkVars /\ pPriority' = pPriority
    BY <1>3 DEF DequeueHighestPriority
  <2>2. Chain(s)' BY <2>1, UnchangedChain
  <2>3. \A k \in 1 .. Len(s) : s[k] \in free => k # 1 /\ pPriority[s[k - 1]] = pPriority[s[k]]
    BY <1>2, <1>3
  <2> QED BY <2>1, <2>2, <2>3
<1>4. CASE candidates # {}
  <2>1. candidates \in SUBSET Nat BY <1>1, <1>2
  <2>2. \E m \in candidates : \A k \in candidates : m <= k BY <1>4, <2>1, LeastNumber
  <2>3. PICK i : i = CHOOSE m \in candidates : \A j \in candidates : m <= j OBVIOUS
  <2>4. i \in candidates /\ \A j \in candidates : i <= j BY <2>2, <2>3
  <2>5. /\ ret' = <<"remove", s[i]>> /\ Unlink(s[i])
        /\ pPriority' = [pPriority EXCEPT ![s[i]] = Nil]
    BY <1>1, <1>4, <2>3 DEF DequeueHighestPriority
  <2>6. i \in 1 .. Len(s) /\ (i = 1 \/ pPriority[s[i - 1]] # pPriority[s[i]]) BY <1>2, <2>4
  <2>7. Chain(RemoveAt(s, i))' BY <2>5, <2>6, UnlinkChain
  <2>8. Removed(s, i, RemoveAt(s, i)) BY <1>1, <2>6, RemoveAtElements DEF Removed
  <2>9. \A k \in 1 .. i - 1 : s[k] \in free => k # 1 /\ pPriority[s[k - 1]] = pPriority[s[k]]
    <3> SUFFICES ASSUME NEW k \in 1 .. i - 1, s[k] \in free,
                        k = 1 \/ pPriority[s[k - 1]] # pPriority[s[k]]
                 PROVE  FALSE
      OBVIOUS
    <3>1. k \in 1 .. Len(s) /\ k < i BY <1>1, <2>6
    <3>2. k \in candidates BY <1>2, <3>1
    <3>3. i <= k BY <2>4, <3>2
    <3> QED BY <2>6, <3>1, <3>3
  <2> QED BY <2>5, <2>6, <2>7, <2>8, <2>9
<1> QED BY <1>3, <1>4

(* The list is sorted by priority.                                         *)
SortInv == /\ pPriority \in [Element -> PriorityLevel \cup {Nil}]
           /\ \E s : Chain(s) /\ (sorted => Ranked(s))

LEMMA InsertedRanked ==
    ASSUME NEW s, Chain(s), Ranked(s), NEW t, NEW e \in Element, NEW i \in 1 .. Len(s) + 1,
           NEW p \in PriorityLevel, \A k \in 1 .. Len(s) : s[k] # e, Inserted(s, i, e, t),
           \A k \in 1 .. i - 1 : ~(pPriority[s[k]] < p),
           i <= Len(s) => pPriority[s[i]] < p,
           pPriority \in [Element -> PriorityLevel \cup {Nil}],
           pPriority' = [pPriority EXCEPT ![e] = p]
    PROVE  Ranked(t)'
<1>1. s \in Seq(Element) /\ Len(s) \in Nat /\ \A k \in 1 .. Len(s) : s[k] \in Element BY DEF Chain
<1> DEFINE f == pPriority'
<1>2. f[e] = p /\ \A k \in 1 .. Len(s) : f[s[k]] = pPriority[s[k]] BY <1>1
<1>3. PriorityLevel \subseteq Nat BY PriorityAssumption
<1>4. \A k \in 1 .. Len(s) : f[s[k]] \in PriorityLevel /\ f[s[k]] \in Nat BY <1>2, <1>3 DEF Ranked
<1>5. \A k \in i .. Len(s) : f[s[k]] < p
  <2> SUFFICES ASSUME NEW k \in i .. Len(s) PROVE f[s[k]] < p
    OBVIOUS
  <2>1. i \in 1 .. Len(s) /\ k \in 1 .. Len(s) /\ (i = k \/ i < k) BY <1>1
  <2>2. f[s[i]] < p BY <1>2, <2>1
  <2>3. f[s[i]] >= f[s[k]] BY <1>2, <1>4, <2>1 DEF Ranked
  <2> QED BY <1>3, <1>4, <2>1, <2>2, <2>3
<1>6. \A k \in 1 .. i - 1 : f[s[k]] >= p
  <2> SUFFICES ASSUME NEW k \in 1 .. i - 1 PROVE f[s[k]] >= p
    OBVIOUS
  <2>1. k \in 1 .. Len(s) BY <1>1
  <2> QED BY <1>2, <1>3, <1>4, <2>1
<1>7. \A k \in 1 .. Len(t) : f[t[k]] \in PriorityLevel
  <2> SUFFICES ASSUME NEW k \in 1 .. Len(s) + 1 PROVE f[t[k]] \in PriorityLevel
    BY DEF Inserted
  <2>1. CASE k < i BY <1>1, <1>4, <2>1 DEF Inserted
  <2>2. CASE k = i BY <1>2, <2>2 DEF Inserted
  <2>3. CASE k > i BY <1>1, <1>4, <2>3 DEF Inserted
  <2> QED BY <1>1, <2>1, <2>2, <2>3
<1>8. ASSUME NEW k \in 1 .. Len(t), NEW l \in 1 .. Len(t), k < l PROVE f[t[k]] >= f[t[l]]
  <2>0. k \in 1 .. Len(s) + 1 /\ l \in 1 .. Len(s) + 1 BY DEF Inserted
  <2>1. CASE l < i
    <3>1. k \in 1 .. Len(s) /\ l \in 1 .. Len(s) /\ t[k] = s[k] /\ t[l] = s[l]
      BY <1>1, <1>8, <2>0, <2>1 DEF Inserted
    <3> QED BY <1>2, <1>8, <3>1 DEF Ranked
  <2>2. CASE l = i
    <3>1. k \in 1 .. i - 1 /\ t[k] = s[k] /\ t[l] = e BY <1>1, <1>8, <2>0, <2>2 DEF Inserted
    <3> QED BY <1>2, <1>6, <3>1
  <2>3. CASE l > i
    <3>1. l - 1 \in i .. Len(s) /\ l - 1 \in 1 .. Len(s) /\ t[l] = s[l - 1]
      BY <1>1, <2>0, <2>3 DEF Inserted
    <3>2. CASE k < i
      <4>1. k \in 1 .. i - 1 /\ k \in 1 .. Len(s) /\ t[k] = s[k] BY <1>1, <2>0, <3>2 DEF Inserted
      <4>2. f[s[k]] >= p /\ f[s[l - 1]] < p /\ f[s[k]] \in Nat /\ f[s[l - 1]] \in Nat
        BY <1>4, <1>5, <1>6, <3>1, <4>1
      <4>3. f[s[k]] >= f[s[l - 1]]
        <5>1. p \in Nat BY <1>3
        <5>2. \A a, b, n \in Nat : a >= n /\ b < n => a >= b OBVIOUS
        <5> QED BY <4>2, <5>1, <5>2
      <4> QED BY <3>1, <4>1, <4>3
    <3>3. CASE k = i
      <4>1. t[k] = e BY <2>0, <3>3 DEF Inserted
      <4>2. f[s[l - 1]] < p /\ f[s[l - 1]] \in Nat BY <1>4, <1>5, <3>1
      <4> QED BY <1>2, <1>3, <3>1, <4>1, <4>2
    <3>4. CASE k > i
      <4>1. k - 1 \in 1 .. Len(s) /\ k - 1 < l - 1 /\ t[k] = s[k - 1]
        BY <1>1, <1>8, <2>0, <3>4 DEF Inserted
      <4>2. \A m, n \in 1 .. Len(s) : m < n => f[s[m]] >= f[s[n]] BY <1>2 DEF Ranked
      <4>3. f[s[k - 1]] >= f[s[l - 1]] BY <3>1, <4>1, <4>2
      <4> QED BY <3>1, <4>1, <4>3
    <3> QED BY <1>1, <2>0, <3>2, <3>3, <3>4
  <2> QED BY <1>1, <2>0, <2>1, <2>2, <2>3
<1> HIDE DEF f
<1>9. /\ \A k \in 1 .. Len(t) : f[t[k]] \in PriorityLevel
      /\ \A k, l \in 1 .. Len(t) : k < l => f[t[k]] >= f[t[l]]
  BY <1>7, <1>8
<1> QED BY <1>9 DEF f, Ranked

LEMMA SortSteps ==
    ASSUME SortInv, [QueuesNext]_<<vars, schedulerVars>>
    PROVE  SortInv'
<1>1. PICK s : Chain(s) /\ (sorted => Ranked(s)) BY DEF SortInv
<1>2. s \in Seq(Element) /\ Len(s) \in Nat /\ \A k \in 1 .. Len(s) : s[k] \in Element
  BY <1>1 DEF Chain
<1>3. sorted' = sorted
  BY DEF QueuesNext, Next, PriorityNext, Enqueue, DequeueHighestPriority, vars
<1>4. pPriority \in [Element -> PriorityLevel \cup {Nil}] BY DEF SortInv
<1>5. CASE UNCHANGED vars
  <2>1. Chain(s)' BY <1>1, <1>5, UnchangedChain DEF vars, queueVars
  <2>2. pPriority' = pPriority BY <1>5 DEF vars
  <2>3. sorted' => Ranked(s)' BY <1>1, <1>3, <2>2 DEF Ranked
  <2> QED BY <1>4, <2>1, <2>2, <2>3 DEF SortInv
<1>6. CASE ~sorted /\ QueueNext /\ UNCHANGED <<sorted, pPriority>>
  <2>1. QInv' BY <1>1, <1>6, QueueSteps
  <2> QED BY <1>3, <1>4, <1>6, <2>1 DEF SortInv, QInv
<1>7. ASSUME sorted, NEW e \in Element, NEW p \in PriorityLevel, Enqueue(e, p) PROVE SortInv'
  <2>1. pPriority' = [pPriority EXCEPT ![e] = p] BY <1>7 DEF Enqueue
  <2>2. \A k \in 1 .. Len(s) : s[k] # e BY <1>1, <1>7, EnqueueIs
  <2>3. PICK t, i : /\ i \in 1 .. Len(s) + 1 /\ Inserted(s, i, e, t) /\ Chain(t)'
                    /\ \A k \in 1 .. i - 1 : ~(pPriority[s[k]] < p)
                    /\ i <= Len(s) => pPriority[s[i]] < p
    BY <1>1, <1>7, EnqueueIs
  <2>4. Ranked(t)' BY <1>1, <1>4, <1>7, <2>1, <2>2, <2>3, InsertedRanked
  <2>5. pPriority' \in [Element -> PriorityLevel \cup {Nil}] BY <1>4, <2>1
  <2> QED BY <2>3, <2>4, <2>5 DEF SortInv
<1>8. ASSUME sorted, NEW free \in SUBSET Element, DequeueHighestPriority(free) PROVE SortInv'
  <2>1. CASE Chain(s)' /\ pPriority' = pPriority
    <3>1. sorted' => Ranked(s)' BY <1>1, <1>3, <2>1 DEF Ranked
    <3> QED BY <1>4, <2>1, <3>1 DEF SortInv
  <2>2. ASSUME NEW t, NEW i \in 1 .. Len(s), Chain(t)', Removed(s, i, t),
               pPriority' = [pPriority EXCEPT ![s[i]] = Nil]
        PROVE  SortInv'
    <3>1. pPriority' \in [Element -> PriorityLevel \cup {Nil}] BY <1>2, <1>4, <2>2
    <3>2. Len(t) = Len(s) - 1 BY <2>2 DEF Removed
    <3>3. \A k \in 1 .. Len(t) : \E m \in 1 .. Len(s) :
             /\ t[k] = s[m] /\ m # i /\ m = (IF k < i THEN k ELSE k + 1)
      <4> SUFFICES ASSUME NEW k \in 1 .. Len(t)
                   PROVE  \E m \in 1 .. Len(s) :
                             /\ t[k] = s[m] /\ m # i /\ m = (IF k < i THEN k ELSE k + 1)
        OBVIOUS
      <4>1. k \in 1 .. Len(s) - 1 /\ k \in 1 .. Len(s) /\ k + 1 \in 1 .. Len(s) BY <1>2, <3>2
      <4>2. CASE k < i BY <2>2, <4>1, <4>2 DEF Removed
      <4>3. CASE ~(k < i) BY <2>2, <4>1, <4>3 DEF Removed
      <4> QED BY <4>2, <4>3
    <3>4. \A m \in 1 .. Len(s) : m # i => pPriority'[s[m]] = pPriority[s[m]]
      BY <1>1, <1>2, <1>4, <2>2 DEF Chain
    <3>5. \A k \in 1 .. Len(t) : pPriority'[t[k]] \in PriorityLevel
      BY <1>1, <1>7, <1>8, <3>3, <3>4 DEF Ranked
    <3>6. ASSUME NEW k \in 1 .. Len(t), NEW l \in 1 .. Len(t), k < l
          PROVE  pPriority'[t[k]] >= pPriority'[t[l]]
      <4>1. PICK m \in 1 .. Len(s) :
               /\ t[k] = s[m] /\ m # i /\ m = (IF k < i THEN k ELSE k + 1)
        BY <3>3
      <4>2. PICK n \in 1 .. Len(s) :
               /\ t[l] = s[n] /\ n # i /\ n = (IF l < i THEN l ELSE l + 1)
        BY <3>3
      <4>3. m < n BY <1>2, <3>2, <3>6, <4>1, <4>2
      <4>4. pPriority[s[m]] >= pPriority[s[n]] BY <1>1, <1>8, <4>3 DEF Ranked
      <4> QED BY <3>4, <4>1, <4>2, <4>4
    <3>7. Ranked(t)' BY <3>5, <3>6 DEF Ranked
    <3> QED BY <2>2, <3>1, <3>7 DEF SortInv
  <2> QED BY <1>1, <1>8, <2>1, <2>2, DequeueIs
<1> QED BY <1>5, <1>6, <1>7, <1>8 DEF QueuesNext, Next, PriorityNext

LEMMA SortInvariance == QueuesSpec => []SortInv
<1>1. QueuesInit => SortInv
  <2> SUFFICES ASSUME QueuesInit PROVE SortInv
    OBVIOUS
  <2>1. Chain(<<>>) BY EmptyChain DEF QueuesInit, Init, QueueInit
  <2>2. Ranked(<<>>) BY DEF Ranked
  <2>3. pPriority \in [Element -> PriorityLevel \cup {Nil}] BY DEF QueuesInit, Init
  <2> QED BY <2>1, <2>2, <2>3 DEF SortInv
<1> QED BY <1>1, SortSteps, PTL DEF QueuesSpec
----------------------------------------------------------------------------
(* FirstComeFirstServed, HighestLevelFirst                                 *)
LEMMA ServesInOrder ==
    ASSUME NEW s, NEW t, Len(s) \in Nat, NEW h \in 1 .. Len(s), Removed(s, h, t),
           NEW i \in 1 .. Len(t), NEW j \in 1 .. Len(t), i < j
    PROVE  \E k, l \in 1 .. Len(s) : k < l /\ s[k] = t[i] /\ s[l] = t[j]
<1>1. Len(t) = Len(s) - 1 BY DEF Removed
<1>2. i \in 1 .. Len(s) - 1 /\ j \in 1 .. Len(s) - 1 /\ h \in Nat BY <1>1
<1>3. PICK k : k = IF i < h THEN i ELSE i + 1 OBVIOUS
<1>4. PICK l : l = IF j < h THEN j ELSE j + 1 OBVIOUS
<1>5. k \in 1 .. Len(s) /\ l \in 1 .. Len(s) /\ k < l BY <1>2, <1>3, <1>4
<1>6. s[k] = t[i] /\ s[l] = t[j] BY <1>2, <1>3, <1>4 DEF Removed
<1> QED BY <1>5, <1>6

LEMMA FirstCome ==
    ASSUME SortInv, SortInv', [QueuesNext]_<<vars, schedulerVars>>
    PROVE  [sorted => LET list == Elements
                          after == Elements'
            IN  /\ \A i, j \in 1 .. pSize' :
                      /\ i < j
                      /\ pPriority'[after[i]] = pPriority'[after[j]]
                      /\ Contains(list, after[j])
                      => \E k, l \in 1 .. pSize : k < l /\ list[k] = after[i] /\ list[l] = after[j]
                /\ \A i, j \in 1 .. pSize :
                      i < j /\ ret' = <<"remove", list[j]>> =>
                          pPriority[list[i]] > pPriority[list[j]]]_vars
<1> SUFFICES ASSUME sorted, vars' # vars, PriorityNext
             PROVE  /\ \A i, j \in 1 .. pSize' :
                          /\ i < j
                          /\ pPriority'[Elements'[i]] = pPriority'[Elements'[j]]
                          /\ Contains(Elements, Elements'[j])
                          => \E k, l \in 1 .. pSize :
                                k < l /\ Elements[k] = Elements'[i] /\ Elements[l] = Elements'[j]
                    /\ \A i, j \in 1 .. pSize :
                          i < j /\ ret' = <<"remove", Elements[j]>> =>
                              pPriority[Elements[i]] > pPriority[Elements[j]]
  BY DEF QueuesNext, Next, vars
<1>1. PICK s : Chain(s) /\ Ranked(s) BY DEF SortInv
<1>2. /\ Elements = s /\ pSize = Len(s) /\ Len(s) \in Nat
      /\ \A k \in 1 .. Len(s) : s[k] \in Element
      /\ \A k, l \in 1 .. Len(s) : s[k] = s[l] => k = l
  BY <1>1, ChainFacts
<1>3. ASSUME NEW t, Chain(t)' PROVE Elements' = t /\ pSize' = Len(t)
  <2>1. Elements' = t BY <1>3, ChainIsElementsNext
  <2>2. pSize' = Len(t) BY <1>3 DEF Chain
  <2> QED BY <2>1, <2>2
<1>4. ASSUME NEW e \in Element, NEW p \in PriorityLevel, Enqueue(e, p)
      PROVE  /\ \A i, j \in 1 .. pSize' :
                   /\ i < j
                   /\ pPriority'[Elements'[i]] = pPriority'[Elements'[j]]
                   /\ Contains(Elements, Elements'[j])
                   => \E k, l \in 1 .. pSize :
                         k < l /\ Elements[k] = Elements'[i] /\ Elements[l] = Elements'[j]
             /\ ret'[1] # "remove"
  <2>1. \A k \in 1 .. Len(s) : s[k] # e BY <1>1, <1>4, EnqueueIs
  <2>2. PICK t, h : /\ h \in 1 .. Len(s) + 1 /\ Inserted(s, h, e, t) /\ Chain(t)'
                    /\ \A k \in 1 .. h - 1 : ~(pPriority[s[k]] < p)
                    /\ h <= Len(s) => pPriority[s[h]] < p
    BY <1>1, <1>4, EnqueueIs
  <2>3. Elements' = t /\ pSize' = Len(s) + 1 BY <1>3, <2>2 DEF Inserted
  <2>4. ret'[1] # "remove" BY <1>4 DEF Enqueue
  <2>5. pPriority' = [pPriority EXCEPT ![e] = p] BY <1>4 DEF Enqueue
  <2>6. pPriority \in [Element -> PriorityLevel \cup {Nil}] BY DEF SortInv
  <2>7. Ranked(t)'
    BY <1>1, <1>4, <2>1, <2>2, <2>5, <2>6, InsertedRanked
  <2>8. ASSUME NEW i \in 1 .. Len(s) + 1, NEW j \in 1 .. Len(s) + 1, i < j,
               pPriority'[t[i]] = pPriority'[t[j]], Contains(s, t[j])
        PROVE  \E k, l \in 1 .. Len(s) : k < l /\ s[k] = t[i] /\ s[l] = t[j]
    <3>1. j # h
      <4> SUFFICES ASSUME j = h PROVE FALSE
        OBVIOUS
      <4>1. t[j] = e BY <2>2 DEF Inserted
      <4> QED BY <2>1, <2>8, <4>1 DEF Contains
    <3>2. i # h
      <4> SUFFICES ASSUME i = h PROVE FALSE
        OBVIOUS
      <4>1. /\ t[i] = e /\ t[j] = s[j - 1] /\ j - 1 \in 1 .. Len(s)
            /\ h \in 1 .. Len(s) /\ (h = j - 1 \/ h < j - 1)
        BY <1>2, <2>2, <2>8 DEF Inserted
      <4>2. pPriority'[e] = p /\ pPriority'[s[j - 1]] = pPriority[s[j - 1]]
        BY <1>2, <2>1, <2>5, <2>6, <4>1
      <4>3. pPriority[s[h]] \in Nat /\ pPriority[s[j - 1]] \in Nat /\ p \in Nat
        BY <1>1, <4>1, PriorityAssumption DEF Ranked
      <4>4. pPriority[s[h]] >= pPriority[s[j - 1]] BY <1>1, <4>1, <4>3 DEF Ranked
      <4>5. pPriority[s[h]] < p BY <1>2, <2>2, <4>1
      <4> QED BY <2>8, <4>1, <4>2, <4>3, <4>4, <4>5
    <3>3. PICK k : k = IF i < h THEN i ELSE i - 1 OBVIOUS
    <3>4. PICK l : l = IF j < h THEN j ELSE j - 1 OBVIOUS
    <3>5. k \in 1 .. Len(s) /\ l \in 1 .. Len(s) /\ k < l
      BY <1>2, <2>2, <2>8, <3>1, <3>2, <3>3, <3>4
    <3>6. s[k] = t[i] /\ s[l] = t[j] BY <2>2, <3>1, <3>2, <3>3, <3>4 DEF Inserted
    <3> QED BY <3>5, <3>6
  <2> QED BY <1>2, <2>3, <2>4, <2>8
<1>5. ASSUME NEW free \in SUBSET Element, DequeueHighestPriority(free)
      PROVE  /\ \A i, j \in 1 .. pSize' : i < j =>
                   \E k, l \in 1 .. pSize :
                         k < l /\ Elements[k] = Elements'[i] /\ Elements[l] = Elements'[j]
             /\ \A i, j \in 1 .. pSize :
                   i < j /\ ret' = <<"remove", Elements[j]>> =>
                       pPriority[Elements[i]] > pPriority[Elements[j]]
  <2>1. CASE ret' = <<"dequeue", Nil>> /\ Chain(s)' /\ pPriority' = pPriority
    <3>1. Elements' = s /\ pSize' = Len(s) BY <1>3, <2>1
    <3> QED BY <1>2, <2>1, <3>1
  <2>2. ASSUME NEW t, NEW h \in 1 .. Len(s), ret' = <<"remove", s[h]>>, Chain(t)', Removed(s, h, t),
               h = 1 \/ pPriority[s[h - 1]] # pPriority[s[h]]
        PROVE  /\ \A i, j \in 1 .. pSize' : i < j =>
                     \E k, l \in 1 .. pSize :
                           k < l /\ Elements[k] = Elements'[i] /\ Elements[l] = Elements'[j]
               /\ \A i, j \in 1 .. pSize :
                     i < j /\ ret' = <<"remove", Elements[j]>> =>
                         pPriority[Elements[i]] > pPriority[Elements[j]]
    <3>1. Elements' = t /\ pSize' = Len(t) BY <1>3, <2>2
    <3>2. \A i, j \in 1 .. Len(t) : i < j =>
             \E k, l \in 1 .. Len(s) : k < l /\ s[k] = t[i] /\ s[l] = t[j]
      BY <1>2, <2>2, ServesInOrder
    <3>3. ASSUME NEW i \in 1 .. Len(s), NEW j \in 1 .. Len(s), i < j, ret' = <<"remove", s[j]>>
          PROVE  pPriority[s[i]] > pPriority[s[j]]
      <4>1. j = h BY <1>2, <2>2, <3>3
      <4>2. h - 1 \in 1 .. Len(s) /\ h - 1 < h /\ (i = h - 1 \/ i < h - 1) BY <1>2, <3>3, <4>1
      <4>3. \A k \in 1 .. Len(s) : pPriority[s[k]] \in Nat
        BY <1>1, PriorityAssumption DEF Ranked
      <4>4. pPriority[s[h - 1]] >= pPriority[s[h]] BY <1>1, <4>2 DEF Ranked
      <4>5. pPriority[s[i]] >= pPriority[s[h - 1]] BY <1>1, <4>2, <4>3 DEF Ranked
      <4> QED BY <2>2, <3>3, <4>1, <4>2, <4>3, <4>4, <4>5
    <3> QED BY <1>2, <3>1, <3>2, <3>3
  <2> QED BY <1>1, <1>5, <2>1, <2>2, DequeueIs
<1>6. CASE \E e \in Element, p \in PriorityLevel : Enqueue(e, p)
  BY <1>4, <1>6
<1>7. CASE \E free \in SUBSET Element : DequeueHighestPriority(free)
  BY <1>5, <1>7
<1> QED BY <1>6, <1>7 DEF PriorityNext

LEMMA HighestFirst ==
    ASSUME SortInv, NEW free \in SUBSET Element, sorted, DequeueHighestPriority(free),
           NEW i \in 1 .. pSize, Elements[i] \in free,
           \A j \in 1 .. i - 1 : pPriority[Elements[j]] > pPriority[Elements[i]]
    PROVE  ret'[2] # Nil /\ pPriority[ret'[2]] >= pPriority[Elements[i]]
<1>1. PICK s : Chain(s) /\ Ranked(s) BY DEF SortInv
<1>2. /\ Elements = s /\ pSize = Len(s) /\ Len(s) \in Nat
      /\ \A k \in 1 .. Len(s) : s[k] \in Element
  BY <1>1, ChainFacts
<1>3. \A k \in 1 .. Len(s) : pPriority[s[k]] \in Nat BY <1>1, PriorityAssumption DEF Ranked
<1>4. i \in 1 .. Len(s) /\ s[i] \in free BY <1>2
<1>5. i = 1 \/ pPriority[s[i - 1]] # pPriority[s[i]]
  <2> SUFFICES ASSUME i # 1 PROVE pPriority[s[i - 1]] # pPriority[s[i]]
    OBVIOUS
  <2>1. i - 1 \in 1 .. i - 1 /\ i - 1 \in 1 .. Len(s) BY <1>2, <1>4
  <2> QED BY <1>2, <1>3, <1>4, <2>1
<1>6. ASSUME NEW h \in 1 .. Len(s), ret' = <<"remove", s[h]>>,
             \A k \in 1 .. h - 1 : s[k] \in free => k # 1 /\ pPriority[s[k - 1]] = pPriority[s[k]]
      PROVE  ret'[2] # Nil /\ pPriority[ret'[2]] >= pPriority[Elements[i]]
  <2>1. ret'[2] = s[h] BY <1>6
  <2>2. h = i \/ h < i BY <1>2, <1>4, <1>5, <1>6
  <2>3. pPriority[s[h]] >= pPriority[s[i]] BY <1>1, <1>3, <1>4, <2>2 DEF Ranked
  <2> QED BY <1>2, <2>1, <2>3, NilAssumption
<1> QED BY <1>1, <1>4, <1>5, <1>6, DequeueIs

----------------------------------------------------------------------------
(* Places and order in a sequence                                          *)
Distinct(s) == \A i, j \in 1 .. Len(s) : s[i] = s[j] => i = j

Before(s, a, b) == \E i, j \in 1 .. Len(s) : i < j /\ s[i] = a /\ s[j] = b

LEMMA MinIs ==
    ASSUME NEW S \in SUBSET Nat, S # {}
    PROVE  Min(S) \in S /\ \A k \in S : Min(S) <= k
<1>1. \E m \in S : \A k \in S : m <= k BY LeastNumber
<1> QED BY <1>1 DEF Min

LEMMA RemoveFirstIs ==
    ASSUME NEW S, NEW s \in Seq(S), NEW e
    PROVE  \/ ~Contains(s, e) /\ RemoveFirst(s, e) = s
           \/ \E i \in 1 .. Len(s) : s[i] = e /\ RemoveFirst(s, e) = RemoveAt(s, i)
<1>1. CASE ~Contains(s, e) BY <1>1 DEF Contains, RemoveFirst
<1>2. CASE Contains(s, e)
  <2> DEFINE I == {i \in 1 .. Len(s) : s[i] = e}
  <2>1. I # {} /\ I \in SUBSET Nat BY <1>2 DEF Contains
  <2>2. Min(I) \in I BY <2>1, MinIs
  <2>3. RemoveFirst(s, e) = RemoveAt(s, Min(I)) BY <1>2, <2>1 DEF Contains, RemoveFirst, SelectInSeq
  <2> QED BY <2>2, <2>3
<1> QED BY <1>1, <1>2

(* RemoveFirst takes one element out and keeps the order of the others.    *)
LEMMA RemoveFirstKeeps ==
    ASSUME NEW S, NEW s \in Seq(S), Distinct(s), NEW e
    PROVE  /\ RemoveFirst(s, e) \in Seq(S) /\ Distinct(RemoveFirst(s, e))
           /\ \A x : Contains(RemoveFirst(s, e), x) <=> Contains(s, x) /\ x # e
           /\ \A a, b : Before(RemoveFirst(s, e), a, b) <=> Before(s, a, b) /\ a # e /\ b # e
<1>0. Len(s) \in Nat OBVIOUS
<1>1. CASE ~Contains(s, e) /\ RemoveFirst(s, e) = s
  <2>1. \A x : Contains(s, x) => x # e BY <1>1
  <2>2. \A a, b : Before(s, a, b) => a # e /\ b # e BY <1>1 DEF Before, Contains
  <2> QED BY <1>1, <2>1, <2>2
<1>2. ASSUME NEW h \in 1 .. Len(s), s[h] = e, RemoveFirst(s, e) = RemoveAt(s, h)
      PROVE  /\ RemoveFirst(s, e) \in Seq(S) /\ Distinct(RemoveFirst(s, e))
             /\ \A x : Contains(RemoveFirst(s, e), x) <=> Contains(s, x) /\ x # e
             /\ \A a, b : Before(RemoveFirst(s, e), a, b) <=> Before(s, a, b) /\ a # e /\ b # e
  <2>1. PICK t : t = RemoveFirst(s, e) OBVIOUS
  <2>2. /\ t \in Seq(S) /\ Len(t) = Len(s) - 1
        /\ \A k \in 1 .. Len(s) - 1 : t[k] = IF k < h THEN s[k] ELSE s[k + 1]
    BY <1>2, <2>1, RemoveAtElements
  <2>3. \A k \in 1 .. Len(t) : \E m \in 1 .. Len(s) :
           t[k] = s[m] /\ m # h /\ m = (IF k < h THEN k ELSE k + 1)
    <3> SUFFICES ASSUME NEW k \in 1 .. Len(t)
                 PROVE  \E m \in 1 .. Len(s) :
                           t[k] = s[m] /\ m # h /\ m = (IF k < h THEN k ELSE k + 1)
      OBVIOUS
    <3>1. k \in 1 .. Len(s) - 1 /\ k \in 1 .. Len(s) /\ k + 1 \in 1 .. Len(s) BY <1>0, <2>2
    <3>2. CASE k < h BY <2>2, <3>1, <3>2
    <3>3. CASE ~(k < h) BY <2>2, <3>1, <3>3
    <3> QED BY <3>2, <3>3
  <2>4. \A m \in 1 .. Len(s) : m # h => \E k \in 1 .. Len(t) :
           t[k] = s[m] /\ k = (IF m < h THEN m ELSE m - 1)
    <3> SUFFICES ASSUME NEW m \in 1 .. Len(s), m # h
                 PROVE  \E k \in 1 .. Len(t) : t[k] = s[m] /\ k = (IF m < h THEN m ELSE m - 1)
      OBVIOUS
    <3>1. CASE m < h
      <4>1. m \in 1 .. Len(t) /\ m \in 1 .. Len(s) - 1 BY <1>0, <2>2, <3>1
      <4> QED BY <2>2, <3>1, <4>1
    <3>2. CASE ~(m < h)
      <4>1. m - 1 \in 1 .. Len(t) /\ m - 1 \in 1 .. Len(s) - 1 /\ ~(m - 1 < h) /\ (m - 1) + 1 = m
        BY <1>0, <2>2, <3>2
      <4> QED BY <2>2, <3>2, <4>1
    <3> QED BY <3>1, <3>2
  <2>5. Distinct(t)
    <3> SUFFICES ASSUME NEW i \in 1 .. Len(t), NEW j \in 1 .. Len(t), t[i] = t[j] PROVE i = j
      BY DEF Distinct
    <3>1. PICK m \in 1 .. Len(s) : t[i] = s[m] /\ m = (IF i < h THEN i ELSE i + 1) BY <2>3
    <3>2. PICK n \in 1 .. Len(s) : t[j] = s[n] /\ n = (IF j < h THEN j ELSE j + 1) BY <2>3
    <3>3. m = n BY <3>1, <3>2 DEF Distinct
    <3> QED BY <1>0, <2>2, <3>1, <3>2, <3>3
  <2>6. \A m \in 1 .. Len(s) : s[m] = e <=> m = h BY <1>2 DEF Distinct
  <2>7. ASSUME NEW x PROVE Contains(t, x) <=> Contains(s, x) /\ x # e
    <3>1. Contains(t, x) => Contains(s, x) /\ x # e BY <2>3, <2>6 DEF Contains
    <3>2. ASSUME Contains(s, x), x # e PROVE Contains(t, x)
      <4>1. PICK m \in 1 .. Len(s) : s[m] = x BY <3>2 DEF Contains
      <4>2. m # h BY <1>2, <3>2, <4>1
      <4> QED BY <2>4, <4>1, <4>2 DEF Contains
    <3> QED BY <3>1, <3>2
  <2>8. ASSUME NEW a, NEW b, Before(t, a, b) PROVE Before(s, a, b) /\ a # e /\ b # e
    <3>1. PICK i, j \in 1 .. Len(t) : i < j /\ t[i] = a /\ t[j] = b BY <2>8 DEF Before
    <3>2. PICK m \in 1 .. Len(s) : t[i] = s[m] /\ m # h /\ m = (IF i < h THEN i ELSE i + 1) BY <2>3
    <3>3. PICK n \in 1 .. Len(s) : t[j] = s[n] /\ n # h /\ n = (IF j < h THEN j ELSE j + 1) BY <2>3
    <3>4. m < n BY <1>0, <2>2, <3>1, <3>2, <3>3
    <3> QED BY <2>6, <3>1, <3>2, <3>3, <3>4 DEF Before
  <2>9. ASSUME NEW a, NEW b, Before(s, a, b), a # e, b # e PROVE Before(t, a, b)
    <3>1. PICK m, n \in 1 .. Len(s) : m < n /\ s[m] = a /\ s[n] = b BY <2>9 DEF Before
    <3>2. m # h /\ n # h BY <1>2, <2>9, <3>1
    <3>3. PICK i \in 1 .. Len(t) : t[i] = s[m] /\ i = (IF m < h THEN m ELSE m - 1) BY <2>4, <3>2
    <3>4. PICK j \in 1 .. Len(t) : t[j] = s[n] /\ j = (IF n < h THEN n ELSE n - 1) BY <2>4, <3>2
    <3>5. i < j BY <1>0, <3>1, <3>2, <3>3, <3>4
    <3> QED BY <3>1, <3>3, <3>4, <3>5 DEF Before
  <2>10. t \in Seq(S) BY <2>2
  <2> QED BY <2>1, <2>5, <2>7, <2>8, <2>9, <2>10
<1> QED BY <1>1, <1>2, RemoveFirstIs

(* InsertAt keeps the order of the others.                                 *)
LEMMA InsertAtKeeps ==
    ASSUME NEW S, NEW s \in Seq(S), NEW i \in 1 .. Len(s) + 1, NEW e \in S
    PROVE  /\ \A x : Contains(InsertAt(s, i, e), x) <=> Contains(s, x) \/ x = e
           /\ \A k, l \in 1 .. Len(s) + 1 : k < l =>
                 \/ k = i /\ l > i /\ l - 1 \in i .. Len(s) /\ InsertAt(s, i, e)[k] = e
                          /\ InsertAt(s, i, e)[l] = s[l - 1]
                 \/ l = i /\ k < i /\ k \in 1 .. Len(s) /\ InsertAt(s, i, e)[l] = e
                          /\ InsertAt(s, i, e)[k] = s[k]
                 \/ \E m, n \in 1 .. Len(s) : /\ m < n
                       /\ InsertAt(s, i, e)[k] = s[m] /\ InsertAt(s, i, e)[l] = s[n]
<1>0. Len(s) \in Nat OBVIOUS
<1>1. PICK t : t = InsertAt(s, i, e) OBVIOUS
<1>2. /\ t \in Seq(S) /\ Len(t) = Len(s) + 1
      /\ \A k \in 1 .. Len(s) + 1 : t[k] = IF k < i THEN s[k] ELSE IF k = i THEN e ELSE s[k - 1]
  <2>1. /\ InsertAt(s, i, e) \in Seq(S) /\ Len(InsertAt(s, i, e)) = Len(s) + 1
        /\ \A k \in 1 .. Len(s) + 1 :
              InsertAt(s, i, e)[k] = IF k < i THEN s[k] ELSE IF k = i THEN e ELSE s[k - 1]
    BY InsertAtElements
  <2> QED BY <1>1, <2>1
<1>3. ASSUME NEW x, Contains(s, x) PROVE Contains(t, x)
  <2>1. PICK m \in 1 .. Len(s) : s[m] = x BY <1>3 DEF Contains
  <2>2. CASE m < i
    <3>1. m \in 1 .. Len(s) + 1 /\ t[m] = x BY <1>0, <1>2, <2>1, <2>2
    <3> QED BY <1>2, <3>1 DEF Contains
  <2>3. CASE ~(m < i)
    <3>1. m + 1 \in 1 .. Len(s) + 1 /\ ~(m + 1 < i) /\ m + 1 # i /\ (m + 1) - 1 = m
      BY <1>0, <2>3
    <3>2. t[m + 1] = x BY <1>2, <2>1, <3>1
    <3> QED BY <1>2, <3>1, <3>2 DEF Contains
  <2> QED BY <2>2, <2>3
<1>4. Contains(t, e) BY <1>2 DEF Contains
<1>5. ASSUME NEW x, Contains(t, x), x # e PROVE Contains(s, x)
  <2>1. PICK k \in 1 .. Len(s) + 1 : t[k] = x BY <1>2, <1>5 DEF Contains
  <2>2. k # i BY <1>2, <1>5, <2>1
  <2>3. CASE k < i BY <1>0, <1>2, <2>1, <2>3 DEF Contains
  <2>4. CASE k > i
    <3>1. k - 1 \in 1 .. Len(s) /\ s[k - 1] = x BY <1>0, <1>2, <2>1, <2>4
    <3> QED BY <3>1 DEF Contains
  <2> QED BY <1>0, <2>2, <2>3, <2>4
<1>6. ASSUME NEW k \in 1 .. Len(s) + 1, NEW l \in 1 .. Len(s) + 1, k < l
      PROVE  \/ k = i /\ l > i /\ l - 1 \in i .. Len(s) /\ t[k] = e /\ t[l] = s[l - 1]
             \/ l = i /\ k < i /\ k \in 1 .. Len(s) /\ t[l] = e /\ t[k] = s[k]
             \/ \E m, n \in 1 .. Len(s) : m < n /\ t[k] = s[m] /\ t[l] = s[n]
  <2>1. CASE k = i BY <1>0, <1>2, <1>6, <2>1
  <2>2. CASE l = i BY <1>0, <1>2, <1>6, <2>2
  <2>3. CASE k # i /\ l # i
    <3>1. PICK m : m = IF k < i THEN k ELSE k - 1 OBVIOUS
    <3>2. PICK n : n = IF l < i THEN l ELSE l - 1 OBVIOUS
    <3>3. m \in 1 .. Len(s) /\ n \in 1 .. Len(s) /\ m < n BY <1>0, <1>6, <2>3, <3>1, <3>2
    <3>4. t[k] = s[m] /\ t[l] = s[n] BY <1>2, <2>3, <3>1, <3>2
    <3> QED BY <3>3, <3>4
  <2> QED BY <2>1, <2>2, <2>3
<1> QED BY <1>1, <1>3, <1>4, <1>5, <1>6

----------------------------------------------------------------------------
(* The schedulers                                                          *)
Queues == {"interrupt", "normal"} \X (Core \cup {All})

(* Only the priority schedulers look at the priority.                      *)
Level(e) == IF strategy \in Fifo THEN 0 ELSE Priority[e]

SchedTypes ==
    /\ strategy \in Strategy \cup {"none"}
    /\ ready \in [Queues -> Seq(Element)] /\ arrived \in Seq(Element)
    /\ active \in [Core -> Element \cup {Nil}]
    /\ scans \in [Core -> Seq(Queues)] /\ place \in [Core -> Nat]
    /\ open = [c \in Core |-> open[c]] /\ refused = [c \in Core |-> refused[c]]

(* A ready task is in its queue, ...                                       *)
Members ==
    /\ Distinct(arrived)
    /\ \A q \in Queues, e \in Element :
          Contains(ready[q], e) <=> q = QueueOf(e) /\ Contains(arrived, e)

(* ... which is in the order of the levels, and of the arrival within one. *)
Ahead(a, b) == \/ Level(a) > Level(b)
               \/ Level(a) = Level(b) /\ Before(arrived, a, b)

OrderInv ==
    \A q \in Queues : \A i, j \in 1 .. Len(ready[q]) : i < j => Ahead(ready[q][i], ready[q][j])

(* A core that searches has no task, and has an interrupt queue behind it  *)
(* when it comes to the normal one of the same core or of all.  What was   *)
(* free all along it has not tried: the task is in a queue that the core   *)
(* has still to scan, or its level was skipped.                            *)
InterruptsFirst(s) ==
    \A i, j \in 1 .. Len(s) :
        i < j /\ s[i][1] = "normal" /\ s[j][1] = "interrupt" => s[i][2] # s[j][2]

ScanInv(c) ==
    scans[c] # <<>> =>
        /\ active[c] = Nil /\ InterruptsFirst(scans[c])
        /\ open[c] \subseteq Within(c)
        /\ \A e \in open[c] : /\ e \notin refused[c]
                              /\ Contains(scans[c], QueueOf(e)) \/ Skipped(c, e)

(* All tasks before the place of a scan have been tried, or skipped with   *)
(* one of their level, and are of higher levels than the one at the place. *)
Past(c, e) == IF strategy \in Fifo THEN e \in refused[c] ELSE Skipped(c, e)

PastIn(c, list, p) ==
    \A k \in 1 .. Len(list) : k < p =>
        /\ Past(c, list[k])
        /\ strategy \notin Fifo /\ p <= Len(list) => Level(list[k]) > Level(list[p])

PlaceInv(c) == place[c] # 0 => scans[c] # <<>> /\ PastIn(c, ready[scans[c][1]], place[c])

(* One core scans a queue.                                                 *)
OneScans ==
    \A c, d \in Core : c # d /\ place[c] # 0 /\ place[d] # 0 => scans[c][1] # scans[d][1]

SchedInv ==
    SchedTypes /\ Members /\ OrderInv /\ OneScans /\ \A c \in Core : ScanInv(c) /\ PlaceInv(c)

LEMMA LevelIs == ASSUME NEW e \in Element PROVE Level(e) \in Nat
BY SchedulerAssumption, PriorityAssumption DEF Level

LEMMA QueueOfIs == ASSUME NEW e \in Element PROVE QueueOf(e) \in Queues
BY SchedulerAssumption DEF QueueOf, Queues

LEMMA SameStrategy ==
    ASSUME strategy' = strategy
    PROVE  /\ \A e : QueueOf(e)' = QueueOf(e) /\ Level(e)' = Level(e)
           /\ \A c : Scans(c)' = Scans(c)
           /\ \A c, e : refused'[c] = refused[c] =>
                 /\ Skipped(c, e)' <=> Skipped(c, e)
                 /\ Past(c, e)' <=> Past(c, e)
<1>1. \A e : QueueOf(e)' = QueueOf(e) /\ Level(e)' = Level(e) BY DEF QueueOf, Level
<1>2. \A c : Scans(c)' = Scans(c) BY DEF Scans
<1>3. \A c, e : refused'[c] = refused[c] => (Skipped(c, e)' <=> Skipped(c, e))
  BY <1>1 DEF Skipped
<1>4. \A c, e : refused'[c] = refused[c] => (Past(c, e)' <=> Past(c, e)) BY <1>3 DEF Past
<1> QED BY <1>1, <1>2, <1>3, <1>4

LEMMA ScansFacts ==
    ASSUME strategy \in Strategy, NEW c \in Core
    PROVE  /\ Scans(c) \in Seq(Queues) /\ Scans(c) # <<>> /\ InterruptsFirst(Scans(c))
           /\ \A q : q \in ToSet(Scans(c)) <=> Contains(Scans(c), q)
<1>1. c # All BY SchedulerAssumption
<1>2. \A q \in {"interrupt", "normal"} : <<q, c>> \in Queues /\ <<q, All>> \in Queues BY DEF Queues
<1>3. CASE strategy = "fifo"
  <2>1. Scans(c) = << <<"interrupt", All>>, <<"normal", All>> >> BY <1>3 DEF Scans
  <2>2. Scans(c) \in Seq(Queues) /\ Scans(c) # <<>> BY <1>2, <2>1
  <2>3. InterruptsFirst(Scans(c)) BY <2>1 DEF InterruptsFirst
  <2> QED BY <2>2, <2>3 DEF ToSet, Contains
<1>4. CASE strategy = "multififo"
  <2>1. Scans(c) = << <<"interrupt", c>>, <<"normal", c>>, <<"interrupt", All>>, <<"normal", All>> >>
    BY <1>4 DEF Scans
  <2>2. Scans(c) \in Seq(Queues) /\ Scans(c) # <<>> BY <1>2, <2>1
  <2>3. InterruptsFirst(Scans(c)) BY <1>1, <2>1 DEF InterruptsFirst
  <2> QED BY <2>2, <2>3 DEF ToSet, Contains
<1>5. CASE strategy = "single"
  <2>1. Scans(c) = << <<"normal", All>>, <<"normal", All>> >> BY <1>5 DEF Scans
  <2>2. Scans(c) \in Seq(Queues) /\ Scans(c) # <<>> BY <1>2, <2>1
  <2>3. InterruptsFirst(Scans(c)) BY <2>1 DEF InterruptsFirst
  <2> QED BY <2>2, <2>3 DEF ToSet, Contains
<1>6. CASE strategy = "multi"
  <2>1. Scans(c) = << <<"normal", c>>, <<"normal", All>> >> BY <1>6 DEF Scans
  <2>2. Scans(c) \in Seq(Queues) /\ Scans(c) # <<>> BY <1>2, <2>1
  <2>3. InterruptsFirst(Scans(c)) BY <2>1 DEF InterruptsFirst
  <2> QED BY <2>2, <2>3 DEF ToSet, Contains
<1> QED BY <1>3, <1>4, <1>5, <1>6 DEF Strategy

(* A task that a core may take is in its own queue.                        *)
LEMMA WithinIs ==
    ASSUME SchedTypes, Members, strategy \in Strategy, NEW c \in Core, NEW e \in Within(c)
    PROVE  /\ e \in Element /\ Free(e) /\ Contains(Scans(c), QueueOf(e))
           /\ Contains(ready[QueueOf(e)], e)
<1>1. PICK q \in ToSet(Scans(c)) : e \in ToSet(ready[q]) BY DEF Within
<1>2. Free(e) BY DEF Within
<1>3. Contains(Scans(c), q) BY ScansFacts
<1>4. q \in Queues
  <2>1. Scans(c) \in Seq(Queues) BY ScansFacts
  <2> QED BY <1>3, <2>1 DEF Contains
<1>5. ready[q] \in Seq(Element) BY <1>4 DEF SchedTypes
<1>6. PICK i \in 1 .. Len(ready[q]) : ready[q][i] = e BY <1>1, <1>5 DEF ToSet
<1>7. e \in Element /\ Contains(ready[q], e) BY <1>5, <1>6 DEF Contains
<1>8. q = QueueOf(e) BY <1>4, <1>7 DEF Members
<1> QED BY <1>2, <1>3, <1>7, <1>8

LEMMA AheadIs ==
    ASSUME SchedTypes, Members, NEW a \in Element, NEW b \in Element, Ahead(a, b)
    PROVE  a # b
<1>1. ~(Level(a) > Level(a)) BY LevelIs
<1>2. ~Before(arrived, a, a) BY DEF Before, Members, Distinct, SchedTypes
<1> QED BY <1>1, <1>2 DEF Ahead

LEMMA ReadyDistinct ==
    ASSUME SchedTypes, Members, OrderInv, NEW q \in Queues
    PROVE  ready[q] \in Seq(Element) /\ Distinct(ready[q])
<1>1. ready[q] \in Seq(Element) BY DEF SchedTypes
<1>2. ASSUME NEW i \in 1 .. Len(ready[q]), NEW j \in 1 .. Len(ready[q]), i < j
      PROVE  ready[q][i] # ready[q][j]
  <2>1. ready[q][i] \in Element /\ ready[q][j] \in Element BY <1>1
  <2>2. Ahead(ready[q][i], ready[q][j]) BY <1>2 DEF OrderInv
  <2> QED BY <2>1, <2>2, AheadIs
<1>3. \A i, j \in 1 .. Len(ready[q]) : i = j \/ i < j \/ j < i BY <1>1
<1> QED BY <1>1, <1>2, <1>3 DEF Distinct

----------------------------------------------------------------------------
(* The steps of the schedulers                                             *)
LEMMA AheadKept ==
    ASSUME strategy' = strategy, NEW a, NEW b, Ahead(a, b),
           Before(arrived, a, b) => Before(arrived', a, b)
    PROVE  Ahead(a, b)'
<1>1. Level(a)' = Level(a) /\ Level(b)' = Level(b) BY SameStrategy
<1>2. Before(arrived, a, b)' = Before(arrived', a, b) BY DEF Before
<1> QED BY <1>1, <1>2 DEF Ahead

LEMMA AppendKeeps ==
    ASSUME NEW S, NEW s \in Seq(S), NEW e \in S, ~Contains(s, e), Distinct(s)
    PROVE  /\ Append(s, e) \in Seq(S) /\ Distinct(Append(s, e))
           /\ \A x : Contains(Append(s, e), x) <=> Contains(s, x) \/ x = e
           /\ \A a, b : Before(s, a, b) => Before(Append(s, e), a, b)
           /\ \A a : Contains(s, a) => Before(Append(s, e), a, e)
<1>1. PICK t : t = Append(s, e) OBVIOUS
<1>2. /\ t \in Seq(S) /\ Len(t) = Len(s) + 1 /\ Len(s) \in Nat /\ t[Len(s) + 1] = e
      /\ \A i \in 1 .. Len(s) : t[i] = s[i]
  BY <1>1
<1>3. \A i \in 1 .. Len(t) : i = Len(s) + 1 \/ i \in 1 .. Len(s) BY <1>2
<1>4. \A i \in 1 .. Len(s) : i \in 1 .. Len(t) /\ i < Len(s) + 1 BY <1>2
<1>5. Len(s) + 1 \in 1 .. Len(t) BY <1>2
<1>6. \A i \in 1 .. Len(s) : s[i] # e BY DEF Contains
<1>7. Distinct(t) BY <1>2, <1>3, <1>6 DEF Distinct
<1>8. \A x : Contains(t, x) <=> Contains(s, x) \/ x = e BY <1>2, <1>3, <1>4, <1>5 DEF Contains
<1>9. \A a, b : Before(s, a, b) => Before(t, a, b) BY <1>2, <1>4 DEF Before
<1>10. \A a : Contains(s, a) => Before(t, a, e) BY <1>2, <1>4, <1>5 DEF Before, Contains
<1>11. t \in Seq(S) BY <1>2
<1> QED BY <1>1, <1>7, <1>8, <1>9, <1>10, <1>11

(* enqueue puts a task behind all of its level and of the higher ones.     *)
LEMMA EnqueuedIs ==
    ASSUME SchedInv, NEW e \in Element, NEW q \in Queues
    PROVE  \E i \in 1 .. Len(ready[q]) + 1 :
              /\ Enqueued(ready[q], e) = InsertAt(ready[q], i, e)
              /\ \A k \in 1 .. i - 1 : Level(ready[q][k]) >= Level(e)
              /\ \A k \in i .. Len(ready[q]) : Level(ready[q][k]) < Level(e)
<1>1. PICK list : list = ready[q] OBVIOUS
<1>2. list \in Seq(Element) /\ Len(list) \in Nat /\ DOMAIN list = 1 .. Len(list)
      /\ \A k \in 1 .. Len(list) : list[k] \in Element
  BY <1>1 DEF SchedInv, SchedTypes
<1> DEFINE lower == {i \in DOMAIN list : strategy \notin Fifo /\ Priority[list[i]] < Priority[e]}
<1>3. lower = {i \in 1 .. Len(list) : Level(list[i]) < Level(e)} BY <1>2 DEF Level
<1>4. \A k \in 1 .. Len(list) : Level(list[k]) \in Nat /\ Level(e) \in Nat BY <1>2, LevelIs
<1>5. \A k, l \in 1 .. Len(list) : k < l => Level(list[k]) >= Level(list[l])
  <2> SUFFICES ASSUME NEW k \in 1 .. Len(list), NEW l \in 1 .. Len(list), k < l
               PROVE  Level(list[k]) >= Level(list[l])
    OBVIOUS
  <2>1. Ahead(list[k], list[l]) BY <1>1 DEF SchedInv, OrderInv
  <2> QED BY <1>4, <2>1 DEF Ahead
<1>6. PICK i : i = IF lower = {} THEN Len(list) + 1 ELSE Min(lower) OBVIOUS
<1>7. Enqueued(list, e) = InsertAt(list, i, e) BY <1>6 DEF Enqueued
<1> HIDE DEF lower
<1>8. CASE lower = {}
  <2>1. i = Len(list) + 1 BY <1>6, <1>8
  <2>2. \A k \in 1 .. Len(list) : Level(list[k]) >= Level(e) BY <1>3, <1>4, <1>8
  <2>3. i \in 1 .. Len(list) + 1 /\ i - 1 = Len(list) /\ i .. Len(list) = {} BY <1>2, <2>1
  <2> QED BY <1>1, <1>7, <2>2, <2>3
<1>9. CASE lower # {}
  <2>1. lower \in SUBSET Nat BY <1>2, <1>3
  <2>2. i \in lower /\ \A k \in lower : i <= k BY <1>6, <1>9, <2>1, MinIs
  <2>3. i \in 1 .. Len(list) /\ Level(list[i]) < Level(e) BY <1>3, <2>2
  <2>4. ASSUME NEW k \in 1 .. i - 1 PROVE Level(list[k]) >= Level(e)
    <3>1. k \in 1 .. Len(list) /\ ~(i <= k) BY <1>2, <2>3
    <3>2. ~(Level(list[k]) < Level(e)) BY <1>3, <2>2, <3>1
    <3> QED BY <1>4, <3>1, <3>2
  <2>5. ASSUME NEW k \in i .. Len(list) PROVE Level(list[k]) < Level(e)
    <3>1. k \in 1 .. Len(list) /\ (k = i \/ i < k) BY <1>2, <2>3
    <3>2. k = i \/ Level(list[i]) >= Level(list[k]) BY <1>5, <2>3, <3>1
    <3> QED BY <1>4, <2>3, <3>1, <3>2
  <2>6. i \in 1 .. Len(list) + 1 BY <1>2, <2>3
  <2> QED BY <1>1, <1>7, <2>4, <2>5, <2>6
<1> QED BY <1>8, <1>9

(* What the search of a core relies on stays true while others go on.      *)
LEMMA OthersKeep ==
    ASSUME SchedInv, NEW d \in Core, strategy' = strategy, Follow, scans'[d] = scans[d],
           place'[d] = place[d], refused'[d] = refused[d],
           scans[d] # <<>> => active'[d] = active[d],
           place[d] # 0 => ready'[scans[d][1]] = ready[scans[d][1]]
    PROVE  ScanInv(d)' /\ PlaceInv(d)'
<1>1. ScanInv(d) /\ PlaceInv(d) BY DEF SchedInv
<1>2. scans[d] # <<>> => open'[d] = open[d] \cap Within(d)' BY DEF Follow
<1>3. \A e : /\ QueueOf(e)' = QueueOf(e) /\ Level(e)' = Level(e)
             /\ Skipped(d, e)' <=> Skipped(d, e)
             /\ Past(d, e)' <=> Past(d, e)
  BY SameStrategy
<1>4. ScanInv(d)'
  <2> SUFFICES ASSUME scans[d] # <<>>
               PROVE  /\ active'[d] = Nil /\ InterruptsFirst(scans'[d])
                      /\ open'[d] \subseteq Within(d)'
                      /\ \A e \in open'[d] : /\ e \notin refused'[d]
                                             /\ Contains(scans'[d], QueueOf(e)') \/ Skipped(d, e)'
    BY DEF ScanInv, InterruptsFirst, Contains
  <2> QED BY <1>1, <1>2, <1>3 DEF ScanInv
<1>5. PlaceInv(d)'
  <2> SUFFICES ASSUME place[d] # 0
               PROVE  /\ scans[d] # <<>>
                      /\ \E list, n : list = ready[scans[d][1]] /\ n = place[d] /\ PastIn(d, list, n)'
    BY DEF PlaceInv, PastIn
  <2>1. PastIn(d, ready[scans[d][1]], place[d]) /\ scans[d] # <<>> BY <1>1 DEF PlaceInv
  <2>2. PICK list, n : list = ready[scans[d][1]] /\ n = place[d] OBVIOUS
  <2>3. PastIn(d, list, n) BY <2>1, <2>2
  <2>4. PastIn(d, list, n)' BY <1>3, <2>3 DEF PastIn
  <2> QED BY <2>1, <2>2, <2>4
<1> QED BY <1>4, <1>5

(* The lock of a queue keeps all but the core that scans it out.           *)
LEMMA ScannedIs ==
    ASSUME SchedInv, NEW q, ~Scanned(q), NEW d \in Core, place[d] # 0
    PROVE  scans[d][1] # q
<1>1. scans[d] \in Seq(Queues) /\ scans[d] # <<>> BY DEF SchedInv, SchedTypes, PlaceInv
<1>2. Head(scans[d]) = scans[d][1] BY <1>1
<1> QED BY <1>2 DEF Scanned

LEMMA EnqueueKeeps ==
    ASSUME SchedInv, strategy \in Strategy, NEW e \in Element, EnqueueEvent(e)
    PROVE  SchedInv'
<1>1. SchedTypes /\ Members /\ OrderInv BY DEF SchedInv
<1>2. PICK q : q = QueueOf(e) OBVIOUS
<1>3. q \in Queues BY <1>2, QueueOfIs
<1>4. /\ ~Contains(arrived, e) /\ arrived' = Append(arrived, e)
      /\ ready' = [ready EXCEPT ![q] = Enqueued(ready[q], e)]
      /\ strategy' = strategy /\ active' = active /\ scans' = scans /\ Follow
      /\ place' = place /\ refused' = refused /\ ~Scanned(q)
  BY <1>2 DEF EnqueueEvent
<1>5. PICK i \in 1 .. Len(ready[q]) + 1 :
              /\ Enqueued(ready[q], e) = InsertAt(ready[q], i, e)
              /\ \A k \in 1 .. i - 1 : Level(ready[q][k]) >= Level(e)
              /\ \A k \in i .. Len(ready[q]) : Level(ready[q][k]) < Level(e)
  BY <1>3, EnqueuedIs
<1>6. PICK list : list = ready[q] OBVIOUS
<1>7. list \in Seq(Element) /\ Len(list) \in Nat /\ \A k \in 1 .. Len(list) : list[k] \in Element
  BY <1>1, <1>3, <1>6 DEF SchedTypes
<1>8. PICK t : t = InsertAt(list, i, e) OBVIOUS
<1>9. t \in Seq(Element) /\ Len(t) = Len(list) + 1
  <2>1. InsertAt(list, i, e) \in Seq(Element) /\ Len(InsertAt(list, i, e)) = Len(list) + 1
    BY <1>5, <1>6, <1>7, InsertAtElements
  <2> QED BY <1>8, <2>1
<1>10. \A x : Contains(t, x) <=> Contains(list, x) \/ x = e
  BY <1>5, <1>6, <1>7, <1>8, InsertAtKeeps
<1>11. ready \in [Queues -> Seq(Element)] /\ ready' = [ready EXCEPT ![q] = t]
  BY <1>1, <1>4, <1>5, <1>6, <1>8 DEF SchedTypes
<1>12. ready'[q] = t /\ \A p \in Queues : p # q => ready'[p] = ready[p] BY <1>3, <1>11
<1>13. arrived \in Seq(Element) /\ Distinct(arrived) BY <1>1 DEF SchedTypes, Members
<1>14. /\ arrived' \in Seq(Element) /\ Distinct(arrived')
       /\ \A x : Contains(arrived', x) <=> Contains(arrived, x) \/ x = e
       /\ \A a, b : Before(arrived, a, b) => Before(arrived', a, b)
       /\ \A a : Contains(arrived, a) => Before(arrived', a, e)
  BY <1>4, <1>13, AppendKeeps
<1>15. SchedTypes'
  <2>1. open' = [c \in Core |-> open'[c]] BY <1>4 DEF Follow
  <2>2. ready' \in [Queues -> Seq(Element)] BY <1>9, <1>11
  <2>3. place' \in [Core -> Nat] /\ refused' = [c \in Core |-> refused'[c]]
    BY <1>1, <1>4 DEF SchedTypes
  <2> QED BY <1>1, <1>4, <1>14, <2>1, <2>2, <2>3 DEF SchedTypes
<1>16. Members'
  <2>1. ASSUME NEW p \in Queues, NEW x \in Element
        PROVE  Contains(ready'[p], x) <=> p = QueueOf(x) /\ Contains(arrived', x)
    <3>1. Contains(ready[p], x) <=> p = QueueOf(x) /\ Contains(arrived, x) BY <1>1 DEF Members
    <3> QED BY <1>2, <1>6, <1>10, <1>12, <1>14, <3>1
  <2>2. \A x : QueueOf(x)' = QueueOf(x) BY <1>4, SameStrategy
  <2>3. Distinct(arrived)' BY <1>14 DEF Distinct
  <2>4. \A p \in Queues, x \in Element :
           Contains(ready[p], x)' <=> p = QueueOf(x)' /\ Contains(arrived, x)'
    BY <2>1, <2>2 DEF Contains
  <2> QED BY <2>3, <2>4 DEF Members
<1>17. OrderInv'
  <2>2. ASSUME NEW p \in Queues, NEW k \in 1 .. Len(ready'[p]), NEW l \in 1 .. Len(ready'[p]), k < l
        PROVE  \E a, b : a = ready'[p][k] /\ b = ready'[p][l] /\ Ahead(a, b)'
    <3>1. CASE p # q
      <4>1. ready'[p] = ready[p] BY <1>12, <3>1
      <4>2. PICK a, b : a = ready[p][k] /\ b = ready[p][l] OBVIOUS
      <4>3. Ahead(a, b) BY <1>1, <2>2, <4>1, <4>2 DEF OrderInv
      <4>4. Ahead(a, b)' BY <1>4, <1>14, <4>3, AheadKept
      <4> QED BY <4>1, <4>2, <4>4
    <3>2. CASE p = q
      <4>1. ready'[p] = t /\ k \in 1 .. Len(list) + 1 /\ l \in 1 .. Len(list) + 1
        BY <1>9, <1>12, <3>2
      <4>2. \A x : Level(x)' = Level(x) BY <1>4, SameStrategy
      <4>3. PICK a, b : a = t[k] /\ b = t[l] OBVIOUS
      <4>4. \/ k = i /\ l > i /\ l - 1 \in i .. Len(list) /\ a = e /\ b = list[l - 1]
            \/ l = i /\ k < i /\ k \in 1 .. Len(list) /\ b = e /\ a = list[k]
            \/ \E m, n \in 1 .. Len(list) : m < n /\ a = list[m] /\ b = list[n]
        <5>1. i \in 1 .. Len(list) + 1 BY <1>5, <1>6
        <5>2. LET u == InsertAt(list, i, e)
              IN  \/ k = i /\ l > i /\ l - 1 \in i .. Len(list) /\ u[k] = e /\ u[l] = list[l - 1]
                  \/ l = i /\ k < i /\ k \in 1 .. Len(list) /\ u[l] = e /\ u[k] = list[k]
                  \/ \E m, n \in 1 .. Len(list) : m < n /\ u[k] = list[m] /\ u[l] = list[n]
          BY <1>7, <2>2, <4>1, <5>1, InsertAtKeeps, SMTT(60)
        <5> QED BY <1>8, <4>3, <5>2
      <4>5. CASE k = i /\ l > i /\ l - 1 \in i .. Len(list) /\ a = e /\ b = list[l - 1]
        <5>1. Level(b) < Level(a) BY <1>5, <1>6, <4>5
        <5>2. Level(a) > Level(b)
          <6>1. b \in Element BY <1>5, <1>6, <1>7, <4>5
          <6> QED BY <4>5, <5>1, <6>1, LevelIs
        <5> QED BY <4>1, <4>2, <4>3, <5>2 DEF Ahead
      <4>6. CASE l = i /\ k < i /\ k \in 1 .. Len(list) /\ b = e /\ a = list[k]
        <5>1. k \in 1 .. i - 1 BY <1>5, <4>6
        <5>2. Level(a) >= Level(b) BY <1>5, <1>6, <4>6, <5>1
        <5>3. a \in Element /\ Contains(list, a) BY <1>7, <4>6 DEF Contains
        <5>4. Contains(arrived, a) BY <1>1, <1>3, <1>6, <5>3 DEF Members
        <5>5. Before(arrived', a, b) BY <1>14, <4>6, <5>4
        <5>6. Before(arrived, a, b)' BY <5>5 DEF Before
        <5>7. Level(a) > Level(b) \/ Level(a) = Level(b) BY <4>6, <5>2, <5>3, LevelIs
        <5> QED BY <4>1, <4>2, <4>3, <5>6, <5>7 DEF Ahead
      <4>7. CASE \E m, n \in 1 .. Len(list) : m < n /\ a = list[m] /\ b = list[n]
        <5>1. Ahead(a, b) BY <1>1, <1>3, <1>6, <4>7 DEF OrderInv
        <5>2. Ahead(a, b)' BY <1>4, <1>14, <5>1, AheadKept
        <5> QED BY <4>1, <4>3, <5>2
      <4> QED BY <4>4, <4>5, <4>6, <4>7
    <3> QED BY <3>1, <3>2
  <2> QED BY <2>2 DEF OrderInv, Ahead
<1>18. ASSUME NEW d \in Core PROVE ScanInv(d)' /\ PlaceInv(d)'
  <2>1. place[d] # 0 => scans[d][1] # q BY <1>4, ScannedIs
  <2>2. place[d] # 0 => scans[d][1] \in Queues BY <1>1 DEF SchedInv, SchedTypes, PlaceInv
  <2>3. place[d] # 0 => ready'[scans[d][1]] = ready[scans[d][1]] BY <1>12, <2>1, <2>2
  <2> QED BY <1>4, <2>3, OthersKeep
<1>19. OneScans' BY <1>4 DEF SchedInv, OneScans
<1> QED BY <1>15, <1>16, <1>17, <1>18, <1>19 DEF SchedInv

(* tryTaskLock for one task: it is taken, or the scan goes on.             *)
Takes(c, q, taken) ==
    /\ Free(taken)
    /\ ready' = [ready EXCEPT ![q] = RemoveFirst(ready[q], taken)]
    /\ arrived' = RemoveFirst(arrived, taken)
    /\ active' = [active EXCEPT ![c] = taken]
    /\ scans' = [scans EXCEPT ![c] = <<>>]
    /\ place' = [place EXCEPT ![c] = 0]
    /\ refused' = refused

Refuses(c, q, p) ==
    /\ ~Free(ready[q][p])
    /\ place' = [place EXCEPT ![c] = NextPlace(ready[q], p)]
    /\ refused' = [refused EXCEPT ![c] = refused[c] \cup {ready[q][p]}]
    /\ UNCHANGED <<ready, arrived, active, scans>>

Scanning(c, q, p) == scans[c] # <<>> /\ q = scans[c][1] /\ place[c] = p /\ p # 0

LEMMA TryTaskIs ==
    ASSUME SchedInv, NEW c \in Core, TryTask(c)
    PROVE  /\ strategy' = strategy /\ Follow
           /\ \E q \in Queues : \E p \in 1 .. Len(ready[q]) :
                 Scanning(c, q, p) /\ (Takes(c, q, ready[q][p]) \/ Refuses(c, q, p))
<1>1. /\ scans[c] \in Seq(Queues) /\ scans[c] # <<>> /\ place[c] \in Nat /\ place[c] # 0
  BY DEF SchedInv, SchedTypes, PlaceInv, TryTask
<1>2. PICK q : q = scans[c][1] OBVIOUS
<1>3. q = Head(scans[c]) /\ q \in Queues BY <1>1, <1>2
<1>4. PICK p : p = place[c] OBVIOUS
<1>5. ready[q] \in Seq(Element) BY <1>3 DEF SchedInv, SchedTypes
<1>6. p \in 1 .. Len(ready[q]) BY <1>1, <1>3, <1>4, <1>5 DEF TryTask
<1>7. Takes(c, q, ready[q][p]) \/ Refuses(c, q, p) BY <1>3, <1>4 DEF TryTask, Takes, Refuses
<1>8. strategy' = strategy /\ Follow BY DEF TryTask
<1> QED BY <1>1, <1>2, <1>3, <1>4, <1>6, <1>7, <1>8 DEF Scanning

(* The queue that a core scans is no other core's.                         *)
LEMMA OtherQueues ==
    ASSUME SchedInv, NEW c \in Core, NEW d \in Core, d # c, NEW q, NEW p, Scanning(c, q, p),
           place[d] # 0
    PROVE  scans[d][1] # q /\ scans[d][1] \in Queues
<1>1. scans[d][1] # q BY DEF SchedInv, OneScans, Scanning
<1>2. scans[d] \in Seq(Queues) /\ scans[d] # <<>> BY DEF SchedInv, SchedTypes, PlaceInv
<1> QED BY <1>1, <1>2

LEMMA TakesKeeps ==
    ASSUME SchedInv, strategy \in Strategy, NEW c \in Core, NEW q \in Queues,
           NEW p \in 1 .. Len(ready[q]), Scanning(c, q, p), NEW taken, taken = ready[q][p],
           Takes(c, q, taken), strategy' = strategy, Follow
    PROVE  SchedInv'
<1>1. SchedTypes /\ Members /\ OrderInv BY DEF SchedInv
<1>2. /\ ready' = [ready EXCEPT ![q] = RemoveFirst(ready[q], taken)]
      /\ arrived' = RemoveFirst(arrived, taken)
      /\ active' = [active EXCEPT ![c] = taken]
      /\ scans' = [scans EXCEPT ![c] = <<>>] /\ place' = [place EXCEPT ![c] = 0]
      /\ strategy' = strategy /\ Follow /\ refused' = refused
  BY DEF Takes
<1>3. PICK list : list = ready[q] OBVIOUS
<1>4. list \in Seq(Element) /\ Distinct(list) BY <1>1, <1>3, ReadyDistinct
<1>5. PICK t : t = RemoveFirst(list, taken) OBVIOUS
<1>6. /\ t \in Seq(Element)
      /\ \A x : Contains(t, x) <=> Contains(list, x) /\ x # taken
      /\ \A a, b : Before(t, a, b) <=> Before(list, a, b) /\ a # taken /\ b # taken
  BY <1>4, <1>5, RemoveFirstKeeps
<1>7. arrived \in Seq(Element) /\ Distinct(arrived) BY <1>1 DEF SchedTypes, Members
<1>8. /\ arrived' \in Seq(Element) /\ Distinct(arrived')
      /\ \A x : Contains(arrived', x) <=> Contains(arrived, x) /\ x # taken
      /\ \A a, b : Before(arrived', a, b) <=> Before(arrived, a, b) /\ a # taken /\ b # taken
  BY <1>2, <1>7, RemoveFirstKeeps
<1>9. ready \in [Queues -> Seq(Element)] /\ ready' = [ready EXCEPT ![q] = t]
  BY <1>1, <1>2, <1>3, <1>5 DEF SchedTypes
<1>10. ready'[q] = t /\ \A n \in Queues : n # q => ready'[n] = ready[n] BY <1>9
<1>11. taken \in Element /\ Contains(list, taken) /\ QueueOf(taken) = q
  <2>1. taken \in Element /\ Contains(list, taken) BY <1>3, <1>4 DEF Contains
  <2> QED BY <1>1, <1>3, <2>1 DEF Members
<1>12. /\ scans \in [Core -> Seq(Queues)] /\ active \in [Core -> Element \cup {Nil}]
       /\ place \in [Core -> Nat]
  BY <1>1 DEF SchedTypes
<1>13. SchedTypes'
  <2>1. open' = [d \in Core |-> open'[d]] BY <1>2 DEF Follow
  <2>2. ready' \in [Queues -> Seq(Element)] BY <1>6, <1>9
  <2>3. active' \in [Core -> Element \cup {Nil}] BY <1>2, <1>11, <1>12
  <2>4. scans' \in [Core -> Seq(Queues)] /\ place' \in [Core -> Nat] BY <1>2, <1>12
  <2>5. refused' = [d \in Core |-> refused'[d]] BY <1>1, <1>2 DEF SchedTypes
  <2>6. strategy' \in Strategy \cup {"none"} BY <1>1, <1>2 DEF SchedTypes
  <2>7. arrived' \in Seq(Element) BY <1>8
  <2> QED BY <2>1, <2>2, <2>3, <2>4, <2>5, <2>6, <2>7 DEF SchedTypes, Strategy
<1>14. Members'
  <2>1. ASSUME NEW n \in Queues, NEW x \in Element
        PROVE  Contains(ready'[n], x) <=> n = QueueOf(x) /\ Contains(arrived', x)
    <3>1. Contains(ready[n], x) <=> n = QueueOf(x) /\ Contains(arrived, x) BY <1>1 DEF Members
    <3>2. x # Nil BY NilAssumption
    <3> QED BY <1>3, <1>6, <1>8, <1>10, <1>11, <3>1, <3>2
  <2>2. \A x : QueueOf(x)' = QueueOf(x) BY <1>2, SameStrategy
  <2>3. Distinct(arrived)' BY <1>8 DEF Distinct
  <2>4. \A n \in Queues, x \in Element :
           Contains(ready[n], x)' <=> n = QueueOf(x)' /\ Contains(arrived, x)'
    BY <2>1, <2>2 DEF Contains
  <2> QED BY <2>3, <2>4 DEF Members
<1>15. OrderInv'
  <2>2. ASSUME NEW n \in Queues, NEW k \in 1 .. Len(ready'[n]), NEW l \in 1 .. Len(ready'[n]), k < l
        PROVE  \E a, b : a = ready'[n][k] /\ b = ready'[n][l] /\ Ahead(a, b)'
    <3>1. PICK a, b : a = ready'[n][k] /\ b = ready'[n][l] OBVIOUS
    <3>2. Before(ready'[n], a, b) BY <2>2, <3>1 DEF Before
    <3>3. a # taken /\ b # taken /\ Before(ready[n], a, b)
      <4>1. CASE n = q BY <1>3, <1>6, <1>10, <3>2, <4>1
      <4>2. CASE n # q
        <5>1. Before(ready[n], a, b) BY <1>10, <3>2, <4>2
        <5>2. ready[n] \in Seq(Element) BY <1>9
        <5>3. a \in Element /\ b \in Element /\ Contains(ready[n], a) /\ Contains(ready[n], b)
          BY <5>1, <5>2 DEF Before, Contains
        <5>4. QueueOf(a) = n /\ QueueOf(b) = n BY <1>1, <5>3 DEF Members
        <5> QED BY <1>11, <4>2, <5>1, <5>3, <5>4, NilAssumption
      <4> QED BY <4>1, <4>2
    <3>4. Ahead(a, b) BY <1>1, <3>3 DEF Before, OrderInv
    <3>5. Before(arrived, a, b) => Before(arrived', a, b) BY <1>8, <3>3
    <3>6. Ahead(a, b)' BY <1>2, <3>4, <3>5, AheadKept
    <3> QED BY <3>1, <3>6
  <2> QED BY <2>2 DEF OrderInv, Ahead
<1>16. ASSUME NEW d \in Core PROVE ScanInv(d)' /\ PlaceInv(d)'
  <2>1. CASE d = c
    <3>1. scans'[c] = <<>> /\ place'[c] = 0 BY <1>2, <1>12
    <3> QED BY <2>1, <3>1 DEF ScanInv, PlaceInv
  <2>2. CASE d # c
    <3>1. scans'[d] = scans[d] /\ active'[d] = active[d] /\ place'[d] = place[d] /\ refused'[d] = refused[d]
      BY <1>2, <1>12, <2>2
    <3>2. place[d] # 0 => ready'[scans[d][1]] = ready[scans[d][1]] BY <1>10, <2>2, OtherQueues
    <3> QED BY <1>2, <3>1, <3>2, OthersKeep
  <2> QED BY <2>1, <2>2
<1>17. OneScans'
  <2>1. \A d \in Core : place'[d] # 0 => place[d] # 0 /\ scans'[d] = scans[d] BY <1>2, <1>12
  <2> QED BY <2>1 DEF SchedInv, OneScans
<1> QED BY <1>13, <1>14, <1>15, <1>16, <1>17 DEF SchedInv

(* A step that leaves the ready tasks alone.                               *)
LEMMA ReadyKept ==
    ASSUME SchedInv, UNCHANGED <<strategy, ready, arrived>>,
           active' \in [Core -> Element \cup {Nil}], scans' \in [Core -> Seq(Queues)],
           place' \in [Core -> Nat],
           open' = [d \in Core |-> open'[d]], refused' = [d \in Core |-> refused'[d]]
    PROVE  SchedTypes' /\ Members' /\ OrderInv'
<1>1. SchedTypes /\ Members /\ OrderInv BY DEF SchedInv
<1>2. SchedTypes' BY <1>1 DEF SchedTypes
<1>3. \A x : QueueOf(x)' = QueueOf(x) /\ Level(x)' = Level(x) BY SameStrategy
<1>4. Members' BY <1>1, <1>3 DEF Members, Distinct, Contains
<1>5. OrderInv'
  <2>1. \A a, b : Ahead(a, b) => Ahead(a, b)' BY <1>3 DEF Ahead, Before
  <2>2. \A q \in Queues : \A i, j \in 1 .. Len(ready'[q]) : i < j =>
           \E a, b : a = ready'[q][i] /\ b = ready'[q][j] /\ Ahead(a, b)'
    BY <1>1, <2>1 DEF OrderInv
  <2> QED BY <2>2 DEF OrderInv, Ahead
<1> QED BY <1>2, <1>4, <1>5

LEMMA FinishTaskKeeps ==
    ASSUME SchedInv, NEW c \in Core, FinishTask(c)
    PROVE  SchedInv'
<1>1. SchedTypes /\ OneScans BY DEF SchedInv
<1>2. /\ active[c] # Nil /\ active' = [active EXCEPT ![c] = Nil]
      /\ UNCHANGED <<strategy, ready, scans, place, refused, arrived>> /\ Follow
  BY DEF FinishTask
<1>3. /\ active' \in [Core -> Element \cup {Nil}] /\ scans' \in [Core -> Seq(Queues)]
      /\ place' \in [Core -> Nat] /\ refused' = [d \in Core |-> refused'[d]]
  BY <1>1, <1>2 DEF SchedTypes
<1>4. open' = [d \in Core |-> open'[d]] BY <1>2 DEF Follow
<1>5. ASSUME NEW d \in Core PROVE ScanInv(d)' /\ PlaceInv(d)'
  <2>1. scans[d] # <<>> => d # c BY <1>2 DEF SchedInv, ScanInv
  <2>2. scans[d] # <<>> => active'[d] = active[d] BY <1>1, <1>2, <2>1 DEF SchedTypes
  <2> QED BY <1>2, <2>2, OthersKeep
<1>6. SchedTypes' /\ Members' /\ OrderInv' BY <1>2, <1>3, <1>4, ReadyKept
<1>7. OneScans' BY <1>1, <1>2 DEF OneScans
<1> QED BY <1>5, <1>6, <1>7 DEF SchedInv

(* A search of a core that leaves the tasks, and the other cores, alone.   *)
LEMMA SearchKeeps ==
    ASSUME SchedInv, NEW c \in Core, UNCHANGED <<strategy, ready, arrived, active>>,
           scans' \in [Core -> Seq(Queues)], place' \in [Core -> Nat],
           open' = [d \in Core |-> open'[d]], refused' = [d \in Core |-> refused'[d]],
           \A d \in Core : d # c =>
              /\ scans'[d] = scans[d] /\ place'[d] = place[d] /\ refused'[d] = refused[d]
              /\ scans[d] # <<>> => open'[d] \subseteq open[d],
           ScanInv(c)', PlaceInv(c)',
           place'[c] # 0 => \/ place[c] # 0 /\ scans'[c] = scans[c]
                            \/ ~Scanned(scans'[c][1])
    PROVE  SchedInv'
<1>1. SchedTypes' /\ Members' /\ OrderInv'
  <2>1. active' \in [Core -> Element \cup {Nil}] BY DEF SchedInv, SchedTypes
  <2> QED BY <2>1, ReadyKept
<1>2. \A d : Within(d)' = Within(d) BY DEF Within, Free, Scans
<1>3. ASSUME NEW d \in Core, d # c PROVE ScanInv(d)' /\ PlaceInv(d)'
  <2>1. ScanInv(d) /\ PlaceInv(d) BY DEF SchedInv
  <2>2. /\ scans'[d] = scans[d] /\ place'[d] = place[d] /\ refused'[d] = refused[d]
        /\ scans[d] # <<>> => open'[d] \subseteq open[d]
    BY <1>3
  <2>3. \A e : /\ QueueOf(e)' = QueueOf(e) /\ Level(e)' = Level(e)
               /\ Skipped(d, e)' <=> Skipped(d, e)
               /\ Past(d, e)' <=> Past(d, e)
    BY <2>2, SameStrategy
  <2>4. ScanInv(d)'
    <3> SUFFICES ASSUME scans[d] # <<>>
                 PROVE  /\ active'[d] = Nil /\ InterruptsFirst(scans'[d])
                        /\ open'[d] \subseteq Within(d)'
                        /\ \A e \in open'[d] :
                              e \notin refused'[d] /\ (Contains(scans'[d], QueueOf(e)') \/ Skipped(d, e)')
      BY <2>2 DEF ScanInv, InterruptsFirst, Contains
    <3>1. /\ active[d] = Nil /\ InterruptsFirst(scans[d]) /\ open[d] \subseteq Within(d)
          /\ \A e \in open[d] :
                e \notin refused[d] /\ (Contains(scans[d], QueueOf(e)) \/ Skipped(d, e))
      BY <2>1 DEF ScanInv
    <3> QED BY <1>2, <2>2, <2>3, <3>1
  <2>5. PlaceInv(d)'
    BY <2>1, <2>2, <2>3 DEF PlaceInv, PastIn
  <2> QED BY <2>4, <2>5
<1>4. OneScans'
  <2>1. ASSUME NEW d \in Core, d # c, place'[d] # 0, place'[c] # 0 PROVE scans'[d][1] # scans'[c][1]
    <3>1. place[d] # 0 /\ scans'[d] = scans[d] BY <2>1
    <3>2. CASE place[c] # 0 /\ scans'[c] = scans[c] BY <2>1, <3>1, <3>2 DEF SchedInv, OneScans
    <3>3. CASE ~Scanned(scans'[c][1]) BY <2>1, <3>1, <3>3, ScannedIs
    <3> QED BY <2>1, <3>2, <3>3
  <2>2. ASSUME NEW d \in Core, NEW e \in Core, d # c, e # c, d # e, place'[d] # 0, place'[e] # 0
        PROVE  scans'[d][1] # scans'[e][1]
    <3>1. /\ place'[d] = place[d] /\ scans'[d] = scans[d]
          /\ place'[e] = place[e] /\ scans'[e] = scans[e]
      BY <2>2
    <3>2. place[d] # 0 /\ place[e] # 0 BY <2>2, <3>1
    <3>3. scans[d][1] # scans[e][1] BY <2>2, <3>2 DEF SchedInv, OneScans
    <3> QED BY <3>1, <3>3
  <2> QED BY <2>1, <2>2 DEF OneScans
<1> QED BY <1>1, <1>3, <1>4 DEF SchedInv

LEMMA StartGetEventKeeps ==
    ASSUME SchedInv, strategy \in Strategy, NEW c \in Core, StartGetEvent(c)
    PROVE  SchedInv'
<1>1. SchedTypes /\ Members /\ PlaceInv(c) BY DEF SchedInv
<1>2. /\ active[c] = Nil /\ scans[c] = <<>> /\ scans' = [scans EXCEPT ![c] = Scans(c)]
      /\ open' = [open EXCEPT ![c] = Within(c)] /\ refused' = [refused EXCEPT ![c] = {}]
      /\ UNCHANGED <<strategy, ready, active, place, arrived>>
  BY DEF StartGetEvent
<1>3. Scans(c) \in Seq(Queues) /\ InterruptsFirst(Scans(c)) BY ScansFacts
<1>4. scans' \in [Core -> Seq(Queues)] /\ place' \in [Core -> Nat]
  BY <1>1, <1>2, <1>3 DEF SchedTypes
<1>5. open = [d \in Core |-> open[d]] /\ refused = [d \in Core |-> refused[d]] BY <1>1 DEF SchedTypes
<1>6. open' = [d \in Core |-> open'[d]] /\ refused' = [d \in Core |-> refused'[d]] BY <1>2, <1>5
<1>7. /\ open'[c] = Within(c) /\ scans'[c] = Scans(c) /\ refused'[c] = {}
      /\ \A d \in Core : d # c =>
            open'[d] = open[d] /\ scans'[d] = scans[d] /\ refused'[d] = refused[d]
  <2>1. scans \in [Core -> Seq(Queues)] BY <1>1 DEF SchedTypes
  <2> QED BY <1>2, <1>5, <2>1
<1>8. Within(c)' = Within(c) BY <1>2 DEF Within, Free, Scans
<1>9. \A x : QueueOf(x)' = QueueOf(x) BY <1>2, SameStrategy
<1>10. ScanInv(c)'
  <2>1. \A e \in open'[c] : Contains(scans'[c], QueueOf(e)) BY <1>1, <1>7, WithinIs
  <2>2. InterruptsFirst(scans'[c]) /\ active'[c] = Nil BY <1>2, <1>3, <1>7
  <2>3. open'[c] = Within(c)' BY <1>7, <1>8
  <2> QED BY <1>7, <1>9, <2>1, <2>2, <2>3 DEF ScanInv, InterruptsFirst, Contains
<1>11. place'[c] = 0 BY <1>1, <1>2 DEF PlaceInv
<1>12. PlaceInv(c)' BY <1>11 DEF PlaceInv
<1> QED BY <1>2, <1>4, <1>6, <1>7, <1>10, <1>11, <1>12, SearchKeeps

LEMMA StartScanKeeps ==
    ASSUME SchedInv, NEW c \in Core, StartScan(c)
    PROVE  SchedInv'
<1>1. SchedTypes /\ ScanInv(c) BY DEF SchedInv
<1>2. /\ scans[c] # <<>> /\ place' = [place EXCEPT ![c] = 1] /\ ~Scanned(Head(scans[c]))
      /\ UNCHANGED <<strategy, ready, active, scans, refused, open, arrived>>
  BY DEF StartScan
<1>3. place' \in [Core -> Nat] /\ place'[c] = 1 /\ \A d \in Core : d # c => place'[d] = place[d]
  BY <1>1, <1>2 DEF SchedTypes
<1>4. /\ scans' \in [Core -> Seq(Queues)] /\ open' = [d \in Core |-> open'[d]]
      /\ refused' = [d \in Core |-> refused'[d]]
  BY <1>1, <1>2 DEF SchedTypes
<1>5. Head(scans[c]) = scans[c][1] BY <1>1, <1>2 DEF SchedTypes
<1>6. ScanInv(c)'
  <2>1. Within(c)' = Within(c) BY <1>2 DEF Within, Free, Scans
  <2>2. \A e : QueueOf(e)' = QueueOf(e) /\ (Skipped(c, e)' <=> Skipped(c, e)) BY <1>2, SameStrategy
  <2> QED BY <1>1, <1>2, <2>1, <2>2 DEF ScanInv, InterruptsFirst, Contains
<1>7. PlaceInv(c)' BY <1>2, <1>3 DEF PlaceInv, PastIn
<1> QED BY <1>2, <1>3, <1>4, <1>5, <1>6, <1>7, SearchKeeps

LEMMA LevelsDescend ==
    ASSUME SchedInv, NEW q \in Queues, NEW i \in 1 .. Len(ready[q]), NEW j \in 1 .. Len(ready[q]),
           i <= j
    PROVE  /\ ready[q][i] \in Element /\ ready[q][j] \in Element
           /\ Level(ready[q][i]) >= Level(ready[q][j])
<1>1. ready[q] \in Seq(Element) BY DEF SchedInv, SchedTypes
<1>2. ready[q][i] \in Element /\ ready[q][j] \in Element BY <1>1
<1>3. Level(ready[q][i]) \in Nat /\ Level(ready[q][j]) \in Nat BY <1>2, LevelIs
<1>4. i = j \/ Ahead(ready[q][i], ready[q][j]) BY <1>1 DEF SchedInv, OrderInv
<1> QED BY <1>2, <1>3, <1>4 DEF Ahead

(* After a locked task come the tasks of its level, all skipped, and then  *)
(* only lower ones.                                                        *)
LEMMA NextPlaceIs ==
    ASSUME SchedInv, NEW c \in Core, NEW q \in Queues, NEW p \in 1 .. Len(ready[q])
    PROVE  /\ NextPlace(ready[q], p) \in p + 1 .. Len(ready[q]) + 1
           /\ \A k \in 1 .. Len(ready[q]) : p < k /\ k < NextPlace(ready[q], p) =>
                 strategy \notin Fifo /\ Priority[ready[q][k]] = Priority[ready[q][p]]
           /\ strategy \notin Fifo /\ NextPlace(ready[q], p) <= Len(ready[q]) =>
                 Level(ready[q][p]) > Level(ready[q][NextPlace(ready[q], p)])
<1>1. PICK list : list = ready[q] OBVIOUS
<1>2. list \in Seq(Element) /\ Len(list) \in Nat /\ p \in 1 .. Len(list)
  BY <1>1 DEF SchedInv, SchedTypes
<1> DEFINE S == {j \in p + 1 .. Len(list) : strategy \in Fifo \/ Priority[list[j]] # Priority[list[p]]}
                    \cup {Len(list) + 1}
<1>3. S \in SUBSET Nat /\ S # {} /\ S \subseteq p + 1 .. Len(list) + 1 BY <1>2
<1>4. PICK n : n = NextPlace(list, p) OBVIOUS
<1>5. n = Min(S) BY <1>4 DEF NextPlace
<1>6. n \in S /\ \A k \in S : n <= k BY <1>3, <1>5, MinIs
<1>7. n \in p + 1 .. Len(list) + 1 BY <1>3, <1>6
<1>8. ASSUME NEW k \in 1 .. Len(list), p < k, k < n
      PROVE  strategy \notin Fifo /\ Priority[list[k]] = Priority[list[p]]
  <2>1. k \in p + 1 .. Len(list) /\ ~(n <= k) BY <1>2, <1>7, <1>8
  <2>2. k \notin S BY <1>6, <2>1
  <2> QED BY <2>1, <2>2
<1>9. ASSUME strategy \notin Fifo, n <= Len(list) PROVE Level(list[p]) > Level(list[n])
  <2>1. n # Len(list) + 1 /\ n \in 1 .. Len(list) /\ p <= n BY <1>2, <1>7, <1>9
  <2>2. Priority[list[n]] # Priority[list[p]] BY <1>6, <1>9, <2>1
  <2>3. /\ list[p] \in Element /\ list[n] \in Element /\ Level(list[p]) >= Level(list[n])
    BY <1>1, <1>2, <2>1, LevelsDescend
  <2>4. Level(list[p]) \in Nat /\ Level(list[n]) \in Nat /\ Level(list[p]) # Level(list[n])
    <3>1. Level(list[p]) = Priority[list[p]] /\ Level(list[n]) = Priority[list[n]]
      BY <1>9 DEF Level
    <3> QED BY <2>2, <2>3, <3>1, LevelIs
  <2> QED BY <2>3, <2>4
<1> QED BY <1>1, <1>4, <1>7, <1>8, <1>9

LEMMA RefusesKeeps ==
    ASSUME SchedInv, strategy \in Strategy, NEW c \in Core, NEW q \in Queues,
           NEW p \in 1 .. Len(ready[q]), Scanning(c, q, p), Refuses(c, q, p),
           strategy' = strategy, Follow
    PROVE  SchedInv'
<1>1. SchedTypes /\ Members /\ ScanInv(c) /\ PlaceInv(c) BY DEF SchedInv
<1>2. PICK list, n, r : list = ready[q] /\ n = NextPlace(list, p) /\ r = list[p] OBVIOUS
<1>3. /\ ~Free(r) /\ place' = [place EXCEPT ![c] = n]
      /\ refused' = [refused EXCEPT ![c] = refused[c] \cup {r}]
      /\ UNCHANGED <<ready, arrived, active, scans>>
      /\ scans[c] # <<>> /\ q = scans[c][1] /\ place[c] = p /\ p # 0
  BY <1>2 DEF Refuses, Scanning
<1>4. list \in Seq(Element) /\ Len(list) \in Nat /\ p \in 1 .. Len(list)
  BY <1>1, <1>2 DEF SchedTypes
<1>5. /\ n \in p + 1 .. Len(list) + 1
      /\ \A k \in 1 .. Len(list) : p < k /\ k < n =>
            strategy \notin Fifo /\ Priority[list[k]] = Priority[list[p]]
      /\ strategy \notin Fifo /\ n <= Len(list) => Level(list[p]) > Level(list[n])
  BY <1>2, NextPlaceIs
<1>6. /\ place' \in [Core -> Nat] /\ place'[c] = n /\ refused'[c] = refused[c] \cup {r}
      /\ \A d \in Core : d # c => place'[d] = place[d] /\ refused'[d] = refused[d]
      /\ refused' = [d \in Core |-> refused'[d]] /\ scans' \in [Core -> Seq(Queues)]
  <2>1. refused = [d \in Core |-> refused[d]] /\ place \in [Core -> Nat] BY <1>1 DEF SchedTypes
  <2>2. n \in Nat BY <1>4, <1>5
  <2>3. scans' \in [Core -> Seq(Queues)] BY <1>1, <1>3 DEF SchedTypes
  <2> QED BY <1>3, <2>1, <2>2, <2>3
<1>7. open' = [d \in Core |-> open'[d]] BY DEF Follow
<1>8. \A d \in Core : scans[d] # <<>> => open'[d] = open[d] \cap Within(d)'
  BY <1>3 DEF Follow
<1>9. \A d : Within(d)' = Within(d) BY <1>3 DEF Within, Free, Scans
<1>10. \A e : /\ QueueOf(e)' = QueueOf(e) /\ Level(e)' = Level(e)
              /\ Skipped(c, e) => Skipped(c, e)'
  <2>1. \A e : QueueOf(e)' = QueueOf(e) /\ Level(e)' = Level(e) BY SameStrategy
  <2> QED BY <1>6, <2>1 DEF Skipped
<1>11. ScanInv(c)'
  <2>1. open'[c] \subseteq open[c] /\ open'[c] \subseteq Within(c)' BY <1>3, <1>8
  <2>2. /\ active'[c] = Nil /\ InterruptsFirst(scans'[c]) /\ scans'[c] = scans[c]
        /\ open[c] \subseteq Within(c)
        /\ \A e \in open[c] : e \notin refused[c] /\ (Contains(scans[c], QueueOf(e)) \/ Skipped(c, e))
    BY <1>1, <1>3 DEF ScanInv
  <2>3. \A e \in open'[c] : e # r BY <1>3, <2>1, <2>2 DEF Within
  <2>4. \A e \in open'[c] : /\ e \notin refused'[c]
                            /\ Contains(scans'[c], QueueOf(e)') \/ Skipped(c, e)'
    BY <1>6, <1>10, <2>1, <2>2, <2>3
  <2> QED BY <2>1, <2>2, <2>4 DEF ScanInv, InterruptsFirst, Contains
<1>12. PlaceInv(c)'
  <2>1. PastIn(c, list, p) BY <1>1, <1>2, <1>3 DEF PlaceInv
  <2>2. ASSUME NEW k \in 1 .. Len(list), k < n PROVE Past(c, list[k])'
    <3>1. CASE k < p
      <4>1. Past(c, list[k]) BY <2>1, <3>1 DEF PastIn
      <4> QED BY <1>6, <1>10, <4>1 DEF Past
    <3>2. CASE strategy \in Fifo /\ ~(k < p)
      <4>1. k = p BY <1>4, <1>5, <2>2, <3>2
      <4>2. list[k] \in refused'[c] BY <1>2, <1>6, <4>1
      <4> QED BY <3>2, <4>2 DEF Past
    <3>3. CASE strategy \notin Fifo /\ ~(k < p)
      <4>1. k = p \/ p < k BY <1>4, <3>3
      <4>2. Priority[list[k]] = Priority[r] BY <1>2, <1>5, <2>2, <4>1
      <4>3. list[k] \in Element /\ r \in Element /\ Contains(list, list[k]) /\ Contains(list, r)
        BY <1>2, <1>4 DEF Contains
      <4>4. QueueOf(list[k]) = q /\ QueueOf(r) = q BY <1>1, <1>2, <4>3 DEF Members
      <4>5. r \in refused'[c] BY <1>6
      <4>6. Skipped(c, list[k])' BY <1>10, <3>3, <4>2, <4>4, <4>5 DEF Skipped
      <4> QED BY <3>3, <4>6 DEF Past
    <3> QED BY <3>1, <3>2, <3>3
  <2>3. ASSUME NEW k \in 1 .. Len(list), k < n, strategy \notin Fifo, n <= Len(list)
        PROVE  Level(list[k]) > Level(list[n])
    <3>1. n \in 1 .. Len(list) BY <1>4, <1>5, <2>3
    <3>2. list[k] \in Element /\ list[p] \in Element /\ list[n] \in Element BY <1>4, <3>1
    <3>3. /\ Level(list[k]) \in Nat /\ Level(list[p]) \in Nat /\ Level(list[n]) \in Nat
          /\ Level(list[p]) > Level(list[n])
      BY <1>5, <2>3, <3>2, LevelIs
    <3>4. CASE k < p
      <4>1. Level(list[k]) > Level(list[p]) BY <1>4, <2>1, <2>3, <3>4 DEF PastIn
      <4> QED BY <3>3, <4>1
    <3>5. CASE k = p BY <3>3, <3>5
    <3>6. CASE p < k
      <4>1. Level(list[k]) = Level(list[p]) BY <1>5, <2>3, <3>6 DEF Level
      <4> QED BY <3>3, <4>1
    <3> QED BY <1>4, <3>4, <3>5, <3>6
  <2>4. PastIn(c, list, n)' BY <1>10, <2>2, <2>3 DEF PastIn
  <2>5. scans'[c] # <<>> /\ ready'[scans'[c][1]] = list /\ place'[c] = n BY <1>2, <1>3, <1>6
  <2> QED BY <2>4, <2>5 DEF PlaceInv, PastIn
<1>13. \A d \in Core : d # c =>
          /\ scans'[d] = scans[d] /\ place'[d] = place[d] /\ refused'[d] = refused[d]
          /\ scans[d] # <<>> => open'[d] \subseteq open[d]
  BY <1>3, <1>6, <1>8
<1>14. place[c] # 0 /\ scans'[c] = scans[c] BY <1>3
<1> QED BY <1>3, <1>6, <1>7, <1>11, <1>12, <1>13, <1>14, SearchKeeps

(* A scan that ends has tried or skipped all tasks of its queue.           *)
LEMMA EndScanIs ==
    ASSUME SchedInv, NEW c \in Core, EndScan(c)
    PROVE  /\ scans[c] \in Seq(Queues) /\ scans[c] # <<>>
           /\ place' = [place EXCEPT ![c] = 0] /\ scans' = [scans EXCEPT ![c] = Tail(scans[c])]
           /\ UNCHANGED <<strategy, ready, active, refused, arrived>> /\ Follow
           /\ \A k \in 1 .. Len(ready[scans[c][1]]) : Past(c, ready[scans[c][1]][k])
<1>1. SchedTypes /\ PlaceInv(c) BY DEF SchedInv
<1>2. /\ place[c] # 0 /\ place[c] > Len(ready[Head(scans[c])])
      /\ place' = [place EXCEPT ![c] = 0] /\ scans' = [scans EXCEPT ![c] = Tail(scans[c])]
      /\ UNCHANGED <<strategy, ready, active, refused, arrived>> /\ Follow
  BY DEF EndScan
<1>3. scans[c] \in Seq(Queues) /\ scans[c] # <<>> BY <1>1, <1>2 DEF SchedTypes, PlaceInv
<1>4. PICK q : q = scans[c][1] OBVIOUS
<1>5. q = Head(scans[c]) /\ q \in Queues BY <1>3, <1>4
<1>6. ready[q] \in Seq(Element) /\ place[c] \in Nat BY <1>1, <1>5 DEF SchedTypes
<1>7. \A k \in 1 .. Len(ready[q]) : k < place[c] BY <1>2, <1>5, <1>6
<1>8. PastIn(c, ready[q], place[c]) BY <1>1, <1>2, <1>4 DEF PlaceInv
<1>9. \A k \in 1 .. Len(ready[q]) : Past(c, ready[q][k]) BY <1>7, <1>8 DEF PastIn
<1> QED BY <1>2, <1>3, <1>4, <1>9

(* So what was free all along is in another queue or of a skipped level.   *)
LEMMA NotPast ==
    ASSUME SchedInv, strategy \in Strategy, NEW c \in Core, scans[c] # <<>>, NEW e \in open[c],
           ~Skipped(c, e)
    PROVE  /\ e \in Element /\ ~Past(c, e) /\ Contains(scans[c], QueueOf(e))
           /\ Contains(ready[QueueOf(e)], e)
<1>1. /\ SchedTypes /\ Members /\ e \in Within(c) /\ e \notin refused[c]
      /\ Contains(scans[c], QueueOf(e))
  BY DEF SchedInv, ScanInv
<1>2. ~Past(c, e) BY <1>1 DEF Past
<1> QED BY <1>1, <1>2, WithinIs

LEMMA EndScanKeeps ==
    ASSUME SchedInv, strategy \in Strategy, NEW c \in Core, EndScan(c)
    PROVE  SchedInv'
<1>1. SchedTypes /\ Members /\ ScanInv(c) BY DEF SchedInv
<1>2. /\ scans[c] \in Seq(Queues) /\ scans[c] # <<>>
      /\ place' = [place EXCEPT ![c] = 0] /\ scans' = [scans EXCEPT ![c] = Tail(scans[c])]
      /\ UNCHANGED <<strategy, ready, active, refused, arrived>> /\ Follow
      /\ \A k \in 1 .. Len(ready[scans[c][1]]) : Past(c, ready[scans[c][1]][k])
  BY EndScanIs
<1>3. PICK s \in Seq(Queues) : s = scans[c] BY <1>2
<1>4. PICK u : u = Tail(s) OBVIOUS
<1>5. /\ s # <<>> /\ u \in Seq(Queues) /\ Len(s) \in Nat /\ Len(u) = Len(s) - 1
      /\ \A i \in 1 .. Len(u) : u[i] = s[i + 1] /\ i + 1 \in 1 .. Len(s)
  BY <1>2, <1>3, <1>4
<1>6. /\ scans' \in [Core -> Seq(Queues)] /\ scans'[c] = u
      /\ place' \in [Core -> Nat] /\ place'[c] = 0
      /\ \A d \in Core : d # c => scans'[d] = scans[d] /\ place'[d] = place[d]
      /\ refused' = [d \in Core |-> refused'[d]] /\ open' = [d \in Core |-> open'[d]]
  <2>1. scans \in [Core -> Seq(Queues)] /\ place \in [Core -> Nat] BY <1>1 DEF SchedTypes
  <2>2. scans' = [scans EXCEPT ![c] = u] BY <1>2, <1>3, <1>4
  <2>3. refused' = [d \in Core |-> refused'[d]] BY <1>1, <1>2 DEF SchedTypes
  <2>4. open' = [d \in Core |-> open'[d]] BY <1>2 DEF Follow
  <2> QED BY <1>2, <1>5, <2>1, <2>2, <2>3, <2>4
<1>7. \A d \in Core : scans[d] # <<>> => open'[d] \subseteq open[d]
  BY <1>2 DEF Follow
<1>8. PlaceInv(c)' BY <1>6 DEF PlaceInv
<1>9. ScanInv(c)'
  <2> SUFFICES ASSUME u # <<>>
               PROVE  /\ active'[c] = Nil /\ InterruptsFirst(u)
                      /\ open'[c] \subseteq Within(c)'
                      /\ \A e \in open'[c] : /\ e \notin refused'[c]
                                             /\ Contains(u, QueueOf(e)') \/ Skipped(c, e)'
    BY <1>6 DEF ScanInv, InterruptsFirst, Contains
  <2>1. active'[c] = Nil BY <1>1, <1>2 DEF ScanInv
  <2>2. InterruptsFirst(s) BY <1>1, <1>3, <1>5 DEF ScanInv
  <2>3. InterruptsFirst(u)
    <3> SUFFICES ASSUME NEW i \in 1 .. Len(u), NEW j \in 1 .. Len(u), i < j,
                        u[i][1] = "normal", u[j][1] = "interrupt"
                 PROVE  u[i][2] # u[j][2]
      BY DEF InterruptsFirst
    <3>1. i + 1 \in 1 .. Len(s) /\ j + 1 \in 1 .. Len(s) /\ i + 1 < j + 1 BY <1>5
    <3>2. u[i] = s[i + 1] /\ u[j] = s[j + 1] BY <1>5
    <3> QED BY <2>2, <3>1, <3>2 DEF InterruptsFirst
  <2>4. open'[c] = open[c] \cap Within(c)' BY <1>2, <1>6 DEF Follow
  <2>5. \A e : QueueOf(e)' = QueueOf(e) /\ (Skipped(c, e)' <=> Skipped(c, e)) BY <1>2, SameStrategy
  <2>6. ASSUME NEW e \in open'[c], ~Skipped(c, e) PROVE Contains(u, QueueOf(e))
    <3>1. e \in open[c] BY <2>4, <2>6
    <3>2. /\ e \in Element /\ ~Past(c, e) /\ Contains(s, QueueOf(e))
          /\ Contains(ready[QueueOf(e)], e)
      BY <1>2, <1>3, <2>6, <3>1, NotPast
    <3>3. QueueOf(e) # s[1] BY <1>2, <1>3, <3>2 DEF Contains
    <3>4. PICK i \in 1 .. Len(s) : s[i] = QueueOf(e) BY <3>2 DEF Contains
    <3>5. i - 1 \in 1 .. Len(u) /\ (i - 1) + 1 = i BY <1>5, <3>3, <3>4
    <3> QED BY <1>5, <3>4, <3>5 DEF Contains
  <2>7. \A e \in open'[c] : e \notin refused'[c] BY <1>1, <1>2, <2>4 DEF ScanInv
  <2> QED BY <2>1, <2>3, <2>4, <2>5, <2>6, <2>7
<1>10. refused' = refused /\ UNCHANGED <<strategy, ready, arrived, active>> BY <1>2
<1> QED BY <1>6, <1>7, <1>8, <1>9, <1>10, SearchKeeps

LEMMA TryTaskKeeps ==
    ASSUME SchedInv, strategy \in Strategy, NEW c \in Core, TryTask(c)
    PROVE  SchedInv'
BY TryTaskIs, TakesKeeps, RefusesKeeps

LEMMA SchedInvariance == QueuesSpec => []SchedInv
<1>1. QueuesInit => SchedInv
  <2> SUFFICES ASSUME QueuesInit PROVE SchedInv
    OBVIOUS
  <2>1. /\ strategy \in Strategy \cup {"none"} /\ ready = [q \in Queues |-> <<>>]
        /\ active = [c \in Core |-> Nil] /\ scans = [c \in Core |-> <<>>]
        /\ open = [c \in Core |-> {}] /\ arrived = <<>> /\ place = [c \in Core |-> 0]
        /\ refused = [c \in Core |-> {}]
    BY DEF QueuesInit, SchedulerInit, Queues
  <2>2. SchedTypes BY <2>1 DEF SchedTypes
  <2>3. \A q \in Queues : \A x : ~Contains(ready[q], x) /\ ~Contains(arrived, x)
    BY <2>1 DEF Contains
  <2>4. Members BY <2>1, <2>3 DEF Members, Distinct
  <2>5. OrderInv BY <2>1 DEF OrderInv
  <2>6. \A c \in Core : ScanInv(c) /\ PlaceInv(c) BY <2>1 DEF ScanInv, PlaceInv
  <2>7. OneScans BY <2>1 DEF OneScans
  <2> QED BY <2>2, <2>4, <2>5, <2>6, <2>7 DEF SchedInv
<1>2. SchedInv /\ [QueuesNext]_<<vars, schedulerVars>> => SchedInv'
  <2> SUFFICES ASSUME SchedInv, [QueuesNext]_<<vars, schedulerVars>> PROVE SchedInv'
    OBVIOUS
  <2>1. CASE UNCHANGED schedulerVars
    <3>1. UNCHANGED <<strategy, ready, arrived, active, scans, place, refused, open>>
      BY <2>1 DEF schedulerVars
    <3>2. SchedTypes' /\ Members' /\ OrderInv'
      BY <3>1, ReadyKept DEF SchedInv, SchedTypes
    <3>3. \A d : Within(d)' = Within(d) BY <3>1 DEF Within, Free, Scans
    <3>4. \A d, x : /\ QueueOf(x)' = QueueOf(x) /\ Level(x)' = Level(x)
                    /\ Skipped(d, x)' <=> Skipped(d, x)
                    /\ Past(d, x)' <=> Past(d, x)
      BY <3>1, SameStrategy
    <3>5. \A d \in Core : ScanInv(d)'
      BY <3>1, <3>3, <3>4 DEF SchedInv, ScanInv, InterruptsFirst, Contains
    <3>6. \A d \in Core : PlaceInv(d)' BY <3>1, <3>4 DEF SchedInv, PlaceInv, PastIn
    <3>7. OneScans' BY <3>1 DEF SchedInv, OneScans
    <3> QED BY <3>2, <3>5, <3>6, <3>7 DEF SchedInv
  <2>2. CASE strategy # "none" /\ SchedulerNext
    <3>1. strategy \in Strategy BY <2>2 DEF SchedInv, SchedTypes
    <3> QED BY <2>2, <3>1, EnqueueKeeps, StartGetEventKeeps, StartScanKeeps, TryTaskKeeps, EndScanKeeps,
               FinishTaskKeeps
            DEF SchedulerNext
  <2> QED BY <2>1, <2>2 DEF QueuesNext, schedulerVars
<1> QED BY <1>1, <1>2, PTL DEF QueuesSpec

----------------------------------------------------------------------------
(* A core takes a task only with tryTaskLock.                              *)
LEMMA TakingIs ==
    ASSUME SchedInv, [QueuesNext]_<<vars, schedulerVars>>, NEW c \in Core,
           active'[c] # Nil, active[c] = Nil
    PROVE  /\ strategy \in Strategy /\ scans'[c] = <<>>
           /\ \E q \in Queues : \E p \in 1 .. Len(ready[q]) :
                 Scanning(c, q, p) /\ Takes(c, q, ready[q][p])
<1>1. strategy # "none" /\ SchedulerNext BY DEF QueuesNext, schedulerVars
<1>2. active \in [Core -> Element \cup {Nil}] /\ scans \in [Core -> Seq(Queues)]
  BY DEF SchedInv, SchedTypes
<1>3. strategy \in Strategy BY <1>1 DEF SchedInv, SchedTypes
<1>4. ~\E e \in Element : EnqueueEvent(e) BY DEF EnqueueEvent
<1>5. ~\E d \in Core : StartGetEvent(d) BY DEF StartGetEvent
<1>6. ~\E d \in Core : FinishTask(d) BY <1>2 DEF FinishTask
<1>7. ~\E d \in Core : StartScan(d) BY DEF StartScan
<1>8. ~\E d \in Core : EndScan(d) BY DEF EndScan
<1>9. PICK d \in Core : TryTask(d) BY <1>1, <1>4, <1>5, <1>6, <1>7, <1>8 DEF SchedulerNext
<1>10. PICK q \in Queues : \E p \in 1 .. Len(ready[q]) :
          Scanning(d, q, p) /\ (Takes(d, q, ready[q][p]) \/ Refuses(d, q, p))
  BY <1>9, TryTaskIs
<1>11. PICK p \in 1 .. Len(ready[q]) :
          Scanning(d, q, p) /\ (Takes(d, q, ready[q][p]) \/ Refuses(d, q, p))
  BY <1>10
<1>12. Takes(d, q, ready[q][p]) BY <1>11 DEF Refuses
<1>13. active' = [active EXCEPT ![d] = ready[q][p]] /\ scans' = [scans EXCEPT ![d] = <<>>]
  BY <1>12 DEF Takes
<1>14. d = c BY <1>2, <1>13
<1>15. scans'[c] = <<>> BY <1>2, <1>13, <1>14
<1> QED BY <1>3, <1>11, <1>12, <1>14, <1>15

LEMMA InOrder ==
    ASSUME SchedInv, NEW c \in Core, NEW q \in Queues, NEW p \in 1 .. Len(ready[q]),
           Scanning(c, q, p), Takes(c, q, ready[q][p]),
           NEW i \in DOMAIN arrived, NEW j \in DOMAIN arrived, i < j, arrived[j] = active'[c],
           QueueOf(arrived[i]) = QueueOf(arrived[j])
    PROVE  IF strategy \in Fifo THEN arrived[i] \in refused[c]
           ELSE Priority[arrived[i]] # Priority[arrived[j]]
<1>1. SchedTypes /\ Members /\ OrderInv /\ PlaceInv(c) BY DEF SchedInv
<1>2. PICK list, taken : list = ready[q] /\ taken = list[p] OBVIOUS
<1>3. active'[c] = taken
  <2>1. active \in [Core -> Element \cup {Nil}] BY <1>1 DEF SchedTypes
  <2> QED BY <1>2, <2>1 DEF Takes
<1>4. list \in Seq(Element) /\ Len(list) \in Nat /\ p \in 1 .. Len(list) BY <1>1, <1>2 DEF SchedTypes
<1>5. PastIn(c, list, p) BY <1>1, <1>2 DEF PlaceInv, Scanning
<1>6. PICK a, b : a = arrived[i] /\ b = arrived[j] OBVIOUS
<1>7. /\ a \in Element /\ b \in Element /\ b = taken /\ arrived \in Seq(Element)
      /\ i \in 1 .. Len(arrived) /\ j \in 1 .. Len(arrived)
  BY <1>1, <1>3, <1>6 DEF SchedTypes
<1>8. Before(arrived, a, b) /\ ~Before(arrived, b, a) /\ Contains(arrived, a) /\ Contains(arrived, b)
  <2>1. Before(arrived, a, b) BY <1>6, <1>7 DEF Before
  <2>2. ~Before(arrived, b, a) BY <1>1, <1>6, <1>7 DEF Before, Members, Distinct
  <2> QED BY <1>6, <1>7, <2>1, <2>2 DEF Contains
<1>9. Contains(list, b) BY <1>2, <1>4, <1>7 DEF Contains
<1>10. QueueOf(b) = q /\ QueueOf(a) = q BY <1>1, <1>2, <1>6, <1>7, <1>9 DEF Members
<1>11. PICK k \in 1 .. Len(list) : list[k] = a
  BY <1>1, <1>2, <1>7, <1>8, <1>10 DEF Members, Contains
<1>12. Level(a) = Level(b) => k < p
  <2> SUFFICES ASSUME Level(a) = Level(b), ~(k < p) PROVE FALSE
    OBVIOUS
  <2>1. p < k \/ p = k BY <1>4
  <2>2. p # k BY <1>2, <1>7, <1>8, <1>11
  <2>3. Ahead(b, a) BY <1>1, <1>2, <1>4, <1>7, <1>11, <2>1, <2>2 DEF OrderInv
  <2> QED BY <1>7, <1>8, <2>3, LevelIs DEF Ahead
<1>13. CASE strategy \in Fifo
  <2>1. k < p BY <1>12, <1>13 DEF Level
  <2>2. Past(c, a) BY <1>5, <1>11, <2>1 DEF PastIn
  <2> QED BY <1>6, <1>13, <2>2 DEF Past
<1>14. CASE strategy \notin Fifo
  <2> SUFFICES ASSUME Priority[a] = Priority[b] PROVE FALSE
    BY <1>6, <1>14
  <2>1. Level(a) = Level(b) BY DEF Level
  <2>2. k < p BY <1>12, <2>1
  <2>3. Level(a) > Level(b) BY <1>2, <1>4, <1>5, <1>7, <1>11, <1>14, <2>2 DEF PastIn
  <2> QED BY <1>7, <2>1, <2>3, LevelIs
<1> QED BY <1>13, <1>14

LEMMA TakenInOrder ==
    ASSUME SchedInv, [QueuesNext]_<<vars, schedulerVars>>, NEW c \in Core, Taking(c),
           NEW i \in DOMAIN arrived, NEW j \in DOMAIN arrived, i < j, arrived[j] = active'[c],
           QueueOf(arrived[i]) = QueueOf(arrived[j])
    PROVE  IF strategy \in Fifo THEN arrived[i] \in refused[c]
           ELSE Priority[arrived[i]] # Priority[arrived[j]]
<1>1. PICK q \in Queues : \E p \in 1 .. Len(ready[q]) : Scanning(c, q, p) /\ Takes(c, q, ready[q][p])
  BY TakingIs DEF Taking
<1> QED BY <1>1, InOrder

(* Queue, the schedulers: tasks of one queue and level are started in the  *)
(* order in which they became ready, though components are locked and      *)
(* unlocked during the scans of the cores; a later one overtakes only in   *)
(* the FIFO strategies, and only one that the same search tried before and *)
(* found locked; for any number of cores, tasks and levels.                *)
THEOREM ServedByArrival == QueuesSpec => StartedInOrder
<1>1. SchedInv /\ [QueuesNext]_<<vars, schedulerVars>> =>
         [\A c \in Core : Taking(c) =>
            \A i, j \in DOMAIN arrived :
                i < j /\ arrived[j] = active'[c] /\ QueueOf(arrived[i]) = QueueOf(arrived[j]) =>
                    IF strategy \in Fifo THEN arrived[i] \in refused[c]
                    ELSE Priority[arrived[i]] # Priority[arrived[j]]]_schedulerVars
  BY TakenInOrder
<1>2. SortInv /\ SortInv' /\ [QueuesNext]_<<vars, schedulerVars>> =>
       [sorted => LET list == Elements
                      after == Elements'
            IN  /\ \A i, j \in 1 .. pSize' :
                      /\ i < j
                      /\ pPriority'[after[i]] = pPriority'[after[j]]
                      /\ Contains(list, after[j])
                      => \E k, l \in 1 .. pSize : k < l /\ list[k] = after[i] /\ list[l] = after[j]
                /\ \A i, j \in 1 .. pSize :
                      i < j /\ ret' = <<"remove", list[j]>> =>
                          pPriority[list[i]] > pPriority[list[j]]]_vars
  BY FirstCome
<1> QED BY <1>1, <1>2, SortInvariance, SchedInvariance, PTL
        DEF QueuesSpec, StartedInOrder, FirstComeFirstServed

(* What is taken is before, or at least as good as, all that was free all  *)
(* along.                                                                  *)
LEMMA LeavesNoneBetter ==
    ASSUME SchedInv, strategy \in Strategy, NEW c \in Core, NEW q \in Queues,
           NEW p \in 1 .. Len(ready[q]), Scanning(c, q, p), Takes(c, q, ready[q][p]),
           NEW e \in open[c], ~Skipped(c, e)
    PROVE  /\ active[c] = Nil /\ active'[c] # Nil
           /\ QueueOf(e)[2] = QueueOf(active'[c])[2] =>
                 IF strategy \in Fifo THEN e \in Interrupts => active'[c] \in Interrupts
                 ELSE Priority[active'[c]] >= Priority[e]
<1>1. SchedTypes /\ Members /\ OrderInv /\ ScanInv(c) /\ PlaceInv(c) BY DEF SchedInv
<1>2. PICK list, taken : list = ready[q] /\ taken = list[p] OBVIOUS
<1>3. list \in Seq(Element) /\ Len(list) \in Nat /\ p \in 1 .. Len(list) BY <1>1, <1>2 DEF SchedTypes
<1>4. /\ active'[c] = taken /\ active[c] = Nil /\ taken \in Element /\ taken # Nil
      /\ Contains(list, taken)
  <2>1. active \in [Core -> Element \cup {Nil}] BY <1>1 DEF SchedTypes
  <2>2. active[c] = Nil BY <1>1 DEF ScanInv, Scanning
  <2>3. active'[c] = taken BY <1>2, <2>1 DEF Takes
  <2>4. taken \in Element /\ Contains(list, taken) BY <1>2, <1>3 DEF Contains
  <2> QED BY <2>2, <2>3, <2>4, NilAssumption
<1>5. QueueOf(taken) = q BY <1>1, <1>2, <1>4 DEF Members
<1>6. PICK s \in Seq(Queues) : s = scans[c] BY <1>1 DEF SchedTypes
<1>7. s # <<>> /\ Len(s) \in Nat /\ 1 \in 1 .. Len(s) /\ q = s[1] BY <1>6 DEF Scanning
<1>8. e \in Element /\ ~Past(c, e) /\ Contains(s, QueueOf(e)) /\ Contains(ready[QueueOf(e)], e)
  BY <1>6, NotPast DEF Scanning
<1>9. ASSUME QueueOf(e)[2] = q[2]
      PROVE  IF strategy \in Fifo THEN e \in Interrupts => taken \in Interrupts
             ELSE Priority[taken] >= Priority[e]
  <2>1. CASE strategy \in Fifo
    <3> SUFFICES ASSUME e \in Interrupts, taken \notin Interrupts PROVE FALSE
      BY <2>1
    <3>1. QueueOf(e)[1] = "interrupt" /\ q[1] = "normal" BY <1>5, <2>1 DEF QueueOf
    <3>2. PICK n \in 1 .. Len(s) : s[n] = QueueOf(e) BY <1>8 DEF Contains
    <3>3. 1 < n BY <1>7, <3>1, <3>2
    <3>4. InterruptsFirst(s) BY <1>1, <1>6, <1>7 DEF ScanInv
    <3> QED BY <1>7, <1>9, <3>1, <3>2, <3>3, <3>4 DEF InterruptsFirst
  <2>2. CASE strategy \notin Fifo
    <3>1. QueueOf(e) = q
      <4>1. \A x : strategy \notin Fifo => \E d : QueueOf(x) = <<"normal", d>> BY DEF QueueOf
      <4>2. PICK d, f : QueueOf(e) = <<"normal", d>> /\ QueueOf(taken) = <<"normal", f>>
        BY <2>2, <4>1
      <4> QED BY <1>5, <1>9, <4>2
    <3>2. PICK k \in 1 .. Len(list) : list[k] = e BY <1>2, <1>8, <3>1 DEF Contains
    <3>3. PastIn(c, list, p) BY <1>1, <1>2 DEF PlaceInv, Scanning
    <3>4. ~(k < p) BY <1>8, <3>2, <3>3 DEF PastIn
    <3>5. p <= k BY <1>3, <3>4
    <3>6. Level(taken) >= Level(e) BY <1>2, <3>2, <3>5, LevelsDescend
    <3> QED BY <2>2, <3>6 DEF Level
  <2> QED BY <2>1, <2>2
<1> QED BY <1>4, <1>5, <1>9

(* A search that comes to its end with all queues has tried them all.      *)
LEMMA LeavesNone ==
    ASSUME SchedInv, strategy \in Strategy, NEW c \in Core, EndScan(c), scans'[c] = <<>>,
           NEW e \in open[c]
    PROVE  Skipped(c, e)
<1> SUFFICES ASSUME ~Skipped(c, e) PROVE FALSE
  OBVIOUS
<1>1. /\ scans[c] \in Seq(Queues) /\ scans[c] # <<>>
      /\ scans' = [scans EXCEPT ![c] = Tail(scans[c])]
      /\ \A k \in 1 .. Len(ready[scans[c][1]]) : Past(c, ready[scans[c][1]][k])
  BY EndScanIs
<1>2. PICK s \in Seq(Queues) : s = scans[c] BY <1>1
<1>3. PICK u : u = Tail(s) OBVIOUS
<1>4. scans \in [Core -> Seq(Queues)] BY DEF SchedInv, SchedTypes
<1>5. u = <<>> BY <1>1, <1>2, <1>3, <1>4
<1>6. Len(u) = Len(s) - 1 /\ Len(s) \in Nat BY <1>1, <1>2, <1>3
<1>7. Len(u) = 0 BY <1>5
<1>8. Len(s) = 1 BY <1>6, <1>7
<1>9. ~Past(c, e) /\ Contains(s, QueueOf(e)) /\ Contains(ready[QueueOf(e)], e)
  BY <1>1, <1>2, NotPast
<1>10. PICK n \in 1 .. Len(s) : s[n] = QueueOf(e) BY <1>9 DEF Contains
<1>11. QueueOf(e) = s[1] BY <1>8, <1>10
<1> QED BY <1>1, <1>2, <1>9, <1>11 DEF Contains

(* Only a task that is taken, or the end of the last scan, ends a search.  *)
LEMMA SearchEnds ==
    ASSUME SchedInv, [QueuesNext]_<<vars, schedulerVars>>, NEW c \in Core,
           scans[c] # <<>>, scans'[c] = <<>>
    PROVE  /\ strategy \in Strategy
           /\ \/ EndScan(c)
              \/ \E q \in Queues : \E p \in 1 .. Len(ready[q]) :
                    Scanning(c, q, p) /\ Takes(c, q, ready[q][p])
<1>1. strategy # "none" /\ SchedulerNext BY DEF QueuesNext, schedulerVars
<1>2. scans \in [Core -> Seq(Queues)] BY DEF SchedInv, SchedTypes
<1>3. strategy \in Strategy BY <1>1 DEF SchedInv, SchedTypes
<1>4. ~\E e \in Element : EnqueueEvent(e) BY DEF EnqueueEvent
<1>5. ~\E d \in Core : StartGetEvent(d)
  <2> SUFFICES ASSUME NEW d \in Core, StartGetEvent(d) PROVE FALSE
    OBVIOUS
  <2>1. scans' = [scans EXCEPT ![d] = Scans(d)] /\ scans[d] = <<>> BY DEF StartGetEvent
  <2> QED BY <1>2, <2>1
<1>6. ~\E d \in Core : FinishTask(d) BY DEF FinishTask
<1>7. ~\E d \in Core : StartScan(d) BY DEF StartScan
<1>8. PICK d \in Core : TryTask(d) \/ EndScan(d)
  BY <1>1, <1>4, <1>5, <1>6, <1>7 DEF SchedulerNext
<1>9. CASE EndScan(d)
  <2>1. scans' = [scans EXCEPT ![d] = Tail(scans[d])] BY <1>9, EndScanIs
  <2>2. d = c BY <1>2, <2>1
  <2> QED BY <1>3, <1>9, <2>2
<1>10. CASE TryTask(d)
  <2>1. PICK q \in Queues : \E p \in 1 .. Len(ready[q]) :
           Scanning(d, q, p) /\ (Takes(d, q, ready[q][p]) \/ Refuses(d, q, p))
    BY <1>10, TryTaskIs
  <2>2. PICK p \in 1 .. Len(ready[q]) :
           Scanning(d, q, p) /\ (Takes(d, q, ready[q][p]) \/ Refuses(d, q, p))
    BY <2>1
  <2>3. Takes(d, q, ready[q][p]) BY <2>2 DEF Refuses
  <2>4. scans' = [scans EXCEPT ![d] = <<>>] BY <2>3 DEF Takes
  <2>5. d = c BY <1>2, <2>4
  <2> QED BY <1>3, <2>2, <2>3, <2>5
<1> QED BY <1>8, <1>9, <1>10

LEMMA EndsWithBest ==
    ASSUME SchedInv, [QueuesNext]_<<vars, schedulerVars>>, NEW c \in Core,
           scans[c] # <<>>, scans'[c] = <<>>, NEW e \in open[c], ~Skipped(c, e)
    PROVE  /\ Taking(c)
           /\ QueueOf(e)[2] = QueueOf(active'[c])[2] =>
                 IF strategy \in Fifo THEN e \in Interrupts => active'[c] \in Interrupts
                 ELSE Priority[active'[c]] >= Priority[e]
<1>1. strategy \in Strategy BY SearchEnds
<1>2. ~EndScan(c) BY <1>1, LeavesNone
<1>3. PICK q \in Queues : \E p \in 1 .. Len(ready[q]) : Scanning(c, q, p) /\ Takes(c, q, ready[q][p])
  BY <1>2, SearchEnds
<1> QED BY <1>1, <1>3, LeavesNoneBetter DEF Taking

(* Queue, the schedulers: while other cores enqueue, take and finish tasks *)
(* between any two calls of tryTaskLock, a getEvent leaves no task behind  *)
(* that was free throughout it, except a task of a level that it skipped:  *)
(* it does not come back empty, and takes none of a lower level from the   *)
(* queues of the same core.                                                *)
THEOREM BestIsTaken == QueuesSpec => NoneBetterLeft
<1>1. SchedInv /\ [QueuesNext]_<<vars, schedulerVars>> =>
         [\A c \in Core : scans[c] # <<>> /\ scans'[c] = <<>> =>
            \A e \in open[c] : ~Skipped(c, e) =>
                /\ Taking(c)
                /\ QueueOf(e)[2] = QueueOf(active'[c])[2] =>
                      IF strategy \in Fifo THEN e \in Interrupts => active'[c] \in Interrupts
                      ELSE Priority[active'[c]] >= Priority[e]]_schedulerVars
  BY EndsWithBest
<1>2. SortInv => [\A free \in SUBSET Element : sorted /\ DequeueHighestPriority(free) =>
          \A i \in 1 .. pSize :
              /\ Elements[i] \in free
              /\ \A j \in 1 .. i - 1 : pPriority[Elements[j]] > pPriority[Elements[i]]
              => /\ ret'[2] # Nil
                 /\ pPriority[ret'[2]] >= pPriority[Elements[i]]]_vars
  BY HighestFirst
<1> QED BY <1>1, <1>2, SortInvariance, SchedInvariance, PTL
        DEF QueuesSpec, NoneBetterLeft, HighestLevelFirst
=============================================================================
