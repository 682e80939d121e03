-------------------------- MODULE CoreStartupProofs --------------------------
(***************************************************************************)
(* Proofs about Boot and CoreStartup for every board, firmware, number of  *)
(* cores and width of the nesting counter: the mask that a core works      *)
(* under and the order of the starts; and that the steps of CoreStartup    *)
(* are steps of Boot or leave its variables alone, so that what holds of   *)
(* Boot holds of the start-up code as well; and that each step of the      *)
(* start-up code finds what it relies on.                                  *)
(***************************************************************************)
EXTENDS CoreStartup, TLAPS

(* What the nesting counter and the mask of a core are, by where it is.    *)
(* The boot code and each round through the loop come to the loop with the *)
(* counter at 1, so that it never wraps and every call switches the mask.  *)
MaskAt(c) ==
    /\ pc[c] \in {"off", "entry"} => mIRQCounter[c] = 0 /\ masked[c]
    /\ pc[c] = "waiting" => mIRQCounter[c] = 0 /\ ~masked[c]
    /\ pc[c] \notin {"off", "entry", "waiting"} => mIRQCounter[c] = 1
    /\ pc[c] \in {"dispatching", "getEvent", "task"} => masked[c]

MaskInv == \A c \in CPU : MaskAt(c)

(* On AMD64 a secondary core comes to the loop with the counter at 0, so   *)
(* that in it the counter is below 1 by one round of its range.  Then no   *)
(* call in the loop switches the mask any more.                            *)
UnmaskedAt(c) ==
    /\ pc[c] \in {"off", "entry"} => mIRQCounter[c] = 0 /\ masked[c]
    /\ pc[c] \in {"setup", "confirm", "hold", "sleep"} => mIRQCounter[c] = 1
    /\ pc[c] = "waiting" => mIRQCounter[c] = Modulus - 1 /\ ~masked[c]
    /\ pc[c] \in {"activate", "dispatching", "getEvent", "task"} =>
           mIRQCounter[c] = 0 /\ ~masked[c]

MaskedAt(c) == MaskAt(c) /\ (pc[c] # "waiting" => masked[c])

X86MaskInv == MaskedAt(Primary) /\ \A c \in Secondary : UnmaskedAt(c)

Coming == {"entry", "setup", "confirm"}

(* A secondary core that comes up is the one the primary waits for, and    *)
(* the pen does not yet have the value that the primary waits for.         *)
StartInv ==
    /\ pc[Primary] \notin {"off", "setup", "confirm", "hold", "sleep"}
    /\ \A c \in Secondary : pc[c] \notin {"start", "await", "init"}
    /\ \A c \in Secondary : pc[c] \in Coming => pc[Primary] = "await" /\ core = c
    /\ \A c \in Secondary : c > core => pc[c] = "off"
    /\ pc[Primary] \in {"entry", "start"} => \A c \in Secondary : c = core => pc[c] = "off"
    /\ pc[Primary] = "await" => core \in Secondary
    /\ x86 => holdingPen = IF pc[Primary] = "await" /\ pc[core] \notin Coming \cup {"off"}
                           THEN core ELSE core - 1
    /\ x86 => \A c \in Secondary : pc[c] = "confirm" => pen[c] = holdingPen
    /\ ~x86 => \A c \in Secondary : pc[c] # "confirm"
    /\ ~x86 /\ pc[Primary] = "await" /\ pc[core] \in Coming \cup {"off"} => holdingPen = core

----------------------------------------------------------------------------
(* The two calls of SystemMode keep the counter's range, wherever it wraps. *)
LEMMA Counted ==
    ASSUME TypeOK, NEW c \in CPU, enableInterrupts(c) \/ disableInterrupts(c)
    PROVE  /\ mIRQCounter' \in [CPU -> 0 .. Modulus - 1]
           /\ masked' \in [CPU -> BOOLEAN]
<1>1. mIRQCounter[c] \in Int BY BootAssumption DEF TypeOK
<1>2. /\ (mIRQCounter[c] - 1) % Modulus \in 0 .. Modulus - 1
      /\ (mIRQCounter[c] + 1) % Modulus \in 0 .. Modulus - 1
  BY <1>1, BootAssumption
<1>3. mIRQCounter' \in [CPU -> 0 .. Modulus - 1]
  BY <1>2 DEF TypeOK, enableInterrupts, disableInterrupts
<1>4. masked' \in [CPU -> BOOLEAN]
  <2>1. CASE enableInterrupts(c)
    BY <2>1 DEF TypeOK, enableInterrupts
  <2>2. CASE disableInterrupts(c)
    BY <2>2 DEF TypeOK, disableInterrupts
  <2> QED BY <2>1, <2>2
<1> QED BY <1>3, <1>4

(* A core that moves outside of the handshake does not disturb it. *)
LEMMA MoveKeepsStart ==
    ASSUME TypeOK, StartInv, NEW c \in CPU,
           NEW label \in {"hold", "sleep", "activate", "dispatching", "waiting", "getEvent", "task"},
           pc' = [pc EXCEPT ![c] = label],
           pc[c] \notin Coming \cup {"off", "start", "await"},
           label \in {"hold", "sleep"} => c # Primary,
           UNCHANGED <<x86, core, holdingPen, pen>>
    PROVE  StartInv'
<1> USE BootAssumption DEF CPU, Primary, Secondary
<1>1. \A d \in CPU : pc'[d] = IF d = c THEN label ELSE pc[d]
  BY DEF TypeOK
<1>2. \A d \in CPU : pc'[d] \in Coming \cup {"start", "await"} <=> pc[d] \in Coming \cup {"start", "await"}
  BY <1>1 DEF Coming
<1>3. \A d \in CPU : /\ pc'[d] \in Coming <=> pc[d] \in Coming
                     /\ pc'[d] = "await" <=> pc[d] = "await"
                     /\ pc'[d] = "confirm" <=> pc[d] = "confirm"
  BY <1>1 DEF Coming
<1>4. Primary \in CPU /\ core \in 1 .. NR_CPUS BY DEF TypeOK
<1> QED BY <1>1, <1>3, <1>4 DEF StartInv

(* The pens, the counter and the mask keep their ranges; the handshake     *)
(* needs StartInv for that.                                                *)
LEMMA StartInductive ==
    ASSUME TypeOK, StartInv, [Next]_vars
    PROVE  TypeOK' /\ StartInv'
<1>0. x86' = x86 /\ cores' = cores BY DEF Next, BootPrimary, BootSecondary, Loop, vars
<1> USE <1>0
<1> USE BootAssumption DEF CPU, Primary, Secondary
<1>1. ASSUME EnterPrimary PROVE TypeOK' /\ StartInv'
  <2>1. TypeOK' BY <1>1, Counted DEF EnterPrimary, Goto, TypeOK
  <2>2. StartInv' BY <1>1 DEF EnterPrimary, Goto, TypeOK, StartInv, Coming
  <2> QED BY <2>1, <2>2
<1>2. ASSUME NEW up \in BOOLEAN, StartCore(up) PROVE TypeOK' /\ StartInv'
  <2>1. core \in Secondary BY <1>2 DEF StartCore, Started, TypeOK
  <2>8. holdingPen' \in -1 .. ReleasePen + NR_CPUS
    BY <1>2, <2>1 DEF StartCore, ReleasePen, TypeOK
  <2>9. pc' \in [CPU -> {"off", "entry", "start", "await", "init",
                       "setup", "confirm", "hold", "sleep",
                       "activate", "dispatching", "waiting", "getEvent", "task"}]
    BY <1>2 DEF StartCore, TypeOK
  <2>2. TypeOK' BY <1>2, <2>8, <2>9 DEF StartCore, TypeOK
  <2>12. pc[core] = "off" BY <1>2, <2>1 DEF StartCore, StartInv
  <2>3. PICK label \in {"entry", "off"} :
          \A d \in CPU : pc'[d] = IF d = core THEN label ELSE IF d = Primary THEN "await" ELSE pc[d]
    BY <1>2, <2>1, <2>12 DEF StartCore, TypeOK
  <2>4. /\ UNCHANGED <<core, pen>>
        /\ x86 => UNCHANGED holdingPen
        /\ ~x86 => holdingPen' = core
        /\ pc[Primary] = "start"
    BY <1>2 DEF StartCore
  <2>5. Primary \in CPU /\ core # Primary BY <2>1
  <2>6. x86 => holdingPen' = core - 1
    BY <2>4 DEF StartInv
  <2>10. core \in Int /\ \A d \in Secondary : d \in Int BY <2>1
  <2> HIDE DEF CPU, Primary, Secondary
  <2>7. Secondary \subseteq CPU \ {Primary} BY DEF Secondary
  <2>11. \A d \in Secondary : d > core => d # core BY <2>10
  <2> QED BY <2>1, <2>2, <2>3, <2>4, <2>5, <2>6, <2>7, <2>11 DEF StartInv, Coming
<1>3. ASSUME AwaitCore PROVE TypeOK' /\ StartInv'
  BY <1>3, SMTT(60) DEF AwaitCore, Confirmed, Goto, TypeOK, StartInv, Coming
<1>4. ASSUME AllStarted PROVE TypeOK' /\ StartInv'
  BY <1>4 DEF AllStarted, Goto, TypeOK, StartInv, Coming
<1>5. ASSUME FinishBoot PROVE TypeOK' /\ StartInv'
  BY <1>5 DEF FinishBoot, SendWake, ReleasePen, Goto, TypeOK, StartInv, Coming
<1>6. ASSUME NEW c \in Secondary, EnterSecondary(c) PROVE TypeOK' /\ StartInv'
  <2>1. TypeOK' BY <1>6, Counted DEF EnterSecondary, Goto, TypeOK
  <2>2. /\ \A d \in CPU : pc'[d] = IF d = c THEN "setup" ELSE pc[d]
        /\ pc[c] = "entry" /\ c \in CPU /\ c # Primary
        /\ UNCHANGED <<core, holdingPen, pen>>
    BY <1>6 DEF EnterSecondary, Goto, TypeOK
  <2>3. StartInv' BY <1>6, <2>2 DEF StartInv, Coming
  <2> QED BY <2>1, <2>3
<1>7. ASSUME NEW c \in Secondary, ConfirmStartup(c) PROVE TypeOK' /\ StartInv'
  <2>1. pc[c] = "setup" /\ c \in CPU /\ c # Primary /\ core = c /\ pc[Primary] = "await"
    BY <1>7 DEF ConfirmStartup, StartInv, Coming
  <2>2. CASE x86
    <3>1. holdingPen = core - 1 /\ holdingPen \in 0 .. NR_CPUS
      BY <2>1, <2>2 DEF StartInv, Coming, TypeOK
    <3>2. /\ \A d \in CPU : pc'[d] = IF d = c THEN "confirm" ELSE pc[d]
          /\ \A d \in CPU : pen'[d] = IF d = c THEN holdingPen ELSE pen[d]
          /\ UNCHANGED <<core, holdingPen>>
      BY <1>7, <2>2 DEF ConfirmStartup, Goto, TypeOK
    <3>3. TypeOK' BY <1>7, <2>2, <3>1, ZenonT(60) DEF ConfirmStartup, Goto, TypeOK
    <3>4. StartInv'
      BY <2>1, <2>2, <3>1, <3>2, SMTT(30) DEF StartInv, Coming
    <3> QED BY <3>3, <3>4
  <2>3. CASE ~x86
    <3>1. /\ \A d \in CPU : pc'[d] = IF d = c THEN "hold" ELSE pc[d]
          /\ UNCHANGED <<core, pen>>
      BY <1>7, <2>3 DEF ConfirmStartup, Goto, TypeOK
    <3>2. holdingPen' \in -1 .. ReleasePen + NR_CPUS
      BY <1>7, <2>3 DEF ConfirmStartup, ReleasePen
    <3>5. pc' \in [CPU -> {"off", "entry", "start", "await", "init",
                         "setup", "confirm", "hold", "sleep",
                         "activate", "dispatching", "waiting", "getEvent", "task"}]
      BY <1>7, <2>3, ZenonT(60) DEF ConfirmStartup, Goto, TypeOK
    <3>6. UNCHANGED <<core, pen, wake, mIRQCounter, masked>>
      BY <1>7, <2>3 DEF ConfirmStartup
    <3>4. TypeOK' BY <3>2, <3>5, <3>6 DEF TypeOK
    <3>3. StartInv' BY <2>1, <2>3, <3>1 DEF StartInv, Coming
    <3> QED BY <3>3, <3>4
  <2> QED BY <2>2, <2>3
<1>8. ASSUME NEW c \in Secondary, WriteHoldingPen(c) PROVE TypeOK' /\ StartInv'
  <2>1. /\ pc[c] = "confirm" /\ c \in CPU /\ c # Primary /\ core = c /\ pc[Primary] = "await"
        /\ x86 /\ holdingPen = core - 1 /\ pen[c] = holdingPen
    BY <1>8 DEF WriteHoldingPen, StartInv, Coming
  <2>2. holdingPen' = core /\ core \in 1 .. NR_CPUS
    BY <1>8, <2>1 DEF WriteHoldingPen, TypeOK
  <2>3. /\ \A d \in CPU : pc'[d] = IF d = c THEN "hold" ELSE pc[d]
        /\ UNCHANGED <<core, pen>>
    BY <1>8 DEF WriteHoldingPen, Goto, TypeOK
  <2>4. TypeOK' BY <1>8, <2>2, SMTT(60) DEF WriteHoldingPen, ReleasePen, Goto, TypeOK
  <2>5. StartInv'
    BY <2>1, <2>2, <2>3, SMTT(30) DEF StartInv, Coming
  <2> QED BY <2>4, <2>5
<1>9. ASSUME NEW c \in Secondary, LeaveHoldingPen(c) PROVE TypeOK' /\ StartInv'
  <2>1. TypeOK' BY <1>9, Counted DEF LeaveHoldingPen, Goto, TypeOK
  <2>2. StartInv' BY <1>9, MoveKeepsStart DEF LeaveHoldingPen, Goto, Coming
  <2> QED BY <2>1, <2>2
<1>10. ASSUME NEW c \in Secondary, EnterSleep(c) \/ WakeUp(c) PROVE TypeOK' /\ StartInv'
  <2>1. TypeOK' BY <1>10 DEF EnterSleep, WakeUp, Goto, TypeOK
  <2>2. CASE EnterSleep(c) BY <2>1, <2>2, MoveKeepsStart DEF EnterSleep, Goto, Coming
  <2>3. CASE WakeUp(c) BY <2>1, <2>3, MoveKeepsStart DEF WakeUp, Goto, Coming
  <2> QED BY <1>10, <2>2, <2>3
<1>11. ASSUME NEW c \in CPU, Loop(c) PROVE TypeOK' /\ StartInv'
  <2>1. TypeOK'
    <3>1. CASE ActivateDispatching(c) BY <3>1 DEF ActivateDispatching, Goto, TypeOK
    <3>2. CASE Dispatching(c) BY <3>2, Counted DEF Dispatching, Goto, TypeOK
    <3>3. CASE StartLoop(c) BY <3>3, Counted DEF StartLoop, Goto, TypeOK
    <3>4. CASE NoTask(c) BY <3>4, Counted DEF NoTask, Goto, TypeOK
    <3>5. CASE RunTask(c) BY <3>5 DEF RunTask, Goto, TypeOK
    <3>6. CASE FinishTask(c) BY <3>6 DEF FinishTask, SendWake, Goto, TypeOK
    <3> QED BY <1>11, <3>1, <3>2, <3>3, <3>4, <3>5, <3>6 DEF Loop
  <2>2. PICK label \in {"activate", "dispatching", "waiting", "getEvent", "task"} :
            pc' = [pc EXCEPT ![c] = label]
    BY <1>11 DEF Loop, ActivateDispatching, Dispatching, StartLoop, NoTask, RunTask, FinishTask, Goto
  <2>3. /\ pc[c] \in {"activate", "dispatching", "waiting", "getEvent", "task"}
        /\ UNCHANGED <<core, holdingPen, pen>>
    BY <1>11 DEF Loop, ActivateDispatching, Dispatching, StartLoop, NoTask, RunTask, FinishTask
  <2> HIDE DEF CPU
  <2> QED BY <2>1, <2>2, <2>3, MoveKeepsStart DEF Coming
<1>12. ASSUME UNCHANGED vars PROVE TypeOK' /\ StartInv'
  BY <1>12 DEF vars, TypeOK, StartInv, Coming
<1> QED
  BY <1>1, <1>2, <1>3, <1>4, <1>5, <1>6, <1>7, <1>8, <1>9, <1>10, <1>11, <1>12
  DEF Next, BootPrimary, BootSecondary

(* The counter is 0 or 1, so both functions switch the mask. *)
LEMMA MaskInductive ==
    ASSUME ~x86, TypeOK, StartInv, MaskInv, [Next]_vars
    PROVE  MaskInv'
<1>0. x86' = x86 /\ cores' = cores BY DEF Next, BootPrimary, BootSecondary, Loop, vars
<1> USE <1>0
<1>1. Modulus > 1 /\ Modulus \in Nat BY BootAssumption
<1>2. (0 + 1) % Modulus = 1 /\ (1 - 1) % Modulus = 0
  BY <1>1
<1>3. ASSUME NEW c \in CPU, NEW label, disableInterrupts(c), mIRQCounter[c] = 0,
             Goto(c, label), label \in {"start", "setup", "getEvent"}
      PROVE  MaskInv'
  <2>1. \A d \in CPU : /\ pc'[d] = IF d = c THEN label ELSE pc[d]
                       /\ mIRQCounter'[d] = IF d = c THEN 1 ELSE mIRQCounter[d]
                       /\ masked'[d] = IF d = c THEN TRUE ELSE masked[d]
    BY <1>2, <1>3 DEF Goto, disableInterrupts, TypeOK
  <2> QED BY <1>3, <2>1, ZenonT(60) DEF MaskInv, MaskAt
<1>4. ASSUME NEW c \in CPU, enableInterrupts(c), mIRQCounter[c] = 1, Goto(c, "waiting")
      PROVE  MaskInv'
  <2>1. \A d \in CPU : /\ pc'[d] = IF d = c THEN "waiting" ELSE pc[d]
                       /\ mIRQCounter'[d] = IF d = c THEN 0 ELSE mIRQCounter[d]
                       /\ masked'[d] = IF d = c THEN FALSE ELSE masked[d]
    BY <1>2, <1>4 DEF Goto, enableInterrupts, TypeOK
  <2> QED BY <2>1 DEF MaskInv, MaskAt
<1>5. ASSUME BootPrimary PROVE MaskInv'
  <2>1. Primary \in CPU BY BootAssumption DEF Primary, CPU
  <2>2. CASE EnterPrimary BY <1>3, <2>1, <2>2 DEF EnterPrimary, MaskInv, MaskAt
  <2>3. ASSUME NEW up \in BOOLEAN, StartCore(up) PROVE MaskInv'
    <3>1. core \in CPU \ {Primary}
      BY <2>3, BootAssumption DEF StartCore, Started, TypeOK, CPU, Primary
    <3>2. pc[core] = "off" /\ pc[Primary] = "start"
      BY <2>3, <3>1 DEF StartCore, StartInv, Secondary
    <3>3. PICK label \in {"entry", "off"} :
            \A d \in CPU : pc'[d] = IF d = core THEN label ELSE IF d = Primary THEN "await" ELSE pc[d]
      BY <2>3, <2>1, <3>1, <3>2 DEF StartCore, TypeOK
    <3>4. ASSUME NEW d \in CPU PROVE MaskAt(d)'
      <4>1. MaskAt(d) BY DEF MaskInv
      <4>2. UNCHANGED <<mIRQCounter, masked>> BY <2>3 DEF StartCore
      <4> QED BY <3>1, <3>2, <3>3, <4>1, <4>2 DEF MaskAt
    <3> QED BY <3>4 DEF MaskInv
  <2>4. CASE AwaitCore BY <2>1, <2>4 DEF AwaitCore, Goto, TypeOK, MaskInv, MaskAt
  <2>5. CASE AllStarted BY <2>1, <2>5 DEF AllStarted, Goto, TypeOK, MaskInv, MaskAt
  <2>6. CASE FinishBoot BY <2>1, <2>6 DEF FinishBoot, Goto, TypeOK, MaskInv, MaskAt
  <2> QED BY <1>5, <2>2, <2>3, <2>4, <2>5, <2>6 DEF BootPrimary
<1>6. ASSUME NEW c \in Secondary, BootSecondary(c) PROVE MaskInv'
  <2>1. c \in CPU BY DEF Secondary
  <2>2. CASE EnterSecondary(c) BY <1>3, <2>1, <2>2 DEF EnterSecondary, MaskInv, MaskAt
  <2>3. CASE ConfirmStartup(c) BY <2>1, <2>3 DEF ConfirmStartup, Goto, TypeOK, MaskInv, MaskAt
  <2>4. CASE WriteHoldingPen(c) BY <2>1, <2>4 DEF WriteHoldingPen, Goto, TypeOK, MaskInv, MaskAt
  <2>5. CASE LeaveHoldingPen(c) BY <2>1, <2>5 DEF LeaveHoldingPen, Goto, TypeOK, MaskInv, MaskAt
  <2>6. CASE EnterSleep(c) BY <2>1, <2>6 DEF EnterSleep, Goto, TypeOK, MaskInv, MaskAt
  <2>7. CASE WakeUp(c) BY <2>1, <2>7 DEF WakeUp, Goto, TypeOK, MaskInv, MaskAt
  <2> QED BY <1>6, <2>2, <2>3, <2>4, <2>5, <2>6, <2>7 DEF BootSecondary
<1>7. ASSUME NEW c \in CPU, Loop(c) PROVE MaskInv'
  <2>1. CASE ActivateDispatching(c) BY <2>1 DEF ActivateDispatching, Goto, TypeOK, MaskInv, MaskAt
  <2>2. CASE Dispatching(c) BY <1>4, <2>2 DEF Dispatching, MaskInv, MaskAt
  <2>3. CASE StartLoop(c) BY <1>3, <2>3 DEF StartLoop, MaskInv, MaskAt
  <2>4. CASE NoTask(c) BY <1>4, <2>4 DEF NoTask, MaskInv, MaskAt
  <2>5. CASE RunTask(c) BY <2>5 DEF RunTask, Goto, TypeOK, MaskInv, MaskAt
  <2>6. CASE FinishTask(c) BY <2>6 DEF FinishTask, Goto, TypeOK, MaskInv, MaskAt
  <2> QED BY <1>7, <2>1, <2>2, <2>3, <2>4, <2>5, <2>6 DEF Loop
<1>8. ASSUME UNCHANGED vars PROVE MaskInv'
  BY <1>8 DEF vars, MaskInv, MaskAt
<1> QED BY <1>5, <1>6, <1>7, <1>8 DEF Next

(* On AMD64 the primary core's counter is 0 or 1 as well, but those of the *)
(* others wrap.                                                            *)
LEMMA X86MaskInductive ==
    ASSUME x86, TypeOK, StartInv, X86MaskInv, [Next]_vars
    PROVE  X86MaskInv'
<1>1. Modulus > 1 /\ Modulus \in Nat BY BootAssumption
<1>2. /\ (0 + 1) % Modulus = 1 /\ (1 - 1) % Modulus = 0
      /\ ((Modulus - 1) + 1) % Modulus = 0 /\ (0 - 1) % Modulus = Modulus - 1
  <2>1. (0 + 1) % Modulus = 1 /\ (1 - 1) % Modulus = 0 BY <1>1
  <2>2. (Modulus - 1) + 1 = Modulus /\ Modulus % Modulus = 0 BY <1>1
  <2>3. (0 - 1) % Modulus = Modulus - 1 BY <1>1
  <2> QED BY <2>1, <2>2, <2>3
<1>3. Primary \in CPU /\ Primary \notin Secondary /\ Secondary \subseteq CPU
      /\ CPU = Secondary \cup {Primary}
  BY BootAssumption DEF Primary, CPU, Secondary
(* All that X86MaskInv says of a core is about that core. *)
<1>4. ASSUME NEW c \in CPU, NEW label, pc' = [pc EXCEPT ![c] = label],
             \A d \in CPU \ {c} : mIRQCounter'[d] = mIRQCounter[d] /\ masked'[d] = masked[d],
             c = Primary => MaskedAt(c)', c # Primary => UnmaskedAt(c)'
      PROVE  X86MaskInv'
  BY <1>3, <1>4 DEF X86MaskInv, MaskedAt, MaskAt, UnmaskedAt, TypeOK
<1>5. ASSUME NEW c \in CPU, disableInterrupts(c)
      PROVE  /\ \A d \in CPU \ {c} : mIRQCounter'[d] = mIRQCounter[d] /\ masked'[d] = masked[d]
             /\ mIRQCounter[c] = 0 => mIRQCounter'[c] = 1 /\ masked'[c]
             /\ mIRQCounter[c] = Modulus - 1 /\ ~masked[c] => mIRQCounter'[c] = 0 /\ ~masked'[c]
  <2>1. /\ \A d \in CPU \ {c} : mIRQCounter'[d] = mIRQCounter[d]
        /\ mIRQCounter'[c] = (mIRQCounter[c] + 1) % Modulus
    BY <1>5 DEF disableInterrupts, TypeOK
  <2>2. /\ \A d \in CPU \ {c} : masked'[d] = masked[d]
        /\ masked'[c] <=> masked[c] \/ mIRQCounter[c] = 0
    BY <1>5 DEF disableInterrupts, TypeOK
  <2>3. Modulus - 1 # 0 BY <1>1
  <2> QED BY <1>2, <2>1, <2>2, <2>3
<1>6. ASSUME NEW c \in CPU, enableInterrupts(c)
      PROVE  /\ \A d \in CPU \ {c} : mIRQCounter'[d] = mIRQCounter[d] /\ masked'[d] = masked[d]
             /\ mIRQCounter[c] = 1 => mIRQCounter'[c] = 0 /\ ~masked'[c]
             /\ mIRQCounter[c] = 0 /\ ~masked[c] => mIRQCounter'[c] = Modulus - 1 /\ ~masked'[c]
  <2>1. /\ \A d \in CPU \ {c} : mIRQCounter'[d] = mIRQCounter[d]
        /\ mIRQCounter'[c] = (mIRQCounter[c] - 1) % Modulus
    BY <1>6 DEF enableInterrupts, TypeOK
  <2>2. /\ \A d \in CPU \ {c} : masked'[d] = masked[d]
        /\ masked'[c] <=> masked[c] /\ mIRQCounter'[c] # 0
    BY <1>6 DEF enableInterrupts, TypeOK
  <2> QED BY <1>2, <2>1, <2>2
<1>7. ASSUME BootPrimary PROVE X86MaskInv'
  <2>1. CASE EnterPrimary
    <3>1. MaskedAt(Primary)'
      BY <2>1, <1>3, <1>5 DEF EnterPrimary, Goto, TypeOK, X86MaskInv, MaskedAt, MaskAt
    <3> QED BY <2>1, <3>1, <1>3, <1>4, <1>5 DEF EnterPrimary, Goto
  <2>2. ASSUME NEW up \in BOOLEAN, StartCore(up) PROVE X86MaskInv'
    <3>1. core \in Secondary
      BY <2>2, BootAssumption DEF StartCore, Started, TypeOK, Secondary, CPU, Primary
    <3>2. pc[core] = "off" /\ pc[Primary] = "start"
      BY <2>2, <3>1 DEF StartCore, StartInv
    <3>3. PICK label \in {"entry", "off"} :
            \A d \in CPU : pc'[d] = IF d = core THEN label ELSE IF d = Primary THEN "await" ELSE pc[d]
      BY <2>2, <1>3, <3>1, <3>2 DEF StartCore, TypeOK
    <3>4. UNCHANGED <<mIRQCounter, masked>> BY <2>2 DEF StartCore
    <3> QED BY <1>3, <3>1, <3>2, <3>3, <3>4 DEF X86MaskInv, MaskedAt, MaskAt, UnmaskedAt
  <2>3. CASE AwaitCore \/ AllStarted \/ FinishBoot
    <3>1. MaskedAt(Primary)'
      BY <2>3, <1>3 DEF AwaitCore, AllStarted, FinishBoot, Goto, TypeOK, X86MaskInv, MaskedAt, MaskAt
    <3>2. UNCHANGED <<mIRQCounter, masked>> BY <2>3 DEF AwaitCore, AllStarted, FinishBoot
    <3> QED BY <2>3, <3>1, <3>2, <1>3, <1>4 DEF AwaitCore, AllStarted, FinishBoot, Goto
  <2> QED BY <1>7, <2>1, <2>2, <2>3 DEF BootPrimary
<1>8. ASSUME NEW c \in Secondary, BootSecondary(c) PROVE X86MaskInv'
  <2>1. UnmaskedAt(c) /\ c \in CPU /\ c # Primary BY <1>3 DEF X86MaskInv
  <2>2. CASE EnterSecondary(c)
    <3>1. UnmaskedAt(c)' BY <2>1, <2>2, <1>5 DEF EnterSecondary, Goto, TypeOK, UnmaskedAt
    <3> QED BY <2>1, <2>2, <3>1, <1>4, <1>5 DEF EnterSecondary, Goto
  <2>3. CASE ConfirmStartup(c) \/ WriteHoldingPen(c) \/ EnterSleep(c) \/ WakeUp(c)
    <3>1. UNCHANGED <<mIRQCounter, masked>>
      BY <2>3 DEF ConfirmStartup, WriteHoldingPen, EnterSleep, WakeUp
    <3>2. PICK label \in {"confirm", "hold", "sleep"} :
              pc' = [pc EXCEPT ![c] = label] /\ pc[c] \in {"setup", "confirm", "hold", "sleep"}
      BY <2>3 DEF ConfirmStartup, WriteHoldingPen, EnterSleep, WakeUp, Goto
    <3>3. UnmaskedAt(c)' BY <2>1, <3>1, <3>2 DEF TypeOK, UnmaskedAt
    <3> QED BY <2>1, <3>1, <3>2, <3>3, <1>4
  <2>4. CASE LeaveHoldingPen(c)
    <3>1. UnmaskedAt(c)' BY <2>1, <2>4, <1>6 DEF LeaveHoldingPen, Goto, TypeOK, UnmaskedAt
    <3> QED BY <2>1, <2>4, <3>1, <1>4, <1>6 DEF LeaveHoldingPen, Goto
  <2> QED BY <1>8, <2>2, <2>3, <2>4 DEF BootSecondary
<1>9. ASSUME NEW c \in CPU, Loop(c) PROVE X86MaskInv'
  <2>1. (c = Primary => MaskedAt(c)) /\ (c # Primary => UnmaskedAt(c))
    BY <1>3 DEF X86MaskInv
  <2>2. CASE ActivateDispatching(c) \/ RunTask(c) \/ FinishTask(c)
    <3>1. PICK label \in {"dispatching", "task", "activate"} :
              pc' = [pc EXCEPT ![c] = label] /\ pc[c] \in {"activate", "getEvent", "task"}
      BY <2>2 DEF ActivateDispatching, RunTask, FinishTask, Goto
    <3>2. mIRQCounter' = mIRQCounter /\ \A d \in CPU : masked'[d] = masked[d]
      BY <2>2 DEF ActivateDispatching, RunTask, FinishTask, TypeOK
    <3>3. label = "activate" <=> pc[c] = "task"
      BY <2>2, <3>1 DEF ActivateDispatching, RunTask, FinishTask, Goto, TypeOK
    <3>4. (c = Primary => MaskedAt(c)') /\ (c # Primary => UnmaskedAt(c)')
      BY <2>1, <3>1, <3>2, <3>3 DEF TypeOK, MaskedAt, MaskAt, UnmaskedAt
    <3> QED BY <3>1, <3>2, <3>4, <1>4
  <2>3. CASE Dispatching(c) \/ NoTask(c)
    <3>1. /\ enableInterrupts(c) /\ pc' = [pc EXCEPT ![c] = "waiting"]
          /\ pc[c] \in {"dispatching", "getEvent"}
      BY <2>3 DEF Dispatching, NoTask, Goto
    <3>2. (c = Primary => MaskedAt(c)') /\ (c # Primary => UnmaskedAt(c)')
      BY <2>1, <3>1, <1>6 DEF TypeOK, MaskedAt, MaskAt, UnmaskedAt
    <3> QED BY <3>1, <3>2, <1>4, <1>6
  <2>4. CASE StartLoop(c)
    <3>1. /\ disableInterrupts(c) /\ pc' = [pc EXCEPT ![c] = "getEvent"] /\ pc[c] = "waiting"
      BY <2>4 DEF StartLoop, Goto
    <3>2. (c = Primary => MaskedAt(c)') /\ (c # Primary => UnmaskedAt(c)')
      BY <2>1, <3>1, <1>5 DEF TypeOK, MaskedAt, MaskAt, UnmaskedAt
    <3> QED BY <3>1, <3>2, <1>4, <1>5
  <2> QED BY <1>9, <2>2, <2>3, <2>4 DEF Loop
<1>10. ASSUME UNCHANGED vars PROVE X86MaskInv'
  BY <1>10 DEF vars, X86MaskInv, MaskedAt, MaskAt, UnmaskedAt
<1> QED BY <1>7, <1>8, <1>9, <1>10 DEF Next

(* What the primary has passed when a secondary core has left the pen: the *)
(* cores before core have confirmed, and the pen is not released before    *)
(* the initialisation is over (its values for that are out of reach of the *)
(* core numbers).                                                          *)
Down == {"off", "entry", "setup", "confirm"}
Up == {"activate", "dispatching", "waiting", "getEvent", "task"}
Booting == {"entry", "start", "await", "init"}

AllUp ==
    /\ \A d \in Started : pc[d] \notin Down
    /\ ~x86 => pc[Primary] \notin Booting

OrderInv ==
    /\ \A c \in Secondary : c < core => pc[c] \notin Down
    /\ pc[Primary] = "await" => core \in Secondary
    /\ pc[Primary] \notin {"entry", "start", "await"} => core \notin Started
    /\ ~x86 /\ pc[Primary] \in Booting => holdingPen <= ReleasePen
    /\ \A c \in Secondary : pc[c] \in Up => AllUp
(* A core that stays in one of these groups disturbs nothing. *)
LEMMA MoveKeepsOrder ==
    ASSUME TypeOK, OrderInv, NEW c \in CPU, NEW label,
           pc' = [pc EXCEPT ![c] = label],
           UNCHANGED <<x86, cores, core, holdingPen>>,
           pc[c] \in Down <=> label \in Down,
           pc[c] \in Up <=> label \in Up,
           pc[c] # "off", label # "off",
           c = Primary => /\ pc[c] \in Booting <=> label \in Booting
                          /\ pc[c] \in {"entry", "start", "await"} <=> label \in {"entry", "start", "await"}
                          /\ pc[c] # "await" /\ label # "await"
    PROVE  OrderInv'
<1>1. \A d \in CPU : pc'[d] = IF d = c THEN label ELSE pc[d]
  BY DEF TypeOK
<1>2. Primary \in CPU /\ Secondary \subseteq CPU /\ Started \subseteq CPU
  BY BootAssumption DEF Primary, CPU, Secondary, Started, TypeOK
<1>3. AllUp' <=> AllUp
  BY <1>1, <1>2 DEF AllUp, Started
<1>4. \A d \in CPU : /\ pc'[d] \in Down <=> pc[d] \in Down
                     /\ pc'[d] \in Up <=> pc[d] \in Up
                     /\ pc'[d] = "off" <=> pc[d] = "off"
  BY <1>1
<1>5. /\ pc'[Primary] \in Booting <=> pc[Primary] \in Booting
      /\ pc'[Primary] \in {"entry", "start", "await"} <=> pc[Primary] \in {"entry", "start", "await"}
      /\ pc'[Primary] = "await" <=> pc[Primary] = "await"
  BY <1>1, <1>2
<1>6. (core \in Started)' <=> core \in Started
  BY DEF Started
<1> QED BY <1>2, <1>3, <1>4, <1>5, <1>6 DEF OrderInv

(* No step lets a secondary core into the loop early. *)
LEMMA OrderInductive ==
    ASSUME NR_CPUS <= ReleasePen, TypeOK, StartInv, OrderInv, [Next]_vars
    PROVE  OrderInv'
<1>0. x86' = x86 /\ cores' = cores BY DEF Next, BootPrimary, BootSecondary, Loop, vars
<1> USE <1>0
<1>1. /\ Primary \in CPU /\ Secondary = CPU \ {Primary} /\ Started \subseteq Secondary
      /\ CPU \subseteq Int /\ core \in Int
  BY BootAssumption DEF Primary, CPU, Secondary, Started, TypeOK
<1>2. Started' = Started
  BY DEF Started
<1>3. ASSUME BootPrimary PROVE OrderInv'
  <2>1. CASE EnterPrimary
    <3>1. /\ pc[Primary] = "entry" /\ pc' = [pc EXCEPT ![Primary] = "start"]
          /\ UNCHANGED <<core, holdingPen>>
      BY <2>1 DEF EnterPrimary, Goto
    <3>2. /\ "entry" \in Down /\ "start" \notin Down
          /\ "entry" \notin Up /\ "start" \notin Up
      BY DEF Down, Up
    <3>3. \A d \in CPU : pc'[d] = IF d = Primary THEN "start" ELSE pc[d]
      BY <3>1 DEF TypeOK
    <3>4. AllUp' <=> AllUp
      BY <1>1, <1>2, <3>1, <3>3 DEF AllUp, Booting
    <3> QED BY <1>1, <1>2, <3>1, <3>3, <3>4 DEF OrderInv, Booting, Up
  <2>2. ASSUME NEW up \in BOOLEAN, StartCore(up) PROVE OrderInv'
    <3>1. core \in Secondary /\ pc[Primary] = "start" /\ pc[core] = "off"
      BY <1>1, <2>2 DEF StartCore, StartInv
    <3>2. PICK label \in {"entry", "off"} :
            \A d \in CPU : pc'[d] = IF d = core THEN label ELSE IF d = Primary THEN "await" ELSE pc[d]
      BY <2>2, <1>1, <3>1 DEF StartCore, TypeOK
    <3>3. ASSUME NEW c \in Secondary PROVE pc[c] \notin Up
      BY <2>2, <3>1 DEF StartCore, OrderInv, AllUp, Down
    <3>4. core' = core /\ (~x86 => holdingPen' <= ReleasePen)
      <4>1. core <= NR_CPUS /\ NR_CPUS \in Int BY BootAssumption DEF TypeOK
      <4> QED BY <1>1, <2>2, <4>1 DEF StartCore, ReleasePen
    <3>5. \A c \in Secondary : c < core => c # core /\ c # Primary
      BY <1>1
    <3> QED BY <1>1, <3>1, <3>2, <3>3, <3>4, <3>5 DEF OrderInv, Down, Up, Booting
  <2>3. CASE AwaitCore
    <3>6. /\ pc[Primary] = "await" /\ core \in Secondary
          /\ holdingPen = IF x86 THEN core ELSE -1
      BY <2>3 DEF AwaitCore, Confirmed, OrderInv
    <3>7. core # -1 /\ core # core - 1
      BY <1>1, BootAssumption DEF TypeOK
    <3>1. core \in Secondary /\ pc[core] \notin Down /\ pc[Primary] = "await"
      BY <3>6, <3>7 DEF StartInv, Coming, Down
    <3>2. \A d \in CPU : pc'[d] = IF d = Primary THEN "start" ELSE pc[d]
      BY <2>3, <1>1 DEF AwaitCore, Goto, TypeOK
    <3>3. ASSUME NEW c \in Secondary, c < core' PROVE c < core \/ c = core
      BY <1>1, <2>3, <3>3 DEF AwaitCore
    <3>4. ASSUME NEW c \in Secondary, pc[c] \in Up PROVE AllUp'
      <4>1. AllUp BY <3>4 DEF OrderInv
      <4>2. x86 BY <3>1, <4>1 DEF AllUp, Booting
      <4> QED BY <1>1, <1>2, <3>2, <4>1, <4>2 DEF AllUp
    <3>5. holdingPen' = holdingPen BY <2>3 DEF AwaitCore
    <3> QED BY <1>1, <3>1, <3>2, <3>3, <3>4, <3>5 DEF OrderInv, Booting
  <2>4. CASE AllStarted
    <3>1. /\ pc[Primary] = "start" /\ core \notin Started
          /\ UNCHANGED <<core, holdingPen>>
          /\ \A d \in CPU : pc'[d] = IF d = Primary THEN "init" ELSE pc[d]
      BY <2>4, <1>1 DEF AllStarted, Goto, TypeOK
    <3>2. AllUp => AllUp'
      BY <1>1, <1>2, <3>1 DEF AllUp, Booting
    <3> QED BY <1>1, <1>2, <3>1, <3>2 DEF OrderInv, Booting
  <2>5. CASE FinishBoot
    <3>1. /\ pc[Primary] = "init" /\ UNCHANGED core
          /\ \A d \in CPU : pc'[d] = IF d = Primary THEN "activate" ELSE pc[d]
      BY <2>5, <1>1 DEF FinishBoot, Goto, TypeOK
    <3>2. AllUp => AllUp'
      BY <1>1, <1>2, <3>1 DEF AllUp, Booting
    <3> QED BY <1>1, <1>2, <3>1, <3>2 DEF OrderInv, Booting
  <2> QED BY <1>3, <2>1, <2>2, <2>3, <2>4, <2>5 DEF BootPrimary
<1>4. ASSUME NEW c \in Secondary, BootSecondary(c) PROVE OrderInv'
  <2>0. c \in CPU /\ c # Primary BY <1>1
  <2>1. CASE EnterSecondary(c)
    BY <2>0, <2>1, MoveKeepsOrder DEF EnterSecondary, Goto, Down, Up
  <2>2. ASSUME pc[c] \in Down, pc[c] # "off", UNCHANGED core, ~x86 => holdingPen' <= ReleasePen,
               pc' = [pc EXCEPT ![c] = "hold"]
        PROVE  OrderInv'
    <3>1. \A d \in CPU : pc'[d] = IF d = c THEN "hold" ELSE pc[d]
      BY <2>2 DEF TypeOK
    <3>2. AllUp => AllUp'
      BY <1>1, <1>2, <2>0, <3>1 DEF AllUp, Down
    <3> QED BY <1>1, <1>2, <2>0, <2>2, <3>1, <3>2 DEF OrderInv, Down, Up
  <2>3. CASE ConfirmStartup(c)
    <3>1. CASE x86
      BY <2>0, <2>3, <3>1, MoveKeepsOrder DEF ConfirmStartup, Goto, Down, Up
    <3>2. CASE ~x86
      BY <2>0, <2>2, <2>3, <3>2 DEF ConfirmStartup, ReleasePen, Goto, Down
    <3> QED BY <3>1, <3>2
  <2>4. CASE WriteHoldingPen(c)
    BY <2>0, <2>2, <2>4 DEF WriteHoldingPen, StartInv, Goto, Down
  <2>5. CASE LeaveHoldingPen(c)
    <3>1. /\ pc[c] = "hold" /\ Released(c) /\ UNCHANGED <<core, holdingPen>>
          /\ \A d \in CPU : pc'[d] = IF d = c THEN "activate" ELSE pc[d]
      BY <2>0, <2>5 DEF LeaveHoldingPen, Goto, TypeOK
    <3>2. ASSUME ~x86 PROVE pc[Primary] \notin Booting
      <4>1. holdingPen >= ReleasePen + c BY <3>1, <3>2 DEF Released
      <4>2. c >= 1 /\ holdingPen \in Int
        BY <3>2, BootAssumption DEF Secondary, CPU, Primary, TypeOK
      <4>3. ~(holdingPen <= ReleasePen) BY <1>1, <4>1, <4>2 DEF ReleasePen
      <4> QED BY <3>2, <4>3 DEF OrderInv
    <3>3. ASSUME NEW d \in Started PROVE pc[d] \notin Down
      <4>1. CASE d < core BY <1>1, <4>1 DEF OrderInv
      <4>2. CASE x86 /\ ~(d < core)
        <5>6. /\ holdingPen \in Int /\ mRegisteredCPUs \in Int /\ NR_CPUS \in Int
              /\ mRegisteredCPUs <= NR_CPUS
          BY BootAssumption DEF TypeOK
        <5>7. holdingPen + 1 \in {mRegisteredCPUs, NR_CPUS}
          BY <3>1, <4>2 DEF Released
        <5>8. d <= mRegisteredCPUs - 1
          BY <1>1, <4>2, <5>6 DEF Started, TypeOK
        <5>1. holdingPen >= mRegisteredCPUs - 1 /\ d <= mRegisteredCPUs - 1
          BY <5>6, <5>7, <5>8
        <5>2. holdingPen = core \/ holdingPen = core - 1
          BY <4>2 DEF StartInv
        <5>3. d >= core /\ holdingPen \in Int /\ mRegisteredCPUs \in Int
          BY <1>1, <4>2, BootAssumption DEF TypeOK
        <5>4. d = core /\ holdingPen = core
          BY <1>1, <5>1, <5>2, <5>3
        <5>5. pc[Primary] = "await" /\ pc[core] \notin Coming \cup {"off"}
          BY <1>1, <4>2, <5>4 DEF StartInv
        <5> QED BY <4>2, <5>4, <5>5 DEF OrderInv, Coming, Down
      <4>3. CASE ~x86 /\ ~(d < core)
        <5>1. pc[Primary] \notin Booting BY <3>2, <4>3
        <5>2. core \notin Started BY <5>1 DEF OrderInv, Booting
        <5>3. d \in 1 .. cores - 1 /\ core \in 1 .. NR_CPUS /\ core \notin 1 .. cores - 1 /\ cores \in Int
          BY <4>3, <5>2, BootAssumption DEF Started, TypeOK
        <5> QED BY <4>3, <5>3, BootAssumption
      <4> QED BY <4>1, <4>2, <4>3
    <3>4. AllUp' BY <1>1, <1>2, <2>0, <3>1, <3>2, <3>3 DEF AllUp, Down
    <3> QED BY <1>1, <1>2, <2>0, <3>1, <3>4 DEF OrderInv, Down
  <2>6. CASE EnterSleep(c)
    BY <2>0, <2>6, MoveKeepsOrder DEF EnterSleep, Goto, Down, Up
  <2>7. CASE WakeUp(c)
    BY <2>0, <2>7, MoveKeepsOrder DEF WakeUp, Goto, Down, Up
  <2> QED BY <1>4, <2>1, <2>3, <2>4, <2>5, <2>6, <2>7 DEF BootSecondary
<1>5. ASSUME NEW c \in CPU, Loop(c) PROVE OrderInv'
  <2>1. PICK label \in Up : pc' = [pc EXCEPT ![c] = label]
    BY <1>5 DEF Up, Loop, ActivateDispatching, Dispatching, StartLoop, NoTask, RunTask, FinishTask, Goto
  <2>2. pc[c] \in Up /\ UNCHANGED <<core, holdingPen>>
    BY <1>5 DEF Up, Loop, ActivateDispatching, Dispatching, StartLoop, NoTask, RunTask, FinishTask
  <2> QED BY <2>1, <2>2, MoveKeepsOrder DEF Up, Down, Booting
<1>6. ASSUME UNCHANGED vars PROVE OrderInv'
  BY <1>2, <1>6 DEF vars, OrderInv, AllUp
<1> QED BY <1>3, <1>4, <1>5, <1>6 DEF Next
----------------------------------------------------------------------------
(* The handshake's invariant holds on both architectures. *)
LEMMA StartHolds == Spec => [](TypeOK /\ StartInv)
<1>1. Init => TypeOK /\ StartInv
  BY BootAssumption DEF Init, TypeOK, StartInv, Coming, ReleasePen, Primary, Secondary, CPU
<1>2. TypeOK /\ StartInv /\ [Next]_vars => (TypeOK /\ StartInv)'
  BY StartInductive
<1> QED BY <1>1, <1>2, PTL DEF Spec

(* The counters, pens and program counters keep their types. *)
THEOREM TypeCorrect == Spec => []TypeOK
BY StartHolds, PTL

(* On both architectures the handshake starts one core at a time, whatever *)
(* the number of cores.                                                    *)
THEOREM StartsSerialised == Spec => []OneStartAtATime
<1>1. TypeOK /\ StartInv => OneStartAtATime
  BY DEF StartInv, OneStartAtATime, Coming
<1> QED BY <1>1, StartHolds, PTL

(* On ARM a core is masked whenever it takes the scheduler's locks or runs *)
(* a task, and on both architectures it is unmasked whenever it waits, for *)
(* every width of the counter: on AMD64 although the counters of the       *)
(* secondary cores wrap in every round of the dispatch loop.               *)
THEOREM MaskCorrect == Spec => [](WorkUninterrupted /\ WaitsUnmasked)
<1> DEFINE Mask == (~x86 => MaskInv) /\ (x86 => X86MaskInv)
<1>0. Primary \in CPU /\ Secondary = CPU \ {Primary}
  BY BootAssumption DEF Primary, CPU, Secondary
<1>1. Init => Mask
  BY <1>0 DEF Init, MaskInv, X86MaskInv, MaskedAt, UnmaskedAt, MaskAt
<1>2. Mask /\ TypeOK /\ StartInv /\ [Next]_vars => Mask'
  <2>1. [Next]_vars => x86' = x86
    BY DEF Next, BootPrimary, BootSecondary, Loop, vars
  <2> QED BY <2>1, MaskInductive, X86MaskInductive
<1>3. Mask /\ TypeOK => WorkUninterrupted /\ WaitsUnmasked
  BY <1>0
  DEF MaskInv, X86MaskInv, MaskedAt, UnmaskedAt, MaskAt, WorkUninterrupted, WaitsUnmasked
<1> HIDE DEF Mask
<1> QED BY <1>1, <1>2, <1>3, StartHolds, PTL DEF Spec

(* No secondary core dispatches before all cores are up and, on ARM, the   *)
(* primary has finished; 4711 must not be a possible core number for that. *)
THEOREM DispatchAfterBoot ==
    ASSUME NR_CPUS <= ReleasePen PROVE Spec => []NoEarlyDispatch
<1>1. Init => OrderInv
  BY BootAssumption DEF Init, OrderInv, ReleasePen, Booting, Up, Primary, Secondary, CPU
<1>2. OrderInv /\ TypeOK /\ StartInv /\ [Next]_vars => OrderInv'
  BY OrderInductive
<1>3. OrderInv /\ TypeOK /\ StartInv => NoEarlyDispatch
  <2>1. Primary \in CPU BY BootAssumption DEF Primary, CPU
  <2> QED BY <2>1 DEF OrderInv, TypeOK, StartInv, NoEarlyDispatch, AllUp, InLoop, Up, Down, Booting
<1> QED BY <1>1, <1>2, <1>3, StartHolds, PTL DEF Spec

----------------------------------------------------------------------------
(* The start-up code *)

LEMMA StepLeavesBoot ==
    ASSUME NEW c, NEW step, NEW r, NEW things, Step(c, step, r, things)
    PROVE  UNCHANGED vars
BY DEF Step

LEMMA ARMStepsLeaveBoot ==
    /\ ARMPrimaryStep => UNCHANGED vars
    /\ \A c : ARMSecondaryStep(c) => UNCHANGED vars
<1>1. ARMPrimaryStep => UNCHANGED vars
  BY StepLeavesBoot
  DEF ARMPrimaryStep, SetStacks, DisableEarlyCaches, EnableSCU, EnableFPU, ClearBss,
      CallConstructors, FillPageTable, SetMemoryMap, setVBAR, activateMMU,
      EnableCycleCount, EnableL1, EnableSMP, EnablePrefetching, EnableSharedCache,
      PreloadCritical, InitGIC, init_imx6, init_exynos4412, init_omap4460
<1>2. \A c : ARMSecondaryStep(c) => UNCHANGED vars
  BY StepLeavesBoot
  DEF ARMSecondaryStep, SetSecondaryStacks, FirstMMU, DisableSecondaryCaches,
      EnableSecondaryFPU, EnableSMP, EnablePrefetching, EnableL1, activateMMU,
      EnableCycleCount, setVBAR, EnableCoreInterface
<1> QED BY <1>1, <1>2

LEMMA X86StepsLeaveBoot ==
    /\ X86PrimaryStep => UNCHANGED vars
    /\ \A c : X86SecondaryStep(c) => UNCHANGED vars
<1>1. X86PrimaryStep => UNCHANGED vars
  BY StepLeavesBoot
  DEF X86PrimaryStep, EnterMultiboot, SetModes, SetupPaging, EnterLongMode, CallInit,
      MoveStack, FillX86PageTable, activatePagetable, SetRegionsCacheable,
      WalkInformation, InitializeAPIC, InitACPI, InitializeTimer, PreloadCritical,
      relocateStartupCode, InitDevices
<1>2. \A c : X86SecondaryStep(c) => UNCHANGED vars
  BY StepLeavesBoot
  DEF X86SecondaryStep, RunTrampoline, EnterAP, SetModesAP, LoadPageTableAP,
      EnterLongModeAP, MoveStackAP, activatePagetable, InitializeAPIC, loadIDT
<1> QED BY <1>1, <1>2

(* Every step of the start-up code is a step of Boot or none of its own.   *)
LEMMA StepImplementsBoot == [StartupNext]_allVars => [Next]_vars
<1> SUFFICES ASSUME [StartupNext]_allVars PROVE [Next]_vars
  OBVIOUS
<1>1. CASE UNCHANGED allVars
  BY <1>1 DEF allVars
<1>2. CASE StartPrimary
  <2>1. CASE ARMPrimaryStep \/ X86PrimaryStep
    BY <2>1, ARMStepsLeaveBoot, X86StepsLeaveBoot
  <2>2. ASSUME NEW step, BootStep(Primary, step),
               EnterPrimary \/ AllStarted \/ FinishBoot
        PROVE  Next
    BY <2>2 DEF BootStep, BootPrimary, Next
  <2>3. CASE StartStep
    <3>1. /\ StartCore("entry" \in StartedCore(startup[core]).unit)
          /\ UNCHANGED <<x86, cores>>
      BY <2>3 DEF StartStep
    <3>2. ("entry" \in StartedCore(startup[core]).unit) \in BOOLEAN
      OBVIOUS
    <3>3. \E up \in BOOLEAN : StartCore(up)
      BY <3>1, <3>2
    <3> QED BY <3>1, <3>3 DEF BootPrimary, Next
  <2>4. CASE AwaitStep
    BY <2>4 DEF AwaitStep, BootPrimary, Next
  <2> QED BY <1>2, <2>1, <2>2, <2>3, <2>4 DEF StartPrimary
<1>3. ASSUME NEW c \in CPU, LoopStep(c) PROVE Next
  BY <1>3 DEF LoopStep, Next
<1>4. ASSUME NEW c \in Secondary, StartSecondary(c) PROVE [Next]_vars
  <2>1. CASE ARMSecondaryStep(c) \/ X86SecondaryStep(c)
    BY <2>1, ARMStepsLeaveBoot, X86StepsLeaveBoot
  <2>2. ASSUME NEW step, BootStep(c, step), EnterSecondary(c) \/ ConfirmStartup(c)
        PROVE  Next
    BY <2>2 DEF BootStep, BootSecondary, Next
  <2>3. CASE /\ WriteHoldingPen(c) \/ LeaveHoldingPen(c) \/ EnterSleep(c) \/ WakeUp(c)
             /\ UNCHANGED <<x86, cores, startupVars>>
    BY <2>3 DEF BootSecondary, Next
  <2> QED BY <1>4, <2>1, <2>2, <2>3 DEF StartSecondary
<1> QED BY <1>1, <1>2, <1>3, <1>4 DEF StartupNext

----------------------------------------------------------------------------
(* The start-up code of every board implements the handshake of the cores, *)
(* whatever caches the boot ROM leaves on and whatever the firmware lists. *)
THEOREM StartupImplementsBoot == StartupSpec => Spec
<1>1. StartupInit => Init BY DEF StartupInit
<1> QED BY <1>1, StepImplementsBoot, PTL DEF StartupSpec, Spec

(* With all steps of the start-up code in it, a core still waits unmasked  *)
(* and, on ARM, works masked (SystemMode and dispatching()).               *)
THEOREM StartupMaskCorrect ==
    StartupSpec => [](WorkUninterrupted /\ WaitsUnmasked)
BY StartupImplementsBoot, MaskCorrect

(* No secondary core dispatches before every core has gone through its     *)
(* start-up code and, on ARM, the primary through all of its own.          *)
THEOREM StartupDispatchAfterBoot ==
    ASSUME NR_CPUS <= ReleasePen PROVE StartupSpec => []NoEarlyDispatch
BY StartupImplementsBoot, DispatchAfterBoot

----------------------------------------------------------------------------
(* The order of the start-up code.  What a core has is a matter of how     *)
(* many of its steps it has done; the numbers are those of the steps in    *)
(* the programs of both architectures.                                     *)

Units ==
    {"dcache", "icache", "smp", "fpu", "mmu", "vectors", "controller", "cycles",
     "prefetch", "entry", "waiting", "protected", "segments", "sse", "pae", "cr3", "long"}

CoreState ==
    [unit : SUBSET Units, stale : SUBSET AllLines, dirty : SUBSET AllLines, stack : Int]

StartupTypes ==
    /\ board \in IF x86 THEN {"x86"} ELSE Boards \ {"x86"}
    /\ x86 => firmware \in Firmware
    /\ done \in [CPU -> Nat]
    /\ startup \in [CPU -> CoreState]
    /\ l2 \in [on : BOOLEAN, stale : BOOLEAN, dirty : BOOLEAN]

(* The number of steps before the ones of Boot.                            *)
EnterAt(c) == IF x86 \/ c = Primary THEN 6 ELSE 4
StartAt == IF x86 THEN 16 ELSE 17
FinishAt == IF x86 THEN 18 ELSE 20
ConfirmAt == IF x86 THEN 10 ELSE 12

(* Where a core is in Boot, and that it takes no interrupts there; a       *)
(* secondary core is off until the primary comes to its start.             *)
PrimaryPlace ==
    LET k == done[Primary]
    IN /\ k <= FinishAt + 1
       /\ k <= EnterAt(Primary) => pc[Primary] = "entry"
       /\ EnterAt(Primary) < k /\ k <= StartAt => pc[Primary] \in {"start", "await"}
       /\ StartAt < k /\ k <= FinishAt => pc[Primary] = "init"
       /\ k <= FinishAt => masked[Primary]

SecondaryPlace(c) ==
    LET k == done[c]
    IN /\ k <= ConfirmAt + 1
       /\ pc[c] = "off" => k = 0
       /\ pc[c] # "off" => done[Primary] >= StartAt /\ c \in Started
       /\ k <= EnterAt(c) => pc[c] \in {"off", "entry"}
       /\ EnterAt(c) < k /\ k <= ConfirmAt => pc[c] = "setup"
       /\ k <= ConfirmAt => masked[c]

(* ARM: the caches are on or off, clean and valid, and so is the shared    *)
(* one; what the primary has switched on and made ready for the others.    *)
PrimaryCaches ==
    LET k == done[Primary]
        r == startup[Primary]
    IN /\ k >= 2 \/ ~EarlyL1 => r.dirty = {}
       /\ "dcache" \in r.unit => k >= 13 \/ (k < 2 /\ EarlyL1)
       /\ k >= 13 => "dcache" \in r.unit
       /\ "dcache" \in r.unit => r.stale = {}
       /\ k \in 2 .. 15 => ~l2.on /\ ~l2.dirty
       /\ l2.dirty \/ (l2.on /\ k < 16) => EarlyPL310
       /\ k >= 16 => l2.on
       /\ l2.on => ~l2.stale

PrimaryUnits ==
    LET k == done[Primary]
        r == startup[Primary]
    IN /\ r.stack = IF k >= 1 THEN Primary ELSE NoStack
       /\ k >= 3 => "smp" \in r.unit
       /\ k >= 4 => "fpu" \in r.unit
       /\ k >= 10 => "vectors" \in r.unit
       /\ k >= 11 => "mmu" \in r.unit
       /\ k >= 19 => "controller" \in r.unit

PrimaryThings ==
    LET k == done[Primary]
    IN /\ k >= 3 => "scu" \in ready
       /\ k >= 5 => "bss" \in ready
       /\ k >= 6 => "objects" \in ready
       /\ k >= 8 => "table" \in ready
       /\ k >= 9 => "regions" \in ready
       /\ k >= 19 => "distributor" \in ready

SecondaryUnits(c) ==
    LET k == done[c]
        r == startup[c]
    IN /\ r.stack = IF k >= 1 THEN c ELSE NoStack
       /\ pc[c] # "off" => "entry" \in r.unit
       /\ k >= 2 => "mmu" \in r.unit
       /\ k >= 4 => "fpu" \in r.unit
       /\ k >= 6 => "smp" \in r.unit
       /\ k >= 11 => "vectors" \in r.unit
       /\ k >= 12 => "controller" \in r.unit
       /\ "dcache" \in r.unit => k >= 8 \/ (k < 3 /\ EarlyL1)
       /\ k >= 8 => "dcache" \in r.unit
       /\ "dcache" \in r.unit => r.stale = {}

(* AMD64: a core leaves the stack of the start-up code before it enters    *)
(* Boot, and from the tables of the firmware on the cores have their       *)
(* numbers.                                                                *)
X86PrimaryUnits ==
    LET k == done[Primary]
        r == startup[Primary]
    IN /\ r.stack = IF k = 0 THEN NoStack ELSE IF k <= 5 THEN StartupStack ELSE Primary
       /\ k >= 2 => "sse" \in r.unit
       /\ k >= 4 => "long" \in r.unit
       /\ k >= 5 => "vectors" \in r.unit
       /\ k >= 12 => "controller" \in r.unit
       /\ "dcache" \notin r.unit
       /\ ~l2.on

X86PrimaryThings ==
    LET k == done[Primary]
    IN /\ k >= 5 => "objects" \in ready
       /\ k >= 8 => "table" \in ready
       /\ k >= 10 => "regions" \in ready
       /\ "rsdp" \in ready <=> k >= 11 /\ ExternalRSDPs(firmware) # <<>>
       /\ k >= 13 => "uncached" \in ready /\ "ioapic" \in ready
       /\ cpus = IF k >= 13 THEN firmware.cores ELSE <<>>
       /\ k >= 16 => "trampoline" \in ready

X86SecondaryUnits(c) ==
    LET k == done[c]
        r == startup[c]
    IN /\ r.stack = IF k <= 1 THEN NoStack ELSE IF k <= 5 THEN StartupStack ELSE c
       /\ pc[c] # "off" => "entry" \in r.unit
       /\ k >= 3 => "sse" \in r.unit
       /\ k >= 5 => "long" \in r.unit
       /\ k >= 8 => "mmu" \in r.unit
       /\ k >= 9 => "controller" \in r.unit
       /\ k >= 10 => "vectors" \in r.unit
       /\ "dcache" \notin r.unit

PrimaryHas ==
    IF x86 THEN X86PrimaryUnits /\ X86PrimaryThings
    ELSE PrimaryCaches /\ PrimaryUnits /\ PrimaryThings

SecondaryHas(c) == IF x86 THEN X86SecondaryUnits(c) ELSE SecondaryUnits(c)

PrimaryInv == PrimaryPlace /\ PrimaryHas

SecondaryInv(c) == SecondaryPlace(c) /\ SecondaryHas(c)

StartupInv == StartupTypes /\ PrimaryInv /\ \A c \in Secondary : SecondaryInv(c)

LEMMA Cores == Primary \in CPU /\ \A c \in Secondary : c \in CPU /\ c # Primary /\ c \in CPU \ {Primary}
BY BootAssumption DEF CPU, Primary, Secondary

(* The loops over the levels, ways and sets visit each line: "Indices" and *)
(* the number of ways and sets agree, and so do the types of level.        *)
LEMMA EachLineVisited == Visited = AllLines
<1>1. ASSUME NEW l \in 1 .. LoC
      PROVE  /\ DataCaches[l].type >= 2 <=> DataCaches[l].type \in {2, 3, 4}
             /\ Indices(DataCaches[l].ways - 1) = 0 .. DataCaches[l].ways - 1
             /\ Indices(DataCaches[l].sets - 1) = 0 .. DataCaches[l].sets - 1
  <2>1. DataCaches[l] \in [type : 0 .. 4, ways : Nat \ {0}, sets : Nat \ {0}]
    <3> DEFINE Level == [type : 0 .. 4, ways : Nat \ {0}, sets : Nat \ {0}]
    <3>1. DataCaches \in Seq(Level) /\ LoC \in 0 .. Len(DataCaches)
      BY StartupAssumption
    <3> HIDE DEF Level
    <3>2. DataCaches[l] \in Level
      BY <3>1
    <3> QED BY <3>2 DEF Level
  <2>2. DataCaches[l].type \in 0 .. 4
    BY <2>1
  <2> QED BY <2>2 DEF Indices
<1>2. Levels = {l \in 1 .. LoC : DataCaches[l].type \in {2, 3, 4}}
  BY <1>1 DEF Levels
<1> QED BY <1>1, <1>2, ZenonT(60) DEF Visited, AllLines

(* The step that a core does next, by the number of its steps done.        *)
LEMMA ARMPrimaryNext ==
    ASSUME ~x86, done[Primary] \in 0 .. 21
    PROVE  /\ NextStep(Primary) = "stacks" <=> done[Primary] = 0
           /\ NextStep(Primary) = "quiet" <=> done[Primary] = 1
           /\ NextStep(Primary) = "scu" <=> done[Primary] = 2
           /\ NextStep(Primary) = "fpu" <=> done[Primary] = 3
           /\ NextStep(Primary) = "bss" <=> done[Primary] = 4
           /\ NextStep(Primary) = "constructors" <=> done[Primary] = 5
           /\ NextStep(Primary) = "enter" <=> done[Primary] = 6
           /\ NextStep(Primary) = "table" <=> done[Primary] = 7
           /\ NextStep(Primary) = "regions" <=> done[Primary] = 8
           /\ NextStep(Primary) = "vectors" <=> done[Primary] = 9
           /\ NextStep(Primary) = "mmu" <=> done[Primary] = 10
           /\ NextStep(Primary) = "cycles" <=> done[Primary] = 11
           /\ NextStep(Primary) = "l1" <=> done[Primary] = 12
           /\ NextStep(Primary) = "smp" <=> done[Primary] = 13
           /\ NextStep(Primary) = "prefetch" <=> done[Primary] = 14
           /\ NextStep(Primary) = "l2" <=> done[Primary] = 15
           /\ NextStep(Primary) = "critical" <=> done[Primary] = 16
           /\ NextStep(Primary) = "startCores" <=> done[Primary] = 17
           /\ NextStep(Primary) = "gic" <=> done[Primary] = 18
           /\ NextStep(Primary) = "soc" <=> done[Primary] = 19
           /\ NextStep(Primary) = "finish" <=> done[Primary] = 20
           /\ NextStep(Primary) \notin {"firstMMU", "paging", "devices", "trampoline", "confirm"}
<1> DEFINE k == done[Primary]
<1>1. NextStep(Primary) = IF k < Len(ARMPrimary) THEN ARMPrimary[k + 1] ELSE "none"
  BY DEF NextStep, Program
<1>2. /\ Len(ARMPrimary) = 21
      /\ ARMPrimary[1] = "stacks" /\ ARMPrimary[2] = "quiet" /\ ARMPrimary[3] = "scu"
      /\ ARMPrimary[4] = "fpu" /\ ARMPrimary[5] = "bss" /\ ARMPrimary[6] = "constructors"
      /\ ARMPrimary[7] = "enter" /\ ARMPrimary[8] = "table" /\ ARMPrimary[9] = "regions"
      /\ ARMPrimary[10] = "vectors" /\ ARMPrimary[11] = "mmu" /\ ARMPrimary[12] = "cycles"
      /\ ARMPrimary[13] = "l1" /\ ARMPrimary[14] = "smp" /\ ARMPrimary[15] = "prefetch"
      /\ ARMPrimary[16] = "l2" /\ ARMPrimary[17] = "critical"
      /\ ARMPrimary[18] = "startCores" /\ ARMPrimary[19] = "gic" /\ ARMPrimary[20] = "soc"
      /\ ARMPrimary[21] = "finish"
  BY DEF ARMPrimary
<1>3. \/ k = 0 \/ k = 1 \/ k = 2 \/ k = 3 \/ k = 4 \/ k = 5 \/ k = 6 \/ k = 7 \/ k = 8
      \/ k = 9 \/ k = 10 \/ k = 11 \/ k = 12 \/ k = 13 \/ k = 14 \/ k = 15 \/ k = 16
      \/ k = 17 \/ k = 18 \/ k = 19 \/ k = 20 \/ k = 21
  OBVIOUS
<1> HIDE DEF k
<1>4. /\ k = 0 => NextStep(Primary) = "stacks"
      /\ k = 1 => NextStep(Primary) = "quiet"
      /\ k = 2 => NextStep(Primary) = "scu"
      /\ k = 3 => NextStep(Primary) = "fpu"
      /\ k = 4 => NextStep(Primary) = "bss"
      /\ k = 5 => NextStep(Primary) = "constructors"
      /\ k = 6 => NextStep(Primary) = "enter"
      /\ k = 7 => NextStep(Primary) = "table"
      /\ k = 8 => NextStep(Primary) = "regions"
      /\ k = 9 => NextStep(Primary) = "vectors"
      /\ k = 10 => NextStep(Primary) = "mmu"
      /\ k = 11 => NextStep(Primary) = "cycles"
      /\ k = 12 => NextStep(Primary) = "l1"
      /\ k = 13 => NextStep(Primary) = "smp"
      /\ k = 14 => NextStep(Primary) = "prefetch"
      /\ k = 15 => NextStep(Primary) = "l2"
      /\ k = 16 => NextStep(Primary) = "critical"
      /\ k = 17 => NextStep(Primary) = "startCores"
      /\ k = 18 => NextStep(Primary) = "gic"
      /\ k = 19 => NextStep(Primary) = "soc"
      /\ k = 20 => NextStep(Primary) = "finish"
      /\ k = 21 => NextStep(Primary) = "none"
  BY <1>1, <1>2
<1> QED BY <1>3, <1>4 DEF k

LEMMA ARMSecondaryNext ==
    ASSUME ~x86, NEW c \in Secondary, done[c] \in 0 .. 13
    PROVE  /\ NextStep(c) = "stacks" <=> done[c] = 0
           /\ NextStep(c) = "firstMMU" <=> done[c] = 1
           /\ NextStep(c) = "quiet" <=> done[c] = 2
           /\ NextStep(c) = "fpu" <=> done[c] = 3
           /\ NextStep(c) = "enter" <=> done[c] = 4
           /\ NextStep(c) = "smp" <=> done[c] = 5
           /\ NextStep(c) = "prefetch" <=> done[c] = 6
           /\ NextStep(c) = "l1" <=> done[c] = 7
           /\ NextStep(c) = "mmu" <=> done[c] = 8
           /\ NextStep(c) = "cycles" <=> done[c] = 9
           /\ NextStep(c) = "vectors" <=> done[c] = 10
           /\ NextStep(c) = "controller" <=> done[c] = 11
           /\ NextStep(c) = "confirm" <=> done[c] = 12
           /\ NextStep(c) \notin {"scu", "bss", "constructors", "regions", "paging", "l2",
                                  "critical", "startCores", "soc", "devices", "trampoline"}
<1> DEFINE k == done[c]
<1>1. NextStep(c) = IF k < Len(ARMSecondary) THEN ARMSecondary[k + 1] ELSE "none"
  BY Cores DEF NextStep, Program
<1>2. /\ Len(ARMSecondary) = 13
      /\ ARMSecondary[1] = "stacks" /\ ARMSecondary[2] = "firstMMU" /\ ARMSecondary[3] = "quiet"
      /\ ARMSecondary[4] = "fpu" /\ ARMSecondary[5] = "enter" /\ ARMSecondary[6] = "smp"
      /\ ARMSecondary[7] = "prefetch" /\ ARMSecondary[8] = "l1" /\ ARMSecondary[9] = "mmu"
      /\ ARMSecondary[10] = "cycles" /\ ARMSecondary[11] = "vectors"
      /\ ARMSecondary[12] = "controller" /\ ARMSecondary[13] = "confirm"
  BY DEF ARMSecondary
<1>3. \/ k = 0 \/ k = 1 \/ k = 2 \/ k = 3 \/ k = 4 \/ k = 5 \/ k = 6 \/ k = 7 \/ k = 8
      \/ k = 9 \/ k = 10 \/ k = 11 \/ k = 12 \/ k = 13
  OBVIOUS
<1> HIDE DEF k
<1>4. /\ k = 0 => NextStep(c) = "stacks"
      /\ k = 1 => NextStep(c) = "firstMMU"
      /\ k = 2 => NextStep(c) = "quiet"
      /\ k = 3 => NextStep(c) = "fpu"
      /\ k = 4 => NextStep(c) = "enter"
      /\ k = 5 => NextStep(c) = "smp"
      /\ k = 6 => NextStep(c) = "prefetch"
      /\ k = 7 => NextStep(c) = "l1"
      /\ k = 8 => NextStep(c) = "mmu"
      /\ k = 9 => NextStep(c) = "cycles"
      /\ k = 10 => NextStep(c) = "vectors"
      /\ k = 11 => NextStep(c) = "controller"
      /\ k = 12 => NextStep(c) = "confirm"
      /\ k = 13 => NextStep(c) = "none"
  BY <1>1, <1>2
<1> QED BY <1>3, <1>4 DEF k

LEMMA X86PrimaryNext ==
    ASSUME x86, done[Primary] \in 0 .. 19
    PROVE  /\ NextStep(Primary) = "reset" <=> done[Primary] = 0
           /\ NextStep(Primary) = "modes" <=> done[Primary] = 1
           /\ NextStep(Primary) = "paging" <=> done[Primary] = 2
           /\ NextStep(Primary) = "long" <=> done[Primary] = 3
           /\ NextStep(Primary) = "constructors" <=> done[Primary] = 4
           /\ NextStep(Primary) = "stacks" <=> done[Primary] = 5
           /\ NextStep(Primary) = "enter" <=> done[Primary] = 6
           /\ NextStep(Primary) = "table" <=> done[Primary] = 7
           /\ NextStep(Primary) = "mmu" <=> done[Primary] = 8
           /\ NextStep(Primary) = "regions" <=> done[Primary] = 9
           /\ NextStep(Primary) = "multiboot" <=> done[Primary] = 10
           /\ NextStep(Primary) = "controller" <=> done[Primary] = 11
           /\ NextStep(Primary) = "acpi" <=> done[Primary] = 12
           /\ NextStep(Primary) = "timer" <=> done[Primary] = 13
           /\ NextStep(Primary) = "critical" <=> done[Primary] = 14
           /\ NextStep(Primary) = "relocate" <=> done[Primary] = 15
           /\ NextStep(Primary) = "startCores" <=> done[Primary] = 16
           /\ NextStep(Primary) = "devices" <=> done[Primary] = 17
           /\ NextStep(Primary) = "finish" <=> done[Primary] = 18
           /\ NextStep(Primary) \notin {"scu", "bss", "firstMMU", "l1", "l2", "soc", "trampoline", "confirm"}
<1> DEFINE k == done[Primary]
<1>1. NextStep(Primary) = IF k < Len(X86Primary) THEN X86Primary[k + 1] ELSE "none"
  BY DEF NextStep, Program
<1>2. /\ Len(X86Primary) = 19
      /\ X86Primary[1] = "reset"
      /\ X86Primary[2] = "modes"
      /\ X86Primary[3] = "paging"
      /\ X86Primary[4] = "long"
      /\ X86Primary[5] = "constructors"
      /\ X86Primary[6] = "stacks"
      /\ X86Primary[7] = "enter"
      /\ X86Primary[8] = "table"
      /\ X86Primary[9] = "mmu"
      /\ X86Primary[10] = "regions"
      /\ X86Primary[11] = "multiboot"
      /\ X86Primary[12] = "controller"
      /\ X86Primary[13] = "acpi"
      /\ X86Primary[14] = "timer"
      /\ X86Primary[15] = "critical"
      /\ X86Primary[16] = "relocate"
      /\ X86Primary[17] = "startCores"
      /\ X86Primary[18] = "devices"
      /\ X86Primary[19] = "finish"
  BY DEF X86Primary
<1>3. \/ k = 0 \/ k = 1 \/ k = 2 \/ k = 3 \/ k = 4 \/ k = 5 \/ k = 6 \/ k = 7 \/ k = 8
      \/ k = 9 \/ k = 10 \/ k = 11 \/ k = 12 \/ k = 13 \/ k = 14 \/ k = 15 \/ k = 16 \/ k = 17
      \/ k = 18 \/ k = 19
  OBVIOUS
<1> HIDE DEF k
<1>4. /\ k = 0 => NextStep(Primary) = "reset"
      /\ k = 1 => NextStep(Primary) = "modes"
      /\ k = 2 => NextStep(Primary) = "paging"
      /\ k = 3 => NextStep(Primary) = "long"
      /\ k = 4 => NextStep(Primary) = "constructors"
      /\ k = 5 => NextStep(Primary) = "stacks"
      /\ k = 6 => NextStep(Primary) = "enter"
      /\ k = 7 => NextStep(Primary) = "table"
      /\ k = 8 => NextStep(Primary) = "mmu"
      /\ k = 9 => NextStep(Primary) = "regions"
      /\ k = 10 => NextStep(Primary) = "multiboot"
      /\ k = 11 => NextStep(Primary) = "controller"
      /\ k = 12 => NextStep(Primary) = "acpi"
      /\ k = 13 => NextStep(Primary) = "timer"
      /\ k = 14 => NextStep(Primary) = "critical"
      /\ k = 15 => NextStep(Primary) = "relocate"
      /\ k = 16 => NextStep(Primary) = "startCores"
      /\ k = 17 => NextStep(Primary) = "devices"
      /\ k = 18 => NextStep(Primary) = "finish"
      /\ k = 19 => NextStep(Primary) = "none"
  BY <1>1, <1>2
<1> QED BY <1>3, <1>4 DEF k

LEMMA X86SecondaryNext ==
    ASSUME x86, NEW c \in Secondary, done[c] \in 0 .. 11
    PROVE  /\ NextStep(c) = "trampoline" <=> done[c] = 0
           /\ NextStep(c) = "reset" <=> done[c] = 1
           /\ NextStep(c) = "modes" <=> done[c] = 2
           /\ NextStep(c) = "paging" <=> done[c] = 3
           /\ NextStep(c) = "long" <=> done[c] = 4
           /\ NextStep(c) = "stacks" <=> done[c] = 5
           /\ NextStep(c) = "enter" <=> done[c] = 6
           /\ NextStep(c) = "mmu" <=> done[c] = 7
           /\ NextStep(c) = "controller" <=> done[c] = 8
           /\ NextStep(c) = "vectors" <=> done[c] = 9
           /\ NextStep(c) = "confirm" <=> done[c] = 10
           /\ NextStep(c) \notin {"scu", "bss", "constructors", "regions", "firstMMU", "l1", "l2",
                                  "critical", "startCores", "soc", "devices"}
<1> DEFINE k == done[c]
<1>1. NextStep(c) = IF k < Len(X86Secondary) THEN X86Secondary[k + 1] ELSE "none"
  BY Cores DEF NextStep, Program
<1>2. /\ Len(X86Secondary) = 11
      /\ X86Secondary[1] = "trampoline"
      /\ X86Secondary[2] = "reset"
      /\ X86Secondary[3] = "modes"
      /\ X86Secondary[4] = "paging"
      /\ X86Secondary[5] = "long"
      /\ X86Secondary[6] = "stacks"
      /\ X86Secondary[7] = "enter"
      /\ X86Secondary[8] = "mmu"
      /\ X86Secondary[9] = "controller"
      /\ X86Secondary[10] = "vectors"
      /\ X86Secondary[11] = "confirm"
  BY DEF X86Secondary
<1>3. \/ k = 0 \/ k = 1 \/ k = 2 \/ k = 3 \/ k = 4 \/ k = 5 \/ k = 6 \/ k = 7 \/ k = 8
      \/ k = 9 \/ k = 10 \/ k = 11
  OBVIOUS
<1> HIDE DEF k
<1>4. /\ k = 0 => NextStep(c) = "trampoline"
      /\ k = 1 => NextStep(c) = "reset"
      /\ k = 2 => NextStep(c) = "modes"
      /\ k = 3 => NextStep(c) = "paging"
      /\ k = 4 => NextStep(c) = "long"
      /\ k = 5 => NextStep(c) = "stacks"
      /\ k = 6 => NextStep(c) = "enter"
      /\ k = 7 => NextStep(c) = "mmu"
      /\ k = 8 => NextStep(c) = "controller"
      /\ k = 9 => NextStep(c) = "vectors"
      /\ k = 10 => NextStep(c) = "confirm"
      /\ k = 11 => NextStep(c) = "none"
  BY <1>1, <1>2
<1> QED BY <1>3, <1>4 DEF k

(* Where the steps of Boot are, on both architectures.                     *)
LEMMA BootNext ==
    /\ done[Primary] \in 0 .. FinishAt + 1 =>
           /\ NextStep(Primary) = "enter" <=> done[Primary] = EnterAt(Primary)
           /\ NextStep(Primary) = "startCores" <=> done[Primary] = StartAt
           /\ NextStep(Primary) = "finish" <=> done[Primary] = FinishAt
    /\ \A c \in Secondary : done[c] \in 0 .. ConfirmAt + 1 =>
           /\ NextStep(c) = "enter" <=> done[c] = EnterAt(c)
           /\ NextStep(c) = "confirm" <=> done[c] = ConfirmAt
BY Cores, ARMPrimaryNext, X86PrimaryNext, ARMSecondaryNext, X86SecondaryNext
DEF EnterAt, StartAt, FinishAt, ConfirmAt

(* The invariant says at each step what the step needs.                    *)
LEMMA InvPrepares == ASSUME StartInv, StartupInv PROVE StartsPrepared
<1> USE DEF EnterAt, StartAt, FinishAt, ConfirmAt, PrimaryHas, SecondaryHas
<1>0. StartupTypes /\ PrimaryInv /\ \A c \in Secondary : SecondaryInv(c)
  BY DEF StartupInv
<1>1. ASSUME NEW c \in CPU, pc[c] # "off"
      PROVE  /\ Prepared(c)
             /\ "dcache" \in startup[c].unit => startup[c].stale = {}
             /\ ~masked[c] => {"vectors", "controller"} \subseteq startup[c].unit
  <2>1. CASE c = Primary /\ ~x86
    <3>1. done[Primary] \in 0 .. 21
      BY <1>0, <2>1, Cores DEF StartupTypes, PrimaryInv, PrimaryPlace
    <3>2. PrimaryPlace /\ PrimaryCaches /\ PrimaryUnits /\ PrimaryThings
      BY <1>0, <2>1 DEF PrimaryInv
    <3>3. Prepared(Primary)
      BY <2>1, <3>1, <3>2, ARMPrimaryNext
      DEF Prepared, PrimaryCaches, PrimaryUnits, PrimaryThings
    <3> QED BY <2>1, <3>1, <3>2, <3>3 DEF PrimaryPlace, PrimaryCaches, PrimaryUnits
  <2>2. CASE c = Primary /\ x86
    <3>1. done[Primary] \in 0 .. 19
      BY <1>0, <2>2, Cores DEF StartupTypes, PrimaryInv, PrimaryPlace
    <3>2. PrimaryPlace /\ X86PrimaryUnits /\ X86PrimaryThings
      BY <1>0, <2>2 DEF PrimaryInv
    <3>3. Prepared(Primary)
      BY <2>2, <3>1, <3>2, X86PrimaryNext, SMTT(60)
      DEF Prepared, X86PrimaryUnits, X86PrimaryThings
    <3> QED BY <2>2, <3>1, <3>2, <3>3 DEF PrimaryPlace, X86PrimaryUnits
  <2>3. CASE c # Primary /\ ~x86
    <3>1. c \in Secondary BY <2>3 DEF Secondary
    <3>2. SecondaryPlace(c) /\ SecondaryUnits(c)
      BY <1>0, <2>3, <3>1 DEF SecondaryInv
    <3>3. done[c] \in 0 .. 13
      BY <1>0, <2>3, <3>1, <3>2, Cores DEF StartupTypes, SecondaryPlace
    <3>4. "objects" \in ready /\ "table" \in ready
      BY <1>0, <1>1, <2>3, <3>2, Cores DEF StartupTypes, PrimaryInv, PrimaryThings, SecondaryPlace
    <3>5. Prepared(c)
      BY <1>1, <2>3, <3>1, <3>2, <3>3, <3>4, ARMSecondaryNext
      DEF Prepared, SecondaryUnits
    <3> QED BY <2>3, <3>2, <3>3, <3>5 DEF SecondaryPlace, SecondaryUnits
  <2>4. CASE c # Primary /\ x86
    <3>1. c \in Secondary BY <2>4 DEF Secondary
    <3>2. SecondaryPlace(c) /\ X86SecondaryUnits(c)
      BY <1>0, <2>4, <3>1 DEF SecondaryInv
    <3>3. done[c] \in 0 .. 11
      BY <1>0, <2>4, <3>1, <3>2, Cores DEF StartupTypes, SecondaryPlace
    <3>4. "objects" \in ready /\ "table" \in ready
      BY <1>0, <1>1, <2>4, <3>2, Cores DEF StartupTypes, PrimaryInv, X86PrimaryThings, SecondaryPlace
    <3>5. Prepared(c)
      BY <1>1, <2>4, <3>1, <3>2, <3>3, <3>4, X86SecondaryNext
      DEF Prepared, X86SecondaryUnits
    <3> QED BY <2>4, <3>2, <3>3, <3>5 DEF SecondaryPlace, X86SecondaryUnits
  <2> QED BY <2>1, <2>2, <2>3, <2>4
<1>2. l2.on => ~l2.stale
  BY <1>0 DEF PrimaryInv, PrimaryCaches, X86PrimaryUnits
<1>3. ASSUME NEW c \in CPU, NEW d \in CPU, startup[c].stack = startup[d].stack, c # d,
             startup[c].stack # NoStack
      PROVE  FALSE
  <2>1. c # NoStack /\ c # StartupStack /\ d # NoStack /\ d # StartupStack
    BY BootAssumption DEF CPU, NoStack, StartupStack
  <2>2. CASE ~x86
    <3>1. \A e \in CPU : startup[e].stack \in {e, NoStack}
      BY <1>0, <2>2 DEF PrimaryInv, PrimaryUnits, SecondaryInv, SecondaryUnits, Secondary
    <3> QED BY <1>3, <2>1, <3>1
  <2>3. CASE x86
    <3>1. \A e \in CPU : startup[e].stack \in {e, NoStack, StartupStack}
      BY <1>0, <2>3 DEF PrimaryInv, X86PrimaryUnits, SecondaryInv, X86SecondaryUnits, Secondary
    <3>2. startup[c].stack = StartupStack /\ startup[d].stack = StartupStack
      BY <1>3, <2>1, <3>1
    (* Whoever has the stack of the start-up code is the only one. *)
    <3>3. \A e \in Secondary : startup[e].stack = StartupStack =>
              pc[e] = "entry" /\ startup[Primary].stack # StartupStack
      <4> SUFFICES ASSUME NEW e \in Secondary, startup[e].stack = StartupStack
                   PROVE  pc[e] = "entry" /\ startup[Primary].stack # StartupStack
        OBVIOUS
      <4>1. done[e] \in Nat /\ done[Primary] \in Nat
        BY <1>0, Cores DEF StartupTypes
      <4>2. done[e] \in 2 .. 5 /\ pc[e] = "entry"
        BY <1>0, <2>3, <4>1, Cores DEF SecondaryInv, SecondaryPlace, X86SecondaryUnits, NoStack, StartupStack, CPU
      <4>3. startup[Primary].stack # StartupStack
        BY <1>0, <2>3, <4>1, <4>2
        DEF PrimaryInv, X86PrimaryUnits, SecondaryInv, SecondaryPlace, StartupStack, Primary
      <4> QED BY <4>2, <4>3
    <3>4. CASE c = Primary \/ d = Primary
      BY <1>3, <3>2, <3>3, <3>4 DEF Secondary
    <3>5. CASE c # Primary /\ d # Primary
      BY <1>3, <3>2, <3>3, <3>5 DEF Secondary, StartInv, Coming
    <3> QED BY <3>4, <3>5
  <2> QED BY <2>2, <2>3
<1> QED BY <1>1, <1>2, <1>3 DEF StartsPrepared

(* What a step does to the core that takes it and to all others.           *)
LEMMA StepEffect ==
    ASSUME StartupTypes, NEW c \in CPU, NEW step, NEW r, NEW things, Step(c, step, r, things),
           r \in CoreState
    PROVE  /\ StartupTypes'
           /\ pc[c] # "off" /\ NextStep(c) = step
           /\ done'[c] = done[c] + 1 /\ startup'[c] = r
           /\ \A d \in CPU \ {c} : done'[d] = done[d] /\ startup'[d] = startup[d]
           /\ ready' = ready \cup things
           /\ UNCHANGED <<vars, board, firmware, l2, cpus>>
<1>1. UNCHANGED <<vars, board, firmware, l2, cpus>> BY DEF Step
<1>2. done' = [done EXCEPT ![c] = @ + 1] /\ startup' = [startup EXCEPT ![c] = r]
  BY DEF Step, Advance
<1> QED BY <1>1, <1>2 DEF Step, At, StartupTypes, vars

(* Switching units on leaves the caches and the stack alone.               *)
LEMMA SwitchFields ==
    ASSUME NEW r \in CoreState, NEW units \in SUBSET Units
    PROVE  /\ Switch(r, units) \in CoreState
           /\ Switch(r, units).unit = r.unit \cup units
           /\ Switch(r, units).stale = r.stale
           /\ Switch(r, units).dirty = r.dirty
           /\ Switch(r, units).stack = r.stack
BY DEF Switch, CoreState

(* INIT takes everything from the core, and of the two STARTUP only the    *)
(* first one finds it waiting.                                             *)
LEMMA StartEffect ==
    ASSUME NEW r \in CoreState
    PROVE  /\ startRegisteredAP(r) \in CoreState
           /\ startRegisteredAP(r).unit = {"entry"}
           /\ startRegisteredAP(r).stack = NoStack
           /\ startRegisteredAP(r).stale = r.stale
<1> DEFINE s == sendIPI(r, "INIT")
           t == sendIPI(s, "STARTUP")
<1>1. /\ s \in CoreState /\ s.unit = {"waiting"}
      /\ s.stack = NoStack /\ s.stale = r.stale
  <2>1. s = [r EXCEPT !.unit = {"waiting"}, !.stack = NoStack] BY DEF sendIPI
  <2>2. {"waiting"} \in SUBSET Units /\ NoStack \in Int BY DEF Units, NoStack
  <2> HIDE DEF s
  <2> QED BY <2>1, <2>2 DEF CoreState
<1> HIDE DEF s
<1>2. /\ t \in CoreState /\ t.unit = {"entry"}
      /\ t.stack = NoStack /\ t.stale = r.stale
  <2>1. t = [s EXCEPT !.unit = {"entry"}] BY <1>1 DEF sendIPI
  <2> HIDE DEF t
  <2> QED BY <1>1, <2>1 DEF CoreState, Units
<1> HIDE DEF t
<1>3. sendIPI(t, "STARTUP") = t BY <1>2 DEF sendIPI
<1>4. startRegisteredAP(r) = t BY <1>3 DEF startRegisteredAP, s, t
<1> QED BY <1>2, <1>4

(* enableL1Caches leaves no line from before the reset.                    *)
LEMMA L1Effect ==
    ASSUME StartupTypes, NEW c \in CPU, EnableL1(c)
    PROVE  /\ StartupTypes'
           /\ pc[c] # "off" /\ NextStep(c) = "l1"
           /\ done'[c] = done[c] + 1
           /\ startup'[c].unit = startup[c].unit \cup {"dcache", "icache"}
           /\ startup'[c].stale = {} /\ startup'[c].dirty = {}
           /\ startup'[c].stack = startup[c].stack
           /\ \A d \in CPU \ {c} : done'[d] = done[d] /\ startup'[d] = startup[d]
           /\ ready' = ready
           /\ UNCHANGED <<vars, board, firmware, l2, cpus>>
<1> DEFINE r == enableL1Caches(startup[c])
<1>1. startup[c] \in CoreState
  BY DEF StartupTypes
<1>2. /\ r \in CoreState
      /\ r.unit = startup[c].unit \cup {"dcache", "icache"}
      /\ r.stale = {} /\ r.dirty = {} /\ r.stack = startup[c].stack
  <2> DEFINE clean == asm_invalidate_data_caches(startup[c])
  <2>1. /\ clean \in CoreState
        /\ clean.unit = startup[c].unit /\ clean.stack = startup[c].stack
        /\ clean.stale = {} /\ clean.dirty = {}
    BY <1>1, EachLineVisited DEF asm_invalidate_data_caches, CoreState
  <2>2. r = asm_enable_instruction_cache(asm_enable_unified_cache(clean))
    BY DEF enableL1Caches
  <2> HIDE DEF clean
  <2>3. r = [[clean EXCEPT !.unit = @ \cup {"dcache"}] EXCEPT !.unit = @ \cup {"icache"}]
    BY <2>2 DEF asm_enable_instruction_cache, asm_enable_unified_cache, Switch
  <2> QED BY <2>1, <2>3, ZenonT(60) DEF CoreState, Units
<1>3. Step(c, "l1", r, {}) BY DEF EnableL1
<1> HIDE DEF r
<1> QED BY <1>2, <1>3, StepEffect

(* The caches that the boot ROM leaves on are off after the step.          *)
LEMMA QuietEffect ==
    ASSUME NEW r \in CoreState,
           NEW off, off = asm_disable_instruction_cache(asm_disable_unified_cache(r))
    PROVE  /\ off \in CoreState
           /\ off.unit = r.unit \ {"dcache", "icache"}
           /\ off.stack = r.stack /\ off.dirty = r.dirty
BY DEF asm_disable_instruction_cache, asm_disable_unified_cache, CoreState

----------------------------------------------------------------------------
(* A step of the primary core's start-up code keeps what it has done so    *)
(* far, and does what the step is for.                                     *)
LEMMA ARMPrimaryStepKeeps ==
    ASSUME ~x86, StartupTypes, PrimaryInv, ARMPrimaryStep
    PROVE  /\ StartupTypes' /\ PrimaryInv'
           /\ done'[Primary] >= done[Primary] /\ ready \subseteq ready'
           /\ \A c \in Secondary : done'[c] = done[c] /\ startup'[c] = startup[c]
           /\ UNCHANGED <<vars, board, firmware, cpus>>
<1> DEFINE k == done[Primary]
           r == startup[Primary]
           Kept == /\ StartupTypes' /\ PrimaryInv'
                   /\ done'[Primary] >= done[Primary] /\ ready \subseteq ready'
                   /\ \A c \in Secondary : done'[c] = done[c] /\ startup'[c] = startup[c]
                   /\ UNCHANGED <<vars, board, firmware, cpus>>
<1> USE DEF PrimaryHas, EnterAt, StartAt, FinishAt
<1>0. Primary = 0 BY DEF Primary
<1>1. k \in 0 .. 21 /\ Primary \in CPU /\ \A c \in Secondary : c \in CPU \ {Primary}
  BY Cores DEF StartupTypes, PrimaryInv, PrimaryPlace
<1>2. r \in CoreState
  BY <1>1 DEF StartupTypes
(* The steps that switch units on and make things ready. *)
<1>3. ASSUME NEW step, NEW units \in SUBSET Units, "dcache" \notin units, NEW things,
             Step(Primary, step, Switch(r, units), things),
             step \notin {"stacks", "quiet", "enter", "l1", "l2", "startCores", "finish", "none"},
             step = "scu" => "smp" \in units /\ "scu" \in things,
             step = "fpu" => "fpu" \in units,
             step = "bss" => "bss" \in things,
             step = "constructors" => "objects" \in things,
             step = "table" => "table" \in things,
             step = "regions" => "regions" \in things,
             step = "vectors" => "vectors" \in units,
             step = "mmu" => "mmu" \in units,
             step = "gic" => "controller" \in units /\ "distributor" \in things
      PROVE  Kept
  <2>1. /\ StartupTypes'
        /\ NextStep(Primary) = step
        /\ done'[Primary] = k + 1
        /\ startup'[Primary].unit = r.unit \cup units
        /\ startup'[Primary].stale = r.stale
        /\ startup'[Primary].dirty = r.dirty
        /\ startup'[Primary].stack = r.stack
        /\ \A d \in CPU \ {Primary} : done'[d] = done[d] /\ startup'[d] = startup[d]
        /\ ready' = ready \cup things
        /\ UNCHANGED <<vars, board, firmware, l2, cpus>>
    <3> DEFINE s == Switch(r, units)
    <3>1. /\ s \in CoreState
          /\ s.unit = r.unit \cup units
          /\ s.stale = r.stale /\ s.dirty = r.dirty /\ s.stack = r.stack
      BY <1>2, <1>3, SwitchFields
    <3>2. Step(Primary, step, s, things) BY <1>3
    <3> HIDE DEF s
    <3>3. /\ StartupTypes' /\ NextStep(Primary) = step
          /\ done'[Primary] = done[Primary] + 1 /\ startup'[Primary] = s
          /\ \A d \in CPU \ {Primary} : done'[d] = done[d] /\ startup'[d] = startup[d]
          /\ ready' = ready \cup things
          /\ UNCHANGED <<vars, board, firmware, l2, cpus>>
      BY <1>1, <3>1, <3>2, StepEffect
    <3> QED BY <3>1, <3>3
  <2>2. /\ k \notin {0, 1, 6, 12, 15, 17, 20, 21}
        /\ k = 2 => step = "scu"
        /\ k = 3 => step = "fpu"
        /\ k = 4 => step = "bss"
        /\ k = 5 => step = "constructors"
        /\ k = 7 => step = "table"
        /\ k = 8 => step = "regions"
        /\ k = 9 => step = "vectors"
        /\ k = 10 => step = "mmu"
        /\ k = 18 => step = "gic"
    <3>1. k = 21 => NextStep(Primary) = "none"
      BY DEF NextStep, Program, ARMPrimary
    <3> QED BY <1>1, <1>3, <2>1, <3>1, ARMPrimaryNext
  <2>3. UNCHANGED <<x86, cores, pc, masked>> BY <2>1 DEF vars
  <2> HIDE DEF k, r
  <2>4. PrimaryPlace' BY <1>1, <2>1, <2>2, <2>3 DEF PrimaryInv, PrimaryPlace, k
  <2>5. PrimaryCaches'
    BY <1>1, <2>1, <2>2, <1>3 DEF PrimaryInv, PrimaryCaches, EarlyL1, EarlyPL310, k, r
  <2>6. PrimaryUnits' BY <1>1, <1>3, <2>1, <2>2 DEF PrimaryInv, PrimaryUnits, k, r
  <2>7. PrimaryThings' BY <1>1, <1>3, <2>1, <2>2 DEF PrimaryInv, PrimaryThings, k
  <2> QED BY <2>3, <1>1, <2>1, <2>4, <2>5, <2>6, <2>7 DEF PrimaryInv, k
(* Its stack *)
<1>4. ASSUME SetStacks PROVE Kept
  <2> DEFINE s == [r EXCEPT !.stack = Primary, !.unit = @ \ {"smp"}]
  <2>1. Step(Primary, "stacks", s, {}) BY <1>4 DEF SetStacks
  <2>2. /\ s \in CoreState
        /\ s.unit = r.unit \ {"smp"} /\ s.stale = r.stale /\ s.dirty = r.dirty
        /\ s.stack = Primary
    <3> HIDE DEF r
    <3>1. Primary \in Int BY <1>0
    <3> QED BY <1>2, <3>1 DEF CoreState
  <2> HIDE DEF s
  <2>3. /\ StartupTypes' /\ NextStep(Primary) = "stacks"
        /\ done'[Primary] = k + 1 /\ startup'[Primary] = s
        /\ \A d \in CPU \ {Primary} : done'[d] = done[d] /\ startup'[d] = startup[d]
        /\ ready' = ready
        /\ UNCHANGED <<vars, board, firmware, l2, cpus>>
    BY <1>1, <2>1, <2>2, StepEffect, SMTT(60)
  <2>4. k = 0 BY <1>1, <2>3, ARMPrimaryNext
  <2>5. UNCHANGED <<x86, cores, pc, masked>> BY <2>3 DEF vars
  <2> HIDE DEF k, r
  <2>6. PrimaryPlace' BY <2>3, <2>4, <2>5 DEF PrimaryInv, PrimaryPlace, k
  <2>7. PrimaryCaches'
    BY <2>2, <2>3, <2>4 DEF PrimaryInv, PrimaryCaches, EarlyL1, EarlyPL310, k, r
  <2>8. PrimaryUnits' /\ PrimaryThings'
    BY <2>2, <2>3, <2>4 DEF PrimaryInv, PrimaryUnits, PrimaryThings
  <2> QED BY <2>5, <1>1, <2>3, <2>4, <2>6, <2>7, <2>8 DEF PrimaryInv, k
(* The caches that the boot ROM has left on are cleaned and go off. *)
<1>5. ASSUME DisableEarlyCaches PROVE Kept
  <2> DEFINE s == IF EarlyL1
                  THEN asm_disable_instruction_cache(asm_disable_unified_cache(asm_clean_data_caches(r)))
                  ELSE r
  <2>1. /\ pc[Primary] # "off" /\ NextStep(Primary) = "quiet"
        /\ done' = [done EXCEPT ![Primary] = @ + 1]
        /\ startup' = [startup EXCEPT ![Primary] = s]
        /\ l2' = IF EarlyPL310 THEN DisableSharedCache ELSE l2
        /\ UNCHANGED <<vars, board, firmware, ready, cpus>>
    BY <1>5 DEF DisableEarlyCaches, At, Advance
  <2>2. k = 1 BY <1>1, <2>1, ARMPrimaryNext
  <2>3. /\ s \in CoreState
        /\ s.stack = r.stack /\ s.dirty = {} /\ "dcache" \notin s.unit
    <3>1. CASE EarlyL1
      <4> DEFINE clean == asm_clean_data_caches(r)
      <4>1. /\ clean \in CoreState
            /\ clean.stack = r.stack /\ clean.dirty = {}
        BY <1>2, EachLineVisited DEF asm_clean_data_caches, CoreState
      <4>2. s = asm_disable_instruction_cache(asm_disable_unified_cache(clean))
        BY <3>1
      <4> HIDE DEF clean, s
      <4> QED BY <4>1, <4>2, QuietEffect
    <3>2. CASE ~EarlyL1
      BY <1>2, <2>2, <3>2 DEF PrimaryInv, PrimaryCaches
    <3> QED BY <3>1, <3>2
  <2>4. /\ l2' \in [on : BOOLEAN, stale : BOOLEAN, dirty : BOOLEAN]
        /\ ~l2'.on /\ ~l2'.dirty
    <3>1. CASE EarlyPL310
      BY <2>1, <3>1 DEF DisableSharedCache, cleanAndInvalidateSharedCache, StartupTypes
    <3>2. CASE ~EarlyPL310
      BY <2>1, <2>2, <3>2 DEF PrimaryInv, PrimaryCaches, StartupTypes
    <3> QED BY <3>1, <3>2
  <2> HIDE DEF s
  <2>5. /\ StartupTypes' /\ done'[Primary] = 2 /\ startup'[Primary] = s
        /\ \A d \in CPU \ {Primary} : done'[d] = done[d] /\ startup'[d] = startup[d]
    BY <1>1, <2>1, <2>2, <2>3, <2>4 DEF StartupTypes, vars
  <2>6. UNCHANGED <<x86, cores, pc, masked>> BY <2>1 DEF vars
  <2> HIDE DEF k, r
  <2>7. PrimaryPlace' BY <2>2, <2>5, <2>6 DEF PrimaryInv, PrimaryPlace, k
  <2>8. PrimaryCaches' BY <2>3, <2>4, <2>5 DEF PrimaryCaches
  <2>9. PrimaryUnits' /\ PrimaryThings'
    BY <2>2, <2>3, <2>5 DEF PrimaryInv, PrimaryUnits, PrimaryThings, k, r
  <2> QED BY <2>6, <1>1, <2>1, <2>2, <2>5, <2>7, <2>8, <2>9 DEF PrimaryInv, k
<1>6. ASSUME EnableL1(Primary) PROVE Kept
  <2>1. /\ StartupTypes' /\ NextStep(Primary) = "l1"
        /\ done'[Primary] = k + 1
        /\ startup'[Primary].unit = r.unit \cup {"dcache", "icache"}
        /\ startup'[Primary].stale = {} /\ startup'[Primary].dirty = {}
        /\ startup'[Primary].stack = r.stack
        /\ \A d \in CPU \ {Primary} : done'[d] = done[d] /\ startup'[d] = startup[d]
        /\ ready' = ready
        /\ UNCHANGED <<vars, board, firmware, l2, cpus>>
    BY <1>1, <1>6, L1Effect
  <2>2. k = 12 BY <1>1, <2>1, ARMPrimaryNext
  <2>3. UNCHANGED <<x86, cores, pc, masked>> BY <2>1 DEF vars
  <2> HIDE DEF k, r
  <2>4. PrimaryPlace' BY <2>1, <2>2, <2>3 DEF PrimaryInv, PrimaryPlace, k
  <2>5. PrimaryCaches'
    BY <2>1, <2>2 DEF PrimaryInv, PrimaryCaches, EarlyL1, EarlyPL310, k, r
  <2>6. PrimaryUnits' /\ PrimaryThings'
    BY <2>1, <2>2 DEF PrimaryInv, PrimaryUnits, PrimaryThings, k, r
  <2> QED BY <2>3, <1>1, <2>1, <2>2, <2>4, <2>5, <2>6 DEF PrimaryInv, k
<1>7. ASSUME EnableSharedCache PROVE Kept
  <2>1. /\ NextStep(Primary) = "l2"
        /\ done' = [done EXCEPT ![Primary] = @ + 1]
        /\ l2' = [[l2 EXCEPT !.stale = FALSE, !.dirty = FALSE] EXCEPT !.on = TRUE]
        /\ UNCHANGED <<vars, board, firmware, startup, ready, cpus>>
    BY <1>7 DEF EnableSharedCache, invalidateSharedCache, At, Advance
  <2>2. k = 15 BY <1>1, <2>1, ARMPrimaryNext
  <2>3. l2' \in [on : BOOLEAN, stale : BOOLEAN, dirty : BOOLEAN] /\ l2'.on /\ ~l2'.stale /\ ~l2'.dirty
    BY <2>1 DEF StartupTypes
  <2>4. /\ StartupTypes' /\ done'[Primary] = 16
        /\ \A d \in CPU \ {Primary} : done'[d] = done[d]
    BY <1>1, <2>1, <2>2, <2>3 DEF StartupTypes, vars
  <2>5. UNCHANGED <<x86, cores, pc, masked>> BY <2>1 DEF vars
  <2> HIDE DEF k, r
  <2>6. PrimaryPlace' BY <2>2, <2>4, <2>5 DEF PrimaryInv, PrimaryPlace, k
  <2>7. PrimaryCaches'
    BY <2>1, <2>2, <2>3, <2>4 DEF PrimaryInv, PrimaryCaches, EarlyL1, k
  <2>8. PrimaryUnits' /\ PrimaryThings'
    BY <2>1, <2>2, <2>4 DEF PrimaryInv, PrimaryUnits, PrimaryThings, k
  <2> QED BY <2>5, <1>1, <2>1, <2>2, <2>4, <2>6, <2>7, <2>8 DEF PrimaryInv, k
<1>8. Switch(r, {}) = r BY <1>2 DEF Switch, CoreState
<1> HIDE DEF k, r, Kept
<1>9. ASSUME EnableSCU PROVE Kept
  <2>1. Step(Primary, "scu", Switch(r, {"smp"}), {"scu"}) BY <1>9 DEF EnableSCU, enableSMPMode, r
  <2>2. {"smp"} \in SUBSET Units /\ "dcache" \notin {"smp"} BY DEF Units
  <2> QED BY <2>1, <2>2, <1>3
<1>10. ASSUME EnableFPU PROVE Kept
  <2>1. Step(Primary, "fpu", Switch(r, {"fpu"}), {}) BY <1>10 DEF EnableFPU, r
  <2>2. {"fpu"} \in SUBSET Units /\ "dcache" \notin {"fpu"} BY DEF Units
  <2> QED BY <2>1, <2>2, <1>3
<1>11. ASSUME ClearBss PROVE Kept
  <2>1. Step(Primary, "bss", Switch(r, {}), {"bss"}) BY <1>11, <1>8 DEF ClearBss, r
  <2>2. {} \in SUBSET Units /\ "dcache" \notin {} BY DEF Units
  <2> QED BY <2>1, <2>2, <1>3
<1>12. ASSUME CallConstructors PROVE Kept
  <2>1. Step(Primary, "constructors", Switch(r, {}), {"objects"}) BY <1>12, <1>8 DEF CallConstructors, r
  <2>2. {} \in SUBSET Units /\ "dcache" \notin {} BY DEF Units
  <2> QED BY <2>1, <2>2, <1>3
<1>13. ASSUME FillPageTable PROVE Kept
  <2>1. Step(Primary, "table", Switch(r, {}), {"table"}) BY <1>13, <1>8 DEF FillPageTable, r
  <2>2. {} \in SUBSET Units /\ "dcache" \notin {} BY DEF Units
  <2> QED BY <2>1, <2>2, <1>3
<1>14. ASSUME SetMemoryMap PROVE Kept
  <2>1. Step(Primary, "regions", Switch(r, {}), {"regions"}) BY <1>14, <1>8 DEF SetMemoryMap, r
  <2>2. {} \in SUBSET Units /\ "dcache" \notin {} BY DEF Units
  <2> QED BY <2>1, <2>2, <1>3
<1>15. ASSUME setVBAR(Primary) PROVE Kept
  <2>1. Step(Primary, "vectors", Switch(r, {"vectors"}), {}) BY <1>15 DEF setVBAR, r
  <2>2. {"vectors"} \in SUBSET Units /\ "dcache" \notin {"vectors"} BY DEF Units
  <2> QED BY <2>1, <2>2, <1>3
<1>16. ASSUME activateMMU(Primary) PROVE Kept
  <2>1. Step(Primary, "mmu", Switch(r, {"mmu"}), {}) BY <1>16 DEF activateMMU, r
  <2>2. {"mmu"} \in SUBSET Units /\ "dcache" \notin {"mmu"} BY DEF Units
  <2> QED BY <2>1, <2>2, <1>3
<1>17. ASSUME EnableCycleCount(Primary) PROVE Kept
  <2>1. Step(Primary, "cycles", Switch(r, {"cycles"}), {}) BY <1>17 DEF EnableCycleCount, r
  <2>2. {"cycles"} \in SUBSET Units /\ "dcache" \notin {"cycles"} BY DEF Units
  <2> QED BY <2>1, <2>2, <1>3
<1>18. ASSUME EnableSMP(Primary) PROVE Kept
  <2>1. Step(Primary, "smp", Switch(r, {"smp"}), {}) BY <1>18 DEF EnableSMP, enableSMPMode, r
  <2>2. {"smp"} \in SUBSET Units /\ "dcache" \notin {"smp"} BY DEF Units
  <2> QED BY <2>1, <2>2, <1>3
<1>19. ASSUME EnablePrefetching(Primary) PROVE Kept
  <2>1. Step(Primary, "prefetch", Switch(r, {"prefetch"}), {}) BY <1>19 DEF EnablePrefetching, enablePrefetching, r
  <2>2. {"prefetch"} \in SUBSET Units /\ "dcache" \notin {"prefetch"} BY DEF Units
  <2> QED BY <2>1, <2>2, <1>3
<1>20. ASSUME PreloadCritical PROVE Kept
  <2>1. Step(Primary, "critical", Switch(r, {}), {"critical"}) BY <1>20, <1>8 DEF PreloadCritical, r
  <2>2. {} \in SUBSET Units /\ "dcache" \notin {} BY DEF Units
  <2> QED BY <2>1, <2>2, <1>3
<1>21. ASSUME InitGIC PROVE Kept
  <2>1. Step(Primary, "gic", Switch(r, {"controller"}), {"distributor"}) BY <1>21 DEF InitGIC, r
  <2>2. {"controller"} \in SUBSET Units /\ "dcache" \notin {"controller"} BY DEF Units
  <2> QED BY <2>1, <2>2, <1>3
<1>22. ASSUME init_imx6 \/ init_exynos4412 \/ init_omap4460 PROVE Kept
  <2>1. PICK things : Step(Primary, "soc", Switch(r, {}), things)
    BY <1>22, <1>8 DEF init_imx6, init_exynos4412, init_omap4460, r
  <2>2. {} \in SUBSET Units /\ "dcache" \notin {} BY DEF Units
  <2> QED BY <2>1, <2>2, <1>3
<1>23. Kept
  BY <1>4, <1>5, <1>6, <1>7, <1>9, <1>10, <1>11, <1>12, <1>13, <1>14,
     <1>15, <1>16, <1>17, <1>18, <1>19, <1>20, <1>21, <1>22 DEF ARMPrimaryStep
<1> QED BY <1>23 DEF Kept

(* A step of a secondary core's start-up code does the same for that core. *)
LEMMA ARMSecondaryStepKeeps ==
    ASSUME ~x86, StartupTypes, NEW c \in Secondary, SecondaryInv(c), ARMSecondaryStep(c)
    PROVE  /\ StartupTypes' /\ SecondaryInv(c)'
           /\ \A d \in CPU \ {c} : done'[d] = done[d] /\ startup'[d] = startup[d]
           /\ UNCHANGED <<vars, board, firmware, l2, ready, cpus>>
<1> DEFINE k == done[c]
           r == startup[c]
           Kept == /\ StartupTypes' /\ SecondaryInv(c)'
                   /\ \A d \in CPU \ {c} : done'[d] = done[d] /\ startup'[d] = startup[d]
                   /\ UNCHANGED <<vars, board, firmware, l2, ready, cpus>>
<1> USE DEF SecondaryHas, EnterAt, StartAt, ConfirmAt, Started
<1>1. k \in 0 .. 13 /\ c \in CPU /\ Primary \in CPU \ {c}
  BY Cores DEF StartupTypes, SecondaryInv, SecondaryPlace
<1>2. r \in CoreState
  BY <1>1 DEF StartupTypes
<1>3. c \in Int BY <1>1, BootAssumption DEF CPU
(* Whatever the step, the place of the core follows from the order. *)
<1>4. ASSUME NEW step, NEW s \in CoreState, Step(c, step, s, {}),
             step \notin {"enter", "confirm", "none"}
      PROVE  /\ StartupTypes' /\ SecondaryPlace(c)'
             /\ NextStep(c) = step /\ pc[c] # "off" /\ pc'[c] = pc[c]
             /\ k \in 0 .. 11 \ {4} /\ done'[c] = k + 1 /\ startup'[c] = s
             /\ \A d \in CPU \ {c} : done'[d] = done[d] /\ startup'[d] = startup[d]
             /\ UNCHANGED <<vars, board, firmware, l2, ready, cpus>>
  <2>1. /\ StartupTypes' /\ pc[c] # "off" /\ NextStep(c) = step
        /\ done'[c] = done[c] + 1 /\ startup'[c] = s
        /\ \A d \in CPU \ {c} : done'[d] = done[d] /\ startup'[d] = startup[d]
        /\ ready' = ready
        /\ UNCHANGED <<vars, board, firmware, l2, cpus>>
    BY <1>1, <1>4, StepEffect
  <2>2. k \in 0 .. 11 \ {4}
    <3>1. k = 13 => NextStep(c) = "none"
      BY Cores DEF NextStep, Program, ARMSecondary
    <3> QED BY <1>1, <1>4, <2>1, <3>1, ARMSecondaryNext
  <2>3. UNCHANGED <<x86, cores, pc, masked>> BY <2>1 DEF vars
  <2>4. done'[Primary] = done[Primary] BY <1>1, <2>1
  <2> HIDE DEF k
  <2>5. SecondaryPlace(c)'
    BY <2>1, <2>2, <2>3, <2>4 DEF SecondaryInv, SecondaryPlace, k
  <2> QED BY <2>1, <2>2, <2>3, <2>5 DEF k
(* The steps that switch units on. *)
<1>5. ASSUME NEW step, NEW units \in SUBSET Units, "dcache" \notin units,
             Step(c, step, Switch(r, units), {}),
             step \notin {"stacks", "quiet", "enter", "l1", "confirm", "none"},
             step \in {"firstMMU", "mmu"} => "mmu" \in units,
             step = "fpu" => "fpu" \in units,
             step = "smp" => "smp" \in units,
             step = "vectors" => "vectors" \in units,
             step = "controller" => "controller" \in units
      PROVE  Kept
  <2> DEFINE s == Switch(r, units)
  <2>1. /\ s \in CoreState
        /\ s.unit = r.unit \cup units
        /\ s.stale = r.stale /\ s.dirty = r.dirty /\ s.stack = r.stack
    BY <1>2, <1>5, SwitchFields
  <2>2. Step(c, step, s, {}) BY <1>5
  <2> HIDE DEF s
  <2>3. /\ StartupTypes' /\ SecondaryPlace(c)'
        /\ NextStep(c) = step /\ pc[c] # "off" /\ pc'[c] = pc[c]
        /\ k \in 0 .. 11 \ {4} /\ done'[c] = k + 1 /\ startup'[c] = s
        /\ \A d \in CPU \ {c} : done'[d] = done[d] /\ startup'[d] = startup[d]
        /\ UNCHANGED <<vars, board, firmware, l2, ready, cpus>>
    BY <1>4, <1>5, <2>1, <2>2
  <2>4. /\ k \notin {0, 2, 7}
        /\ k = 1 => step = "firstMMU"
        /\ k = 3 => step = "fpu"
        /\ k = 5 => step = "smp"
        /\ k = 10 => step = "vectors"
        /\ k = 11 => step = "controller"
    BY <1>1, <1>5, <2>3, ARMSecondaryNext
  <2> HIDE DEF k, r
  <2>5. SecondaryUnits(c)'
    BY <1>5, <2>1, <2>3, <2>4 DEF SecondaryInv, SecondaryUnits, EarlyL1, k, r
  <2> QED BY <2>3, <2>5 DEF SecondaryInv, vars
<1>6. ASSUME SetSecondaryStacks(c) PROVE Kept
  <2> DEFINE s == [r EXCEPT !.stack = c, !.unit = @ \ {"smp"}]
  <2>1. Step(c, "stacks", s, {}) BY <1>6 DEF SetSecondaryStacks
  <2>2. /\ s \in CoreState
        /\ s.unit = r.unit \ {"smp"} /\ s.stale = r.stale /\ s.stack = c
    <3> HIDE DEF r
    <3> QED BY <1>2, <1>3 DEF CoreState
  <2> HIDE DEF s
  <2>3. /\ StartupTypes' /\ SecondaryPlace(c)'
        /\ NextStep(c) = "stacks" /\ pc[c] # "off" /\ pc'[c] = pc[c]
        /\ done'[c] = k + 1 /\ startup'[c] = s
        /\ \A d \in CPU \ {c} : done'[d] = done[d] /\ startup'[d] = startup[d]
        /\ UNCHANGED <<vars, board, firmware, l2, ready, cpus>>
    BY <1>4, <2>1, <2>2
  <2>4. k = 0 BY <1>1, <2>3, ARMSecondaryNext
  <2> HIDE DEF k, r
  <2>5. SecondaryUnits(c)'
    BY <2>2, <2>3, <2>4 DEF SecondaryInv, SecondaryUnits, EarlyL1, k, r
  <2> QED BY <2>3, <2>5 DEF SecondaryInv, vars
<1>7. ASSUME DisableSecondaryCaches(c) PROVE Kept
  <2> DEFINE s == IF EarlyL1 THEN asm_disable_instruction_cache(asm_disable_unified_cache(r)) ELSE r
  <2>1. Step(c, "quiet", s, {}) BY <1>7 DEF DisableSecondaryCaches
  <2>2. At(c, "quiet") BY <2>1 DEF Step
  <2>3. k = 2 BY <1>1, <2>2, ARMSecondaryNext DEF At
  <2>4. /\ s \in CoreState /\ s.stack = r.stack
        /\ "dcache" \notin s.unit
        /\ r.unit \ {"dcache", "icache"} \subseteq s.unit
    <3>1. CASE EarlyL1
      BY <1>2, <3>1, QuietEffect
    <3>2. CASE ~EarlyL1
      BY <1>2, <2>3, <3>2 DEF SecondaryInv, SecondaryUnits
    <3> QED BY <3>1, <3>2
  <2> HIDE DEF s
  <2>5. /\ StartupTypes' /\ SecondaryPlace(c)'
        /\ pc[c] # "off" /\ pc'[c] = pc[c]
        /\ done'[c] = k + 1 /\ startup'[c] = s
        /\ \A d \in CPU \ {c} : done'[d] = done[d] /\ startup'[d] = startup[d]
        /\ UNCHANGED <<vars, board, firmware, l2, ready, cpus>>
    BY <1>4, <2>1, <2>4
  <2> HIDE DEF k, r
  <2>6. SecondaryUnits(c)'
    BY <2>3, <2>4, <2>5 DEF SecondaryInv, SecondaryUnits, k, r
  <2> QED BY <2>5, <2>6 DEF SecondaryInv, vars
<1>8. ASSUME EnableL1(c) PROVE Kept
  <2>1. /\ StartupTypes' /\ pc[c] # "off" /\ NextStep(c) = "l1"
        /\ done'[c] = k + 1
        /\ startup'[c].unit = r.unit \cup {"dcache", "icache"}
        /\ startup'[c].stale = {} /\ startup'[c].stack = r.stack
        /\ \A d \in CPU \ {c} : done'[d] = done[d] /\ startup'[d] = startup[d]
        /\ UNCHANGED <<vars, board, firmware, l2, ready, cpus>>
    BY <1>1, <1>8, L1Effect
  <2>2. k = 7 BY <1>1, <2>1, ARMSecondaryNext
  <2>3. UNCHANGED <<x86, cores, pc, masked>> BY <2>1 DEF vars
  <2>4. done'[Primary] = done[Primary] BY <1>1, <2>1
  <2> HIDE DEF k, r
  <2>5. SecondaryPlace(c)'
    BY <2>1, <2>2, <2>3, <2>4 DEF SecondaryInv, SecondaryPlace, k
  <2>6. SecondaryUnits(c)'
    BY <2>1, <2>2, <2>3 DEF SecondaryInv, SecondaryUnits, k, r
  <2> QED BY <2>1, <2>5, <2>6 DEF SecondaryInv, vars
<1> HIDE DEF k, r, Kept
<1>9. ASSUME FirstMMU(c) PROVE Kept
  <2>1. Step(c, "firstMMU", Switch(r, {"mmu"}), {}) BY <1>9 DEF FirstMMU, r
  <2>2. {"mmu"} \in SUBSET Units /\ "dcache" \notin {"mmu"} BY DEF Units
  <2> QED BY <2>1, <2>2, <1>5
<1>10. ASSUME EnableSecondaryFPU(c) PROVE Kept
  <2>1. Step(c, "fpu", Switch(r, {"fpu"}), {}) BY <1>10 DEF EnableSecondaryFPU, r
  <2>2. {"fpu"} \in SUBSET Units /\ "dcache" \notin {"fpu"} BY DEF Units
  <2> QED BY <2>1, <2>2, <1>5
<1>11. ASSUME EnableSMP(c) PROVE Kept
  <2>1. Step(c, "smp", Switch(r, {"smp"}), {}) BY <1>11 DEF EnableSMP, enableSMPMode, r
  <2>2. {"smp"} \in SUBSET Units /\ "dcache" \notin {"smp"} BY DEF Units
  <2> QED BY <2>1, <2>2, <1>5
<1>12. ASSUME EnablePrefetching(c) PROVE Kept
  <2>1. Step(c, "prefetch", Switch(r, {"prefetch"}), {}) BY <1>12 DEF EnablePrefetching, enablePrefetching, r
  <2>2. {"prefetch"} \in SUBSET Units /\ "dcache" \notin {"prefetch"} BY DEF Units
  <2> QED BY <2>1, <2>2, <1>5
<1>13. ASSUME activateMMU(c) PROVE Kept
  <2>1. Step(c, "mmu", Switch(r, {"mmu"}), {}) BY <1>13 DEF activateMMU, r
  <2>2. {"mmu"} \in SUBSET Units /\ "dcache" \notin {"mmu"} BY DEF Units
  <2> QED BY <2>1, <2>2, <1>5
<1>14. ASSUME EnableCycleCount(c) PROVE Kept
  <2>1. Step(c, "cycles", Switch(r, {"cycles"}), {}) BY <1>14 DEF EnableCycleCount, r
  <2>2. {"cycles"} \in SUBSET Units /\ "dcache" \notin {"cycles"} BY DEF Units
  <2> QED BY <2>1, <2>2, <1>5
<1>15. ASSUME setVBAR(c) PROVE Kept
  <2>1. Step(c, "vectors", Switch(r, {"vectors"}), {}) BY <1>15 DEF setVBAR, r
  <2>2. {"vectors"} \in SUBSET Units /\ "dcache" \notin {"vectors"} BY DEF Units
  <2> QED BY <2>1, <2>2, <1>5
<1>16. ASSUME EnableCoreInterface(c) PROVE Kept
  <2>1. Step(c, "controller", Switch(r, {"controller"}), {}) BY <1>16 DEF EnableCoreInterface, r
  <2>2. {"controller"} \in SUBSET Units /\ "dcache" \notin {"controller"} BY DEF Units
  <2> QED BY <2>1, <2>2, <1>5
<1>17. Kept
  BY <1>6, <1>7, <1>8, <1>9, <1>10, <1>11, <1>12, <1>13, <1>14, <1>15, <1>16
  DEF ARMSecondaryStep
<1> QED BY <1>17 DEF Kept

(* The same on AMD64.                                                      *)
LEMMA X86PrimaryStepKeeps ==
    ASSUME x86, StartupTypes, PrimaryInv, X86PrimaryStep
    PROVE  /\ StartupTypes' /\ PrimaryInv'
           /\ done'[Primary] >= done[Primary]
           /\ \A c \in Secondary : done'[c] = done[c] /\ startup'[c] = startup[c]
           /\ UNCHANGED <<vars, board, firmware>>
<1> DEFINE k == done[Primary]
           r == startup[Primary]
           Kept == /\ StartupTypes' /\ PrimaryInv'
                   /\ done'[Primary] >= done[Primary]
                   /\ \A c \in Secondary : done'[c] = done[c] /\ startup'[c] = startup[c]
                   /\ UNCHANGED <<vars, board, firmware>>
<1> USE DEF PrimaryHas, EnterAt, StartAt, FinishAt
<1>0. Primary = 0 BY DEF Primary
<1>1. k \in 0 .. 19 /\ Primary \in CPU /\ \A c \in Secondary : c \in CPU \ {Primary}
  BY Cores DEF StartupTypes, PrimaryInv, PrimaryPlace
<1>2. r \in CoreState
  BY <1>1 DEF StartupTypes
(* The steps that move the core on in its program. *)
<1>3. ASSUME NEW step, NEW s \in CoreState, NEW things, Step(Primary, step, s, things),
             step \notin {"enter", "startCores", "finish", "none"}
      PROVE  /\ StartupTypes' /\ PrimaryPlace' /\ NextStep(Primary) = step
             /\ k \in 0 .. 19 \ {6, 16, 18, 19}
             /\ done'[Primary] = k + 1 /\ startup'[Primary] = s
             /\ \A c \in Secondary : done'[c] = done[c] /\ startup'[c] = startup[c]
             /\ ready' = ready \cup things
             /\ UNCHANGED <<vars, x86, board, firmware, l2, cpus>>
  <2>1. /\ StartupTypes' /\ NextStep(Primary) = step
        /\ done'[Primary] = done[Primary] + 1 /\ startup'[Primary] = s
        /\ \A d \in CPU \ {Primary} : done'[d] = done[d] /\ startup'[d] = startup[d]
        /\ ready' = ready \cup things
        /\ UNCHANGED <<vars, board, firmware, l2, cpus>>
    BY <1>1, <1>3, StepEffect
  <2>2. k \notin {6, 16, 18, 19}
    <3>1. k = 19 => NextStep(Primary) = "none"
      BY DEF NextStep, Program, X86Primary
    <3> QED BY <1>1, <1>3, <2>1, <3>1, X86PrimaryNext
  <2>3. UNCHANGED <<x86, cores, pc, masked>> BY <2>1 DEF vars
  <2> HIDE DEF k
  <2>4. PrimaryPlace'
    BY <1>1, <2>1, <2>2, <2>3 DEF PrimaryInv, PrimaryPlace, k
  <2> QED BY <1>1, <2>1, <2>2, <2>3, <2>4 DEF k
(* Those among them that switch units on and make things ready. *)
<1>4. ASSUME NEW step, NEW units \in SUBSET Units, "dcache" \notin units,
             NEW things, "rsdp" \notin things,
             Step(Primary, step, Switch(r, units), things),
             step \notin {"reset", "stacks", "enter", "multiboot", "acpi", "startCores",
                          "finish", "none"},
             step = "modes" => "sse" \in units,
             step = "long" => "long" \in units,
             step = "constructors" => "vectors" \in units /\ "objects" \in things,
             step = "table" => "table" \in things,
             step = "regions" => "regions" \in things,
             step = "controller" => "controller" \in units,
             step = "relocate" => "trampoline" \in things
      PROVE  Kept
  <2> DEFINE s == Switch(r, units)
  <2>1. /\ s \in CoreState
        /\ s.unit = r.unit \cup units
        /\ s.stale = r.stale /\ s.dirty = r.dirty /\ s.stack = r.stack
    BY <1>2, <1>4, SwitchFields
  <2>2. Step(Primary, step, s, things) BY <1>4
  <2> HIDE DEF s
  <2>3. /\ StartupTypes' /\ PrimaryPlace' /\ NextStep(Primary) = step
        /\ k \in 0 .. 19 \ {6, 16, 18, 19}
        /\ done'[Primary] = k + 1 /\ startup'[Primary] = s
        /\ \A c \in Secondary : done'[c] = done[c] /\ startup'[c] = startup[c]
        /\ ready' = ready \cup things
        /\ UNCHANGED <<vars, x86, board, firmware, l2, cpus>>
    BY <1>3, <1>4, <2>1, <2>2
  <2>4. /\ k \notin {0, 5, 10, 12}
        /\ k = 1 => step = "modes"
        /\ k = 3 => step = "long"
        /\ k = 4 => step = "constructors"
        /\ k = 7 => step = "table"
        /\ k = 9 => step = "regions"
        /\ k = 11 => step = "controller"
        /\ k = 15 => step = "relocate"
    BY <1>1, <1>4, <2>3, X86PrimaryNext
  <2> HIDE DEF k, r
  <2>5. X86PrimaryUnits'
    BY <1>4, <2>1, <2>3, <2>4 DEF PrimaryInv, X86PrimaryUnits, k, r
  <2>6. X86PrimaryThings'
    <3>1. ready' = ready \cup things /\ firmware' = firmware /\ cpus' = cpus
      BY <2>3
    <3>2. ExternalRSDPs(firmware)' = ExternalRSDPs(firmware)
      BY <3>1
    <3>3. X86PrimaryThings BY DEF PrimaryInv
    <3> HIDE DEF PrimaryHas
    <3>4. k \in 0 .. 19 \ {6, 16, 18, 19} /\ done'[Primary] = k + 1
      BY <2>3
    <3>5. "rsdp" \in ready' <=> done'[Primary] >= 11 /\ ExternalRSDPs(firmware)' # <<>>
      <4>1. "rsdp" \in ready <=> k >= 11 /\ ExternalRSDPs(firmware) # <<>>
        BY <3>3 DEF X86PrimaryThings, k
      <4>2. "rsdp" \in ready' <=> "rsdp" \in ready
        BY <1>4, <3>1
      <4>3. done'[Primary] >= 11 <=> k >= 11
        BY <2>4, <3>4
      <4> QED BY <3>2, <4>1, <4>2, <4>3
    <3>6. cpus' = IF done'[Primary] >= 13 THEN firmware'.cores ELSE <<>>
      <4>1. cpus = IF k >= 13 THEN firmware.cores ELSE <<>>
        BY <3>3 DEF X86PrimaryThings, k
      <4> QED BY <2>4, <3>1, <3>4, <4>1
    <3>7. /\ k + 1 >= 5 => "objects" \in ready'
          /\ k + 1 >= 8 => "table" \in ready'
          /\ k + 1 >= 10 => "regions" \in ready'
          /\ k + 1 >= 13 => "uncached" \in ready' /\ "ioapic" \in ready'
          /\ k + 1 >= 16 => "trampoline" \in ready'
      <4>1. /\ k >= 5 => "objects" \in ready
            /\ k >= 8 => "table" \in ready
            /\ k >= 10 => "regions" \in ready
            /\ k >= 13 => "uncached" \in ready /\ "ioapic" \in ready
            /\ k >= 16 => "trampoline" \in ready
        BY <3>3 DEF X86PrimaryThings, k
      <4> QED BY <1>4, <2>4, <3>1, <3>4, <4>1
    <3> QED BY <3>4, <3>5, <3>6, <3>7 DEF X86PrimaryThings
  <2> QED BY <1>1, <2>3, <2>5, <2>6 DEF PrimaryInv, k
<1>5. ASSUME EnterMultiboot PROVE Kept
  <2> DEFINE s == [Switch(r, {"segments"}) EXCEPT !.stack = StartupStack]
  <2>1. Step(Primary, "reset", s, {}) BY <1>5 DEF EnterMultiboot
  <2>2. s \in CoreState /\ s.unit = r.unit \cup {"segments"} /\ s.stack = StartupStack
    <3> DEFINE t == Switch(r, {"segments"})
    <3>1. {"segments"} \in SUBSET Units /\ StartupStack \in Int
      BY DEF Units, StartupStack
    <3>2. t \in CoreState /\ t.unit = r.unit \cup {"segments"}
      BY <1>2, <3>1, SwitchFields
    <3> HIDE DEF r, t
    <3>3. s = [t EXCEPT !.stack = StartupStack] BY DEF t
    <3> QED BY <3>1, <3>2, <3>3 DEF CoreState
  <2> HIDE DEF s
  <2>3. /\ StartupTypes' /\ PrimaryPlace' /\ NextStep(Primary) = "reset"
        /\ done'[Primary] = k + 1 /\ startup'[Primary] = s
        /\ \A c \in Secondary : done'[c] = done[c] /\ startup'[c] = startup[c]
        /\ ready' = ready \cup {}
        /\ UNCHANGED <<vars, x86, board, firmware, l2, cpus>>
    BY <1>3, <2>1, <2>2
  <2>4. k = 0 BY <1>1, <2>3, X86PrimaryNext
  <2> HIDE DEF k, r
  <2>5. X86PrimaryUnits'
    BY <2>2, <2>3, <2>4 DEF PrimaryInv, X86PrimaryUnits, k, r
  <2>6. X86PrimaryThings'
    BY <2>3, <2>4 DEF PrimaryInv, X86PrimaryThings, k
  <2> QED BY <1>1, <2>3, <2>4, <2>5, <2>6 DEF PrimaryInv, k
(* Before the tables are read the primary core has the number 0. *)
<1>6. ASSUME MoveStack PROVE Kept
  <2> DEFINE s == [r EXCEPT !.stack = getCPUID(Primary)]
  <2>1. Step(Primary, "stacks", s, {}) BY <1>6 DEF MoveStack
  <2>2. At(Primary, "stacks") BY <2>1 DEF Step
  <2>3. k = 5 BY <1>1, <2>2, X86PrimaryNext DEF At
  <2>4. getCPUID(Primary) = Primary
    <3>1. cpus = <<>> BY <2>3 DEF PrimaryInv, X86PrimaryThings
    <3> QED BY <1>0, <3>1 DEF getCPUID
  <2>5. s \in CoreState /\ s.unit = r.unit /\ s.stack = Primary
    <3> HIDE DEF r
    <3>1. Primary \in Int BY <1>0
    <3> QED BY <1>2, <2>4, <3>1 DEF CoreState
  <2> HIDE DEF s
  <2>6. /\ StartupTypes' /\ PrimaryPlace'
        /\ done'[Primary] = k + 1 /\ startup'[Primary] = s
        /\ \A c \in Secondary : done'[c] = done[c] /\ startup'[c] = startup[c]
        /\ ready' = ready \cup {}
        /\ UNCHANGED <<vars, x86, board, firmware, l2, cpus>>
    BY <1>3, <2>1, <2>5
  <2> HIDE DEF k, r
  <2>7. X86PrimaryUnits'
    BY <2>3, <2>5, <2>6 DEF PrimaryInv, X86PrimaryUnits, k, r
  <2>8. X86PrimaryThings'
    BY <2>3, <2>6 DEF PrimaryInv, X86PrimaryThings, k
  <2> QED BY <1>1, <2>3, <2>6, <2>7, <2>8 DEF PrimaryInv, k
<1>7. ASSUME WalkInformation PROVE Kept
  <2> DEFINE things == IF ExternalRSDPs(firmware) = <<>> THEN {} ELSE {"rsdp"}
  <2>1. Step(Primary, "multiboot", r, things) BY <1>7 DEF WalkInformation
  <2>2. "rsdp" \in things <=> ExternalRSDPs(firmware) # <<>> OBVIOUS
  <2> HIDE DEF things
  <2>3. /\ StartupTypes' /\ PrimaryPlace' /\ NextStep(Primary) = "multiboot"
        /\ done'[Primary] = k + 1 /\ startup'[Primary] = r
        /\ \A c \in Secondary : done'[c] = done[c] /\ startup'[c] = startup[c]
        /\ ready' = ready \cup things
        /\ UNCHANGED <<vars, x86, board, firmware, l2, cpus>>
    BY <1>2, <1>3, <2>1
  <2>4. k = 10 BY <1>1, <2>3, X86PrimaryNext
  <2> HIDE DEF k, r
  <2>5. X86PrimaryUnits'
    BY <2>3, <2>4 DEF PrimaryInv, X86PrimaryUnits, k, r
  <2>6. ExternalRSDPs(firmware)' = ExternalRSDPs(firmware)
    <3>1. firmware' = firmware BY <2>3
    <3> QED BY <3>1
  <2>7. X86PrimaryThings'
    <3> HIDE DEF PrimaryHas
    <3>1. X86PrimaryThings BY DEF PrimaryInv, PrimaryHas
    <3> QED BY <2>2, <2>3, <2>4, <2>6, <3>1 DEF X86PrimaryThings, k
  <2> QED BY <1>1, <2>3, <2>4, <2>5, <2>7 DEF PrimaryInv, k
(* The cores that the tables list, and the one IOAPIC that there is. *)
<1>8. ASSUME InitACPI PROVE Kept
  <2>1. /\ NextStep(Primary) = "acpi"
        /\ done' = [done EXCEPT ![Primary] = @ + 1]
        /\ cpus' = RegisteredCPUs(initACPI(firmware))
        /\ ready' = ready \cup UNION {configureNewInstance(e) : e \in ToSet(IOAPICs(initACPI(firmware)))}
        /\ UNCHANGED <<vars, board, firmware, startup, l2>>
    BY <1>8 DEF InitACPI, At, Advance
  <2>2. k = 12 BY <1>1, <2>1, X86PrimaryNext
  <2>3. cpus' = firmware.cores /\ ToSet(IOAPICs(initACPI(firmware))) # {}
    <3>1. "rsdp" \in ready <=> ExternalRSDPs(firmware) # <<>>
      BY <2>2 DEF PrimaryInv, X86PrimaryThings
    <3>2. initACPI(firmware) = findEntries(IF ExternalRSDPs(firmware) # <<>>
                                           THEN Last(ExternalRSDPs(firmware)).rsdp
                                           ELSE findRSDP(firmware))
      BY <3>1 DEF initACPI
    <3>3. firmware \in Firmware BY DEF StartupTypes
    <3> QED BY <2>1, <3>2, <3>3, FirmwareAssumption
  <2>4. /\ {"uncached", "ioapic"} \subseteq ready' /\ ready \subseteq ready'
        /\ "rsdp" \in ready' <=> "rsdp" \in ready
    <3>1. \A e : configureNewInstance(e) = {"uncached", "ioapic"}
      BY DEF configureNewInstance
    <3>2. PICK e : e \in ToSet(IOAPICs(initACPI(firmware)))
      BY <2>3
    <3>3. UNION {configureNewInstance(d) : d \in ToSet(IOAPICs(initACPI(firmware)))}
            = {"uncached", "ioapic"}
      BY <3>1, <3>2
    <3> QED BY <2>1, <3>3
  <2>5. UNCHANGED <<x86, cores, pc, masked>> BY <2>1 DEF vars
  <2>6. /\ StartupTypes' /\ done'[Primary] = 13
        /\ \A c \in Secondary : done'[c] = done[c]
    BY <1>1, <2>1, <2>2, <2>5 DEF StartupTypes
  <2> HIDE DEF k, r
  <2>7. PrimaryPlace' BY <2>2, <2>5, <2>6 DEF PrimaryInv, PrimaryPlace, k
  <2>8. X86PrimaryUnits'
    BY <2>1, <2>2, <2>6 DEF PrimaryInv, X86PrimaryUnits, k
  <2>9. ExternalRSDPs(firmware)' = ExternalRSDPs(firmware)
    <3>1. firmware' = firmware BY <2>1
    <3> QED BY <3>1
  <2>10. X86PrimaryThings'
    <3> HIDE DEF PrimaryHas
    <3>1. X86PrimaryThings BY DEF PrimaryInv, PrimaryHas
    <3> QED BY <2>1, <2>2, <2>3, <2>4, <2>6, <2>9, <3>1 DEF X86PrimaryThings, k
  <2> QED BY <1>1, <2>1, <2>2, <2>5, <2>6, <2>7, <2>8, <2>10 DEF PrimaryInv, k
<1>9. Switch(r, {}) = r BY <1>2 DEF Switch, CoreState
<1> HIDE DEF k, r, Kept
<1>10. ASSUME SetModes PROVE Kept
  <2>1. Step(Primary, "modes", Switch(r, {"sse", "pae"}), {}) BY <1>10 DEF SetModes, r
  <2>2. {"sse", "pae"} \in SUBSET Units /\ "dcache" \notin {"sse", "pae"} BY DEF Units
  <2> QED BY <2>1, <2>2, <1>4
<1>11. ASSUME SetupPaging PROVE Kept
  <2>1. Step(Primary, "paging", Switch(r, {"cr3"}), {}) BY <1>11 DEF SetupPaging, r
  <2>2. {"cr3"} \in SUBSET Units /\ "dcache" \notin {"cr3"} BY DEF Units
  <2> QED BY <2>1, <2>2, <1>4
<1>12. ASSUME EnterLongMode PROVE Kept
  <2>1. Step(Primary, "long", Switch(r, {"long"}), {}) BY <1>12 DEF EnterLongMode, r
  <2>2. {"long"} \in SUBSET Units /\ "dcache" \notin {"long"} BY DEF Units
  <2> QED BY <2>1, <2>2, <1>4
<1>13. ASSUME CallInit PROVE Kept
  <2>1. Step(Primary, "constructors", Switch(r, {"vectors"}), {"objects"}) BY <1>13 DEF CallInit, fillIDT, r
  <2>2. {"vectors"} \in SUBSET Units /\ "dcache" \notin {"vectors"} BY DEF Units
  <2> QED BY <2>1, <2>2, <1>4
<1>14. ASSUME FillX86PageTable PROVE Kept
  <2>1. Step(Primary, "table", Switch(r, {}), {"table"}) BY <1>14, <1>9 DEF FillX86PageTable, r
  <2>2. {} \in SUBSET Units /\ "dcache" \notin {} BY DEF Units
  <2> QED BY <2>1, <2>2, <1>4
<1>15. ASSUME activatePagetable(Primary) PROVE Kept
  <2>1. Step(Primary, "mmu", Switch(r, {"mmu"}), {}) BY <1>15 DEF activatePagetable, r
  <2>2. {"mmu"} \in SUBSET Units /\ "dcache" \notin {"mmu"} BY DEF Units
  <2> QED BY <2>1, <2>2, <1>4
<1>16. ASSUME SetRegionsCacheable PROVE Kept
  <2>1. Step(Primary, "regions", Switch(r, {}), {"regions"}) BY <1>16, <1>9 DEF SetRegionsCacheable, r
  <2>2. {} \in SUBSET Units /\ "dcache" \notin {} BY DEF Units
  <2> QED BY <2>1, <2>2, <1>4
<1>17. ASSUME InitializeAPIC(Primary) PROVE Kept
  <2>1. Step(Primary, "controller", Switch(r, {"controller"}), {}) BY <1>17 DEF InitializeAPIC, r
  <2>2. {"controller"} \in SUBSET Units /\ "dcache" \notin {"controller"} BY DEF Units
  <2> QED BY <2>1, <2>2, <1>4
<1>18. ASSUME InitializeTimer PROVE Kept
  <2>1. Step(Primary, "timer", Switch(r, {}), {"timer"}) BY <1>18, <1>9 DEF InitializeTimer, r
  <2>2. {} \in SUBSET Units /\ "dcache" \notin {} BY DEF Units
  <2> QED BY <2>1, <2>2, <1>4
<1>19. ASSUME PreloadCritical PROVE Kept
  <2>1. Step(Primary, "critical", Switch(r, {}), {"critical"}) BY <1>19, <1>9 DEF PreloadCritical, r
  <2>2. {} \in SUBSET Units /\ "dcache" \notin {} BY DEF Units
  <2> QED BY <2>1, <2>2, <1>4
<1>20. ASSUME relocateStartupCode PROVE Kept
  <2>1. Step(Primary, "relocate", Switch(r, {}), {"trampoline"}) BY <1>20, <1>9 DEF relocateStartupCode, r
  <2>2. {} \in SUBSET Units /\ "dcache" \notin {} BY DEF Units
  <2> QED BY <2>1, <2>2, <1>4
<1>21. ASSUME InitDevices PROVE Kept
  <2>1. Step(Primary, "devices", Switch(r, {}), {"uart", "keyboard"}) BY <1>21, <1>9 DEF InitDevices, r
  <2>2. {} \in SUBSET Units /\ "dcache" \notin {} BY DEF Units
  <2> QED BY <2>1, <2>2, <1>4
<1>22. Kept
  BY <1>5, <1>6, <1>7, <1>8, <1>10, <1>11, <1>12, <1>13, <1>14, <1>15, <1>16,
     <1>17, <1>18, <1>19, <1>20, <1>21 DEF X86PrimaryStep
<1> QED BY <1>22 DEF Kept

LEMMA X86SecondaryStepKeeps ==
    ASSUME x86, TypeOK, StartupTypes, PrimaryInv, NEW c \in Secondary, SecondaryInv(c), X86SecondaryStep(c)
    PROVE  /\ StartupTypes' /\ SecondaryInv(c)'
           /\ \A d \in CPU \ {c} : done'[d] = done[d] /\ startup'[d] = startup[d]
           /\ UNCHANGED <<vars, board, firmware, l2, ready, cpus>>
<1> DEFINE k == done[c]
           r == startup[c]
           Kept == /\ StartupTypes' /\ SecondaryInv(c)'
                   /\ \A d \in CPU \ {c} : done'[d] = done[d] /\ startup'[d] = startup[d]
                   /\ UNCHANGED <<vars, board, firmware, l2, ready, cpus>>
<1> USE DEF SecondaryHas, EnterAt, StartAt, ConfirmAt, Started
<1>1. k \in 0 .. 11 /\ c \in CPU /\ Primary \in CPU \ {c}
  BY Cores DEF StartupTypes, SecondaryInv, SecondaryPlace
<1>2. r \in CoreState
  BY <1>1 DEF StartupTypes
<1>3. c \in Int BY <1>1, BootAssumption DEF CPU
(* Whatever the step, the place of the core follows from the order. *)
<1>4. ASSUME NEW step, NEW s \in CoreState, Step(c, step, s, {}),
             step \notin {"enter", "confirm", "none"}
      PROVE  /\ StartupTypes' /\ SecondaryPlace(c)'
             /\ NextStep(c) = step /\ pc[c] # "off" /\ pc'[c] = pc[c]
             /\ k \in 0 .. 9 \ {6} /\ done'[c] = k + 1 /\ startup'[c] = s
             /\ \A d \in CPU \ {c} : done'[d] = done[d] /\ startup'[d] = startup[d]
             /\ UNCHANGED <<vars, x86, board, firmware, l2, ready, cpus>>
  <2>1. /\ StartupTypes' /\ pc[c] # "off" /\ NextStep(c) = step
        /\ done'[c] = done[c] + 1 /\ startup'[c] = s
        /\ \A d \in CPU \ {c} : done'[d] = done[d] /\ startup'[d] = startup[d]
        /\ ready' = ready
        /\ UNCHANGED <<vars, board, firmware, l2, cpus>>
    BY <1>1, <1>4, StepEffect
  <2>2. k \in 0 .. 9 \ {6}
    <3>1. k = 11 => NextStep(c) = "none"
      BY Cores DEF NextStep, Program, X86Secondary
    <3> QED BY <1>1, <1>4, <2>1, <3>1, X86SecondaryNext
  <2>3. UNCHANGED <<x86, cores, pc, masked>> BY <2>1 DEF vars
  <2>4. done'[Primary] = done[Primary] BY <1>1, <2>1
  <2> HIDE DEF k
  <2>5. SecondaryPlace(c)'
    BY <2>1, <2>2, <2>3, <2>4 DEF SecondaryInv, SecondaryPlace, k
  <2> QED BY <2>1, <2>2, <2>3, <2>5 DEF k
(* The steps that switch units on. *)
<1>5. ASSUME NEW step, NEW units \in SUBSET Units, "dcache" \notin units,
             Step(c, step, Switch(r, units), {}),
             step \notin {"reset", "stacks", "enter", "confirm", "none"},
             step = "modes" => "sse" \in units,
             step = "long" => "long" \in units,
             step = "mmu" => "mmu" \in units,
             step = "controller" => "controller" \in units,
             step = "vectors" => "vectors" \in units
      PROVE  Kept
  <2> DEFINE s == Switch(r, units)
  <2>1. /\ s \in CoreState
        /\ s.unit = r.unit \cup units
        /\ s.stale = r.stale /\ s.dirty = r.dirty /\ s.stack = r.stack
    BY <1>2, <1>5, SwitchFields
  <2>2. Step(c, step, s, {}) BY <1>5
  <2> HIDE DEF s
  <2>3. /\ StartupTypes' /\ SecondaryPlace(c)'
        /\ NextStep(c) = step /\ pc[c] # "off" /\ pc'[c] = pc[c]
        /\ k \in 0 .. 9 \ {6} /\ done'[c] = k + 1 /\ startup'[c] = s
        /\ \A d \in CPU \ {c} : done'[d] = done[d] /\ startup'[d] = startup[d]
        /\ UNCHANGED <<vars, x86, board, firmware, l2, ready, cpus>>
    BY <1>4, <1>5, <2>1, <2>2
  <2>4. /\ k \notin {1, 5}
        /\ k = 2 => step = "modes"
        /\ k = 4 => step = "long"
        /\ k = 7 => step = "mmu"
        /\ k = 8 => step = "controller"
        /\ k = 9 => step = "vectors"
    BY <1>1, <1>5, <2>3, X86SecondaryNext
  <2> HIDE DEF k, r
  <2>5. X86SecondaryUnits(c)'
    BY <1>5, <2>1, <2>3, <2>4 DEF SecondaryInv, X86SecondaryUnits, k, r
  <2> QED BY <2>3, <2>5 DEF SecondaryInv
<1>6. ASSUME EnterAP(c) PROVE Kept
  <2> DEFINE s == [Switch(r, {"segments"}) EXCEPT !.stack = StartupStack]
  <2>1. Step(c, "reset", s, {}) BY <1>6 DEF EnterAP
  <2>2. s \in CoreState /\ s.unit = r.unit \cup {"segments"} /\ s.stack = StartupStack
    <3> DEFINE t == Switch(r, {"segments"})
    <3>1. {"segments"} \in SUBSET Units /\ StartupStack \in Int
      BY DEF Units, StartupStack
    <3>2. t \in CoreState /\ t.unit = r.unit \cup {"segments"}
      BY <1>2, <3>1, SwitchFields
    <3> HIDE DEF r, t
    <3>3. s = [t EXCEPT !.stack = StartupStack] BY DEF t
    <3> QED BY <3>1, <3>2, <3>3 DEF CoreState
  <2> HIDE DEF s
  <2>3. /\ StartupTypes' /\ SecondaryPlace(c)'
        /\ NextStep(c) = "reset" /\ pc[c] # "off" /\ pc'[c] = pc[c]
        /\ done'[c] = k + 1 /\ startup'[c] = s
        /\ \A d \in CPU \ {c} : done'[d] = done[d] /\ startup'[d] = startup[d]
        /\ UNCHANGED <<vars, x86, board, firmware, l2, ready, cpus>>
    BY <1>4, <2>1, <2>2
  <2>4. k = 1 BY <1>1, <2>3, X86SecondaryNext
  <2> HIDE DEF k, r
  <2>5. X86SecondaryUnits(c)'
    BY <2>2, <2>3, <2>4 DEF SecondaryInv, X86SecondaryUnits, k, r
  <2> QED BY <2>3, <2>5 DEF SecondaryInv
(* The number of a core is its place in the tables, each in one place.     *)
<1>7. ASSUME MoveStackAP(c) PROVE Kept
  <2> DEFINE s == [r EXCEPT !.stack = getCPUID(c)]
  <2>1. Step(c, "stacks", s, {}) BY <1>7 DEF MoveStackAP
  <2>2. At(c, "stacks") BY <2>1 DEF Step
  <2>3. k = 5 BY <1>1, <2>2, X86SecondaryNext DEF At
  <2>4. getCPUID(c) = c
    <3>1. done[Primary] >= 16 /\ c \in 1 .. mRegisteredCPUs - 1
      <4>1. done[Primary] >= 16 /\ c \in 1 .. cores - 1
        BY <2>2 DEF At, SecondaryInv, SecondaryPlace
      <4>2. cores \in 1 .. mRegisteredCPUs BY DEF TypeOK
      <4> QED BY <4>1, <4>2, BootAssumption
    <3>2. cpus = firmware.cores
      <4>1. done[Primary] \in Nat BY <1>1 DEF StartupTypes
      <4> QED BY <3>1, <4>1 DEF PrimaryInv, PrimaryHas, X86PrimaryThings
    <3>3. /\ firmware.cores \in Seq(Nat) /\ Len(firmware.cores) = mRegisteredCPUs
          /\ IsInjective(firmware.cores)
      <4>1. firmware \in Firmware BY DEF StartupTypes
      <4> QED BY <4>1, StartupAssumption, FirmwareAssumption
    <3>4. mRegisteredCPUs \in Nat /\ mRegisteredCPUs > 0 BY BootAssumption
    <3>5. DOMAIN cpus = 1 .. mRegisteredCPUs /\ c + 1 \in DOMAIN cpus
      BY <3>1, <3>2, <3>3, <3>4
    <3>6. {i \in DOMAIN cpus : cpus[i] = firmware.cores[c + 1]} = {c + 1}
      BY <3>2, <3>3, <3>5 DEF IsInjective
    <3>7. Max({c + 1}) = c + 1
      BY <3>1 DEF Max
    <3>8. cpus # <<>>
      <4>1. Len(cpus) > 0 BY <3>2, <3>3, <3>4
      <4>2. Len(<<>>) = 0 OBVIOUS
      <4> QED BY <4>1, <4>2
    <3> DEFINE places == {i \in DOMAIN cpus : cpus[i] = firmware.cores[c + 1]}
    <3>9. getCPUID(c) = Max(places) - 1
      BY <3>8 DEF getCPUID
    <3>10. places = {c + 1} BY <3>6
    <3> HIDE DEF places
    <3> QED BY <1>3, <3>7, <3>9, <3>10
  <2>5. s \in CoreState /\ s.unit = r.unit /\ s.stack = c
    <3> HIDE DEF r
    <3> QED BY <1>2, <1>3, <2>4 DEF CoreState
  <2> HIDE DEF s
  <2>6. /\ StartupTypes' /\ SecondaryPlace(c)'
        /\ pc[c] # "off" /\ pc'[c] = pc[c]
        /\ done'[c] = k + 1 /\ startup'[c] = s
        /\ \A d \in CPU \ {c} : done'[d] = done[d] /\ startup'[d] = startup[d]
        /\ UNCHANGED <<vars, x86, board, firmware, l2, ready, cpus>>
    BY <1>4, <2>1, <2>5
  <2> HIDE DEF k, r
  <2>7. X86SecondaryUnits(c)'
    BY <2>3, <2>5, <2>6 DEF SecondaryInv, X86SecondaryUnits, k, r
  <2> QED BY <2>6, <2>7 DEF SecondaryInv
<1> HIDE DEF k, r, Kept
<1>8. ASSUME RunTrampoline(c) PROVE Kept
  <2>1. Step(c, "trampoline", Switch(r, {"protected"}), {}) BY <1>8 DEF RunTrampoline, r
  <2>2. {"protected"} \in SUBSET Units /\ "dcache" \notin {"protected"} BY DEF Units
  <2> QED BY <2>1, <2>2, <1>5
<1>9. ASSUME SetModesAP(c) PROVE Kept
  <2>1. Step(c, "modes", Switch(r, {"sse", "pae"}), {}) BY <1>9 DEF SetModesAP, r
  <2>2. {"sse", "pae"} \in SUBSET Units /\ "dcache" \notin {"sse", "pae"} BY DEF Units
  <2> QED BY <2>1, <2>2, <1>5
<1>10. ASSUME LoadPageTableAP(c) PROVE Kept
  <2>1. Step(c, "paging", Switch(r, {"cr3"}), {}) BY <1>10 DEF LoadPageTableAP, r
  <2>2. {"cr3"} \in SUBSET Units /\ "dcache" \notin {"cr3"} BY DEF Units
  <2> QED BY <2>1, <2>2, <1>5
<1>11. ASSUME EnterLongModeAP(c) PROVE Kept
  <2>1. Step(c, "long", Switch(r, {"long"}), {}) BY <1>11 DEF EnterLongModeAP, r
  <2>2. {"long"} \in SUBSET Units /\ "dcache" \notin {"long"} BY DEF Units
  <2> QED BY <2>1, <2>2, <1>5
<1>12. ASSUME activatePagetable(c) PROVE Kept
  <2>1. Step(c, "mmu", Switch(r, {"mmu"}), {}) BY <1>12 DEF activatePagetable, r
  <2>2. {"mmu"} \in SUBSET Units /\ "dcache" \notin {"mmu"} BY DEF Units
  <2> QED BY <2>1, <2>2, <1>5
<1>13. ASSUME InitializeAPIC(c) PROVE Kept
  <2>1. Step(c, "controller", Switch(r, {"controller"}), {}) BY <1>13 DEF InitializeAPIC, r
  <2>2. {"controller"} \in SUBSET Units /\ "dcache" \notin {"controller"} BY DEF Units
  <2> QED BY <2>1, <2>2, <1>5
<1>14. ASSUME loadIDT(c) PROVE Kept
  <2>1. Step(c, "vectors", Switch(r, {"vectors"}), {}) BY <1>14 DEF loadIDT, r
  <2>2. {"vectors"} \in SUBSET Units /\ "dcache" \notin {"vectors"} BY DEF Units
  <2> QED BY <2>1, <2>2, <1>5
<1>15. Kept
  BY <1>6, <1>7, <1>8, <1>9, <1>10, <1>11, <1>12, <1>13, <1>14
  DEF X86SecondaryStep
<1> QED BY <1>15 DEF Kept

(* What the steps of the other cores leave as it is.                       *)
LEMMA SecondaryFrame ==
    ASSUME StartupTypes, StartupTypes', NEW c \in Secondary, SecondaryInv(c),
           pc'[c] = pc[c], masked'[c] = masked[c], x86' = x86, cores' = cores, board' = board,
           done'[c] = done[c], startup'[c] = startup[c], done'[Primary] >= done[Primary]
    PROVE  SecondaryInv(c)'
<1>1. done[Primary] \in Nat /\ done'[Primary] \in Nat
  BY Cores DEF StartupTypes
<1>2. /\ StartAt' = StartAt /\ ConfirmAt' = ConfirmAt /\ EnterAt(c)' = EnterAt(c)
      /\ StartAt \in Nat /\ Started' = Started
  BY DEF StartAt, ConfirmAt, EnterAt, Started
<1>3. SecondaryPlace(c)'
  BY <1>1, <1>2 DEF SecondaryInv, SecondaryPlace
<1>4. SecondaryUnits(c) => SecondaryUnits(c)'
  BY DEF SecondaryUnits, EarlyL1
<1>5. X86SecondaryUnits(c) => X86SecondaryUnits(c)'
  BY DEF X86SecondaryUnits
<1> QED BY <1>3, <1>4, <1>5 DEF SecondaryInv, SecondaryHas

LEMMA PrimaryFrame ==
    ASSUME PrimaryInv, pc'[Primary] = pc[Primary], masked'[Primary] = masked[Primary],
           done'[Primary] = done[Primary], startup'[Primary] = startup[Primary],
           UNCHANGED <<x86, cores, board, firmware, l2, ready, cpus>>
    PROVE  PrimaryInv'
<1>1. PrimaryPlace'
  BY DEF PrimaryInv, PrimaryPlace, EnterAt, StartAt, FinishAt
<1>2. /\ PrimaryCaches => PrimaryCaches'
      /\ PrimaryUnits => PrimaryUnits'
      /\ PrimaryThings => PrimaryThings'
  BY DEF PrimaryCaches, PrimaryUnits, PrimaryThings, EarlyL1, EarlyPL310
<1>3. X86PrimaryUnits => X86PrimaryUnits'
  BY DEF X86PrimaryUnits
<1>4. X86PrimaryThings => X86PrimaryThings'
  <2>1. ExternalRSDPs(firmware)' = ExternalRSDPs(firmware)
    <3>1. firmware' = firmware OBVIOUS
    <3> QED BY <3>1
  <2> QED BY <2>1 DEF X86PrimaryThings
<1> QED BY <1>1, <1>2, <1>3, <1>4 DEF PrimaryInv, PrimaryHas

(* A step of Boot leaves what a core has; it moves the core on.            *)
LEMMA PrimaryMoves ==
    ASSUME StartupTypes, PrimaryInv, NEW label, pc'[Primary] = label,
           done'[Primary] \in Nat,
           UNCHANGED <<x86, cores, board, firmware, startup, l2, ready, cpus>>,
           \/ done'[Primary] = done[Primary] /\ done[Primary] \in {StartAt, FinishAt + 1}
           \/ /\ done'[Primary] = done[Primary] + 1
              /\ done[Primary] \in {EnterAt(Primary), StartAt, FinishAt},
           done'[Primary] = EnterAt(Primary) + 1 => label = "start",
           done'[Primary] = StartAt => label \in {"start", "await"},
           done'[Primary] = StartAt + 1 => label = "init",
           done'[Primary] <= FinishAt => masked'[Primary]
    PROVE  PrimaryInv'
<1> USE DEF EnterAt, StartAt, FinishAt
<1>1. PrimaryPlace'
  BY DEF PrimaryInv, PrimaryPlace
<1>2. CASE ~x86
  <2>1. PrimaryThings'
    BY <1>2 DEF PrimaryInv, PrimaryHas, PrimaryThings
  <2>2. PrimaryCaches' /\ PrimaryUnits'
    BY <1>2 DEF PrimaryInv, PrimaryHas, PrimaryCaches, PrimaryUnits, EarlyL1, EarlyPL310
  <2> QED BY <1>1, <1>2, <2>1, <2>2 DEF PrimaryInv, PrimaryHas
<1>3. CASE x86
  <2>1. X86PrimaryUnits /\ X86PrimaryThings
    BY <1>3 DEF PrimaryInv, PrimaryHas
  <2>2. X86PrimaryUnits'
    BY <1>3, <2>1 DEF X86PrimaryUnits
  <2>3. X86PrimaryThings'
    <3>1. ExternalRSDPs(firmware)' = ExternalRSDPs(firmware)
      <4>1. firmware' = firmware OBVIOUS
      <4> QED BY <4>1
    <3> QED BY <1>3, <2>1, <3>1, SMTT(60) DEF X86PrimaryThings
  <2> QED BY <1>1, <1>3, <2>2, <2>3 DEF PrimaryInv, PrimaryHas
<1> QED BY <1>2, <1>3

LEMMA SecondaryMoves ==
    ASSUME StartupTypes, NEW c \in Secondary, SecondaryInv(c), NEW label, pc'[c] = label,
           pc[c] # "off", label # "off",
           UNCHANGED <<x86, cores, board, firmware, startup, l2, ready, cpus>>,
           \/ done'[c] = done[c] /\ done[c] = ConfirmAt + 1
           \/ done'[c] = done[c] + 1 /\ done[c] \in {EnterAt(c), ConfirmAt},
           done'[Primary] = done[Primary],
           done'[c] <= ConfirmAt => label = "setup" /\ masked'[c]
    PROVE  SecondaryInv(c)'
<1> USE DEF EnterAt, StartAt, ConfirmAt
<1>0. c # Primary BY Cores
<1>1. SecondaryPlace(c)'
  BY <1>0 DEF SecondaryInv, SecondaryPlace, Started
<1>2. CASE ~x86
  BY <1>0, <1>1, <1>2 DEF SecondaryInv, SecondaryHas, SecondaryUnits, EarlyL1
<1>3. CASE x86
  BY <1>0, <1>1, <1>3 DEF SecondaryInv, SecondaryHas, X86SecondaryUnits
<1> QED BY <1>2, <1>3

(* The step of another core, or none, of module Boot.                      *)
LEMMA BootStepKeeps ==
    ASSUME StartupTypes, PrimaryInv, \A d \in Secondary : SecondaryInv(d), NEW c \in CPU,
           \A d \in CPU \ {c} : /\ pc'[d] = pc[d] /\ masked'[d] = masked[d]
                                /\ done'[d] = done[d],
           done' \in [CPU -> Nat], done'[c] >= done[c],
           UNCHANGED <<x86, cores, board, firmware, startup, l2, ready, cpus>>,
           c = Primary => PrimaryInv', c \in Secondary => SecondaryInv(c)'
    PROVE  StartupInv'
<1>1. StartupTypes'
  BY DEF StartupTypes
<1>2. done'[Primary] >= done[Primary]
  <2>1. CASE c = Primary BY <2>1
  <2>2. CASE c # Primary BY <2>2, Cores DEF StartupTypes
  <2> QED BY <2>1, <2>2
<1>3. PrimaryInv'
  <2>1. CASE c = Primary BY <2>1
  <2>2. CASE c # Primary
    <3>1. Primary \in CPU \ {c} BY <2>2, Cores
    <3> QED BY <3>1, PrimaryFrame
  <2> QED BY <2>1, <2>2
<1>4. ASSUME NEW d \in Secondary PROVE SecondaryInv(d)'
  <2>1. CASE c = d BY <2>1
  <2>2. CASE c # d
    <3>1. d \in CPU \ {c} BY <2>2, Cores
    <3> QED BY <1>1, <1>2, <3>1, SecondaryFrame
  <2> QED BY <2>1, <2>2
<1> QED BY <1>1, <1>3, <1>4 DEF StartupInv

(* Only the core that a step of Boot is of moves, except for the start of  *)
(* a core, and the step leaves what the cores have as it is.               *)
LEMMA StartupInductive ==
    ASSUME TypeOK, StartInv, StartupInv, [StartupNext]_allVars
    PROVE  StartupInv'
<1>1. StartupTypes /\ PrimaryInv /\ \A c \in Secondary : SecondaryInv(c)
  BY DEF StartupInv
<1>2. /\ done[Primary] \in 0 .. FinishAt + 1
      /\ \A c \in Secondary : done[c] \in 0 .. ConfirmAt + 1 /\ c \in CPU /\ c # Primary
      /\ Primary \in CPU
  BY <1>1, Cores
  DEF StartupTypes, PrimaryInv, PrimaryPlace, SecondaryInv, SecondaryPlace, FinishAt, ConfirmAt
<1>3. \A c \in CPU : c = Primary \/ c \in Secondary
  BY DEF Secondary
<1>4. CASE UNCHANGED allVars
  <2>1. UNCHANGED <<x86, cores, pc, masked, board, firmware, done, startup, l2, ready, cpus>>
    BY <1>4 DEF allVars, vars, startupVars
  <2>2. done' \in [CPU -> Nat] /\ done'[Primary] >= done[Primary]
    BY <1>1, <1>2, <2>1 DEF StartupTypes
  <2>3. PrimaryInv' BY <1>1, <2>1, PrimaryFrame
  <2>4. Primary \notin Secondary BY DEF Secondary
  <2> QED BY <1>1, <1>2, <2>1, <2>2, <2>3, <2>4, BootStepKeeps
<1>5. ASSUME (~x86 /\ ARMPrimaryStep) \/ (x86 /\ X86PrimaryStep)
      PROVE  StartupInv'
  <2>1. /\ StartupTypes' /\ PrimaryInv'
        /\ done'[Primary] >= done[Primary]
        /\ \A c \in Secondary : done'[c] = done[c] /\ startup'[c] = startup[c]
        /\ UNCHANGED <<vars, board, firmware>>
    BY <1>1, <1>5, ARMPrimaryStepKeeps, X86PrimaryStepKeeps
  <2>2. UNCHANGED <<x86, cores, pc, masked>> BY <2>1 DEF vars
  <2>3. ASSUME NEW c \in Secondary PROVE SecondaryInv(c)'
    BY <1>1, <2>1, <2>2, SecondaryFrame
  <2> QED BY <2>1, <2>3 DEF StartupInv
<1>6. ASSUME NEW c \in Secondary, (~x86 /\ ARMSecondaryStep(c)) \/ (x86 /\ X86SecondaryStep(c))
      PROVE  StartupInv'
  <2>1. /\ StartupTypes' /\ SecondaryInv(c)'
        /\ \A d \in CPU \ {c} : done'[d] = done[d] /\ startup'[d] = startup[d]
        /\ UNCHANGED <<vars, board, firmware, l2, ready, cpus>>
    BY <1>1, <1>6, ARMSecondaryStepKeeps, X86SecondaryStepKeeps
  <2>2. UNCHANGED <<x86, cores, pc, masked>> BY <2>1 DEF vars
  <2>3. done'[Primary] = done[Primary] /\ startup'[Primary] = startup[Primary]
    BY <1>2, <2>1
  <2>4. PrimaryInv' BY <1>1, <2>1, <2>2, <2>3, PrimaryFrame
  <2>5. ASSUME NEW d \in Secondary, d # c PROVE SecondaryInv(d)'
    <3>1. done'[d] = done[d] /\ startup'[d] = startup[d] BY <1>2, <2>1, <2>5
    <3>2. done'[Primary] >= done[Primary]
      BY <1>1, <1>2, <2>3 DEF StartupTypes
    <3> QED BY <1>1, <2>1, <2>2, <3>1, <3>2, SecondaryFrame
  <2> QED BY <2>1, <2>4, <2>5 DEF StartupInv
(* The steps of Boot that are in the program of the primary core. *)
<1>7. ASSUME NEW step, BootStep(Primary, step),
             \/ step = "enter" /\ EnterPrimary
             \/ step = "startCores" /\ AllStarted
             \/ step = "finish" /\ FinishBoot
      PROVE  StartupInv'
  <2>1. /\ pc[Primary] # "off" /\ NextStep(Primary) = step
        /\ done' = [done EXCEPT ![Primary] = @ + 1]
        /\ UNCHANGED <<x86, cores, board, firmware, startup, l2, ready, cpus>>
    BY <1>7 DEF BootStep, At, Advance
  <2>2. /\ done' \in [CPU -> Nat]
        /\ done'[Primary] = done[Primary] + 1
        /\ \A d \in CPU \ {Primary} : done'[d] = done[d]
    BY <1>1, <1>2, <2>1 DEF StartupTypes
  <2> DEFINE label == IF step = "enter" THEN "start"
                     ELSE IF step = "startCores" THEN "init" ELSE "activate"
  <2>3. /\ pc' = [pc EXCEPT ![Primary] = label]
        /\ \A d \in CPU \ {Primary} : masked'[d] = masked[d]
        /\ masked[Primary] => masked'[Primary]
        /\ \/ step = "enter" /\ label = "start"
           \/ step = "startCores" /\ label = "init"
           \/ step = "finish" /\ label = "activate"
    <3>1. CASE step = "enter" /\ EnterPrimary
      <4>1. /\ \A d \in CPU \ {Primary} : masked'[d] = masked[d]
            /\ masked[Primary] => masked'[Primary]
        BY <1>2, <3>1 DEF EnterPrimary, disableInterrupts, TypeOK
      <4>2. label = "start" BY <3>1
      <4>3. pc' = [pc EXCEPT ![Primary] = "start"] BY <3>1 DEF EnterPrimary, Goto
      <4> HIDE DEF label
      <4> QED BY <3>1, <4>1, <4>2, <4>3
    <3>2. CASE step = "startCores" /\ AllStarted
      <4>1. label = "init" BY <3>2
      <4> HIDE DEF label
      <4> QED BY <3>2, <4>1 DEF AllStarted, Goto
    <3>3. CASE step = "finish" /\ FinishBoot
      <4>1. label = "activate" BY <3>3
      <4> HIDE DEF label
      <4> QED BY <3>3, <4>1 DEF FinishBoot, Goto
    <3> QED BY <1>7, <3>1, <3>2, <3>3
  <2>4. pc'[Primary] = label /\ \A d \in CPU \ {Primary} : pc'[d] = pc[d]
    BY <1>2, <2>3 DEF TypeOK
  <2> HIDE DEF label
  <2>5. \/ done[Primary] = EnterAt(Primary) /\ label = "start"
        \/ done[Primary] = StartAt /\ label = "init"
        \/ done[Primary] = FinishAt /\ label = "activate"
    BY <1>2, <2>1, <2>3, BootNext
  <2>6. masked[Primary]
    BY <1>1, <2>5 DEF PrimaryInv, PrimaryPlace, EnterAt, StartAt, FinishAt
  <2>7. done'[Primary] \in Nat BY <1>2, <2>2 DEF FinishAt
  <2>8. PrimaryInv'
    BY <1>1, <2>1, <2>2, <2>3, <2>4, <2>5, <2>6, <2>7, PrimaryMoves
    DEF EnterAt, StartAt, FinishAt
  <2>9. done'[Primary] >= done[Primary] BY <1>2, <2>2 DEF FinishAt
  <2>10. Primary \notin Secondary BY DEF Secondary
  <2> QED BY <1>1, <1>2, <2>1, <2>2, <2>3, <2>4, <2>8, <2>9, <2>10, BootStepKeeps
(* A core is started by the primary that has done all that it relies on. *)
<1>8. CASE StartStep
  <2>1. /\ pc[Primary] = "start" /\ NextStep(Primary) = "startCores"
        /\ UNCHANGED <<x86, cores, board, firmware, done, l2, ready, cpus, masked, core>>
        /\ core \in Started
    BY <1>8 DEF StartStep, StartCore, At
  <2>2. core \in Secondary /\ core \in CPU /\ core # Primary
    <3>1. core \in Secondary
      BY <2>1, BootAssumption DEF Started, TypeOK, Secondary, CPU, Primary
    <3> QED BY <3>1, Cores
  <2>3. pc[core] = "off" BY <2>1, <2>2 DEF StartInv
  <2>4. done[Primary] = StartAt BY <1>2, <2>1, BootNext
  <2>5. /\ done[core] = 0 /\ masked[core]
        /\ startup[core].stack = NoStack
        /\ "dcache" \in startup[core].unit => EarlyL1 /\ startup[core].stale = {}
        /\ x86 => "dcache" \notin startup[core].unit
    <3>1. SecondaryInv(core) BY <1>1, <2>2
    <3>2. done[core] = 0 BY <2>3, <3>1 DEF SecondaryInv, SecondaryPlace
    <3>3. masked[core]
      BY <3>1, <3>2 DEF SecondaryInv, SecondaryPlace, ConfirmAt
    <3>4. CASE x86
      BY <3>1, <3>2, <3>3, <3>4 DEF SecondaryInv, SecondaryHas, X86SecondaryUnits
    <3>5. CASE ~x86
      BY <3>1, <3>2, <3>3, <3>5 DEF SecondaryInv, SecondaryHas, SecondaryUnits
    <3> QED BY <3>4, <3>5
  <2>6. PICK s \in CoreState :
          /\ startup' = [startup EXCEPT ![core] = s]
          /\ s = StartedCore(startup[core]) /\ s.stack = NoStack
          /\ "dcache" \in s.unit => "dcache" \in startup[core].unit
          /\ s.stale = startup[core].stale
    <3> DEFINE r == startup[core]
    <3>0. /\ r \in CoreState
          /\ startup' = [startup EXCEPT ![core] = StartedCore(r)]
      BY <1>1, <1>8, <2>2 DEF StartStep, StartupTypes
    <3>2. CASE ~x86
      <4>1. StartedCore(r) \in {r, Switch(r, {"entry"})}
        BY <1>1, <3>2
        DEF StartupTypes, Boards, StartedCore, startup_core_imx6, startup_core_exynos4412,
            startup_core_omap4460
      <4>2. {"entry"} \in SUBSET Units BY DEF Units
      <4> HIDE DEF r
      <4>3. /\ Switch(r, {"entry"}) \in CoreState
            /\ Switch(r, {"entry"}).unit = r.unit \cup {"entry"}
            /\ Switch(r, {"entry"}).stale = r.stale
            /\ Switch(r, {"entry"}).stack = r.stack
        BY <3>0, <4>2, SwitchFields
      <4>4. /\ StartedCore(r) \in CoreState
            /\ "dcache" \in StartedCore(r).unit => "dcache" \in r.unit
            /\ StartedCore(r).stale = r.stale
            /\ StartedCore(r).stack = r.stack
        BY <3>0, <4>1, <4>3
      <4> QED BY <2>5, <3>0, <4>4 DEF r
    <3>3. CASE x86
      <4>1. StartedCore(r) = startRegisteredAP(r)
        BY <1>1, <3>3 DEF StartupTypes, StartedCore
      <4> HIDE DEF r
      <4>2. /\ startRegisteredAP(r) \in CoreState
            /\ startRegisteredAP(r).unit = {"entry"}
            /\ startRegisteredAP(r).stack = NoStack
            /\ startRegisteredAP(r).stale = r.stale
        BY <3>0, StartEffect
      <4> QED BY <3>0, <4>1, <4>2 DEF r
    <3> QED BY <3>2, <3>3
  <2>7. /\ startup'[core] = s
        /\ \A d \in CPU \ {core} : startup'[d] = startup[d]
        /\ startup' \in [CPU -> CoreState]
    BY <1>1, <2>2, <2>6 DEF StartupTypes
  <2>8. /\ pc'[Primary] = "await"
        /\ pc'[core] \in {"entry", "off"}
        /\ pc'[core] # "off" => "entry" \in s.unit
        /\ \A d \in CPU \ {Primary, core} : pc'[d] = pc[d]
    BY <1>2, <1>8, <2>2, <2>3, <2>6 DEF TypeOK, StartStep, StartCore
  <2>9. StartupTypes' BY <1>1, <2>1, <2>7 DEF StartupTypes
  <2>10. PrimaryInv'
    <3>1. startup'[Primary] = startup[Primary] BY <1>2, <2>2, <2>7
    <3>2. PrimaryPlace'
      BY <1>1, <2>1, <2>4, <2>8 DEF PrimaryInv, PrimaryPlace, EnterAt, StartAt, FinishAt
    <3>3. /\ PrimaryCaches => PrimaryCaches'
          /\ PrimaryUnits => PrimaryUnits'
          /\ PrimaryThings => PrimaryThings'
      BY <2>1, <3>1 DEF PrimaryCaches, PrimaryUnits, PrimaryThings, EarlyL1, EarlyPL310
    <3>4. X86PrimaryUnits => X86PrimaryUnits'
      BY <2>1, <3>1 DEF X86PrimaryUnits
    <3>5. X86PrimaryThings => X86PrimaryThings'
      <4>1. ExternalRSDPs(firmware)' = ExternalRSDPs(firmware)
        <5>1. firmware' = firmware BY <2>1
        <5> QED BY <5>1
      <4> QED BY <2>1, <4>1 DEF X86PrimaryThings
    <3> QED BY <1>1, <2>1, <3>2, <3>3, <3>4, <3>5 DEF PrimaryInv, PrimaryHas
  <2>11. SecondaryInv(core)'
    <3>1. core' = core BY <2>1
    <3>2. SecondaryPlace(core)'
      BY <2>1, <2>2, <2>4, <2>5, <2>8, <3>1
      DEF SecondaryPlace, EnterAt, StartAt, ConfirmAt, Started
    <3>3. CASE ~x86
      <4>1. SecondaryUnits(core)'
        BY <2>1, <2>5, <2>6, <2>7, <2>8, <3>1, <3>3 DEF SecondaryUnits, EarlyL1
      <4> QED BY <2>1, <3>1, <3>2, <3>3, <4>1 DEF SecondaryInv, SecondaryHas
    <3>4. CASE x86
      <4>1. X86SecondaryUnits(core)'
        BY <2>1, <2>5, <2>6, <2>7, <2>8, <3>1, <3>4 DEF X86SecondaryUnits
      <4> QED BY <2>1, <3>1, <3>2, <3>4, <4>1 DEF SecondaryInv, SecondaryHas
    <3> QED BY <3>3, <3>4
  <2>12. ASSUME NEW d \in Secondary, d # core PROVE SecondaryInv(d)'
    <3>1. startup'[d] = startup[d] /\ pc'[d] = pc[d] BY <1>2, <2>7, <2>8, <2>12
    <3>2. done'[Primary] >= done[Primary] BY <1>1, <1>2, <2>1 DEF StartupTypes
    <3> QED BY <1>1, <2>1, <2>9, <3>1, <3>2, SecondaryFrame
  <2> QED BY <2>1, <2>9, <2>10, <2>11, <2>12 DEF StartupInv
<1>9. CASE AwaitStep
  <2>1. /\ NextStep(Primary) = "startCores"
        /\ pc' = [pc EXCEPT ![Primary] = "start"]
        /\ UNCHANGED <<x86, cores, board, firmware, done, startup, l2, ready, cpus, masked>>
    BY <1>9 DEF AwaitStep, AwaitCore, Goto, At, startupVars
  <2>2. done[Primary] = StartAt BY <1>2, <2>1, BootNext
  <2>3. pc'[Primary] = "start" /\ \A d \in CPU \ {Primary} : pc'[d] = pc[d]
    BY <1>2, <2>1 DEF TypeOK
  <2>4. masked[Primary]
    BY <1>1, <2>2 DEF PrimaryInv, PrimaryPlace, StartAt, FinishAt
  <2>5. /\ done' \in [CPU -> Nat] /\ done'[Primary] >= done[Primary]
        /\ done'[Primary] \in Nat
    BY <1>1, <1>2, <2>1 DEF StartupTypes
  <2>6. PrimaryInv'
    BY <1>1, <2>1, <2>2, <2>3, <2>4, <2>5, PrimaryMoves DEF EnterAt, StartAt, FinishAt
  <2>7. Primary \notin Secondary BY DEF Secondary
  <2> QED BY <1>1, <1>2, <2>1, <2>3, <2>5, <2>6, <2>7, BootStepKeeps
(* The steps of Boot that are in the program of a secondary core. *)
<1>10. ASSUME NEW c \in Secondary, NEW step, BootStep(c, step),
              \/ step = "enter" /\ EnterSecondary(c)
              \/ step = "confirm" /\ ConfirmStartup(c)
       PROVE  StartupInv'
  <2>1. /\ pc[c] # "off" /\ NextStep(c) = step
        /\ done' = [done EXCEPT ![c] = @ + 1]
        /\ UNCHANGED <<x86, cores, board, firmware, startup, l2, ready, cpus>>
    BY <1>10 DEF BootStep, At, Advance
  <2>2. /\ done' \in [CPU -> Nat]
        /\ done'[c] = done[c] + 1
        /\ \A d \in CPU \ {c} : done'[d] = done[d]
    BY <1>1, <1>2, <2>1 DEF StartupTypes
  <2> DEFINE label == IF step = "enter" THEN "setup" ELSE IF x86 THEN "confirm" ELSE "hold"
  <2>3. /\ pc' = [pc EXCEPT ![c] = label]
        /\ \A d \in CPU \ {c} : masked'[d] = masked[d]
        /\ masked[c] => masked'[c]
        /\ \/ step = "enter" /\ label = "setup"
           \/ step = "confirm" /\ label \in {"confirm", "hold"}
    <3>1. CASE step = "enter" /\ EnterSecondary(c)
      <4>1. /\ \A d \in CPU \ {c} : masked'[d] = masked[d]
            /\ masked[c] => masked'[c]
        BY <1>2, <3>1 DEF EnterSecondary, disableInterrupts, TypeOK
      <4>2. label = "setup" BY <3>1
      <4>3. pc' = [pc EXCEPT ![c] = "setup"] BY <3>1 DEF EnterSecondary, Goto
      <4> HIDE DEF label
      <4> QED BY <3>1, <4>1, <4>2, <4>3
    <3>2. CASE step = "confirm" /\ ConfirmStartup(c)
      <4>1. label = IF x86 THEN "confirm" ELSE "hold" BY <3>2
      <4> HIDE DEF label
      <4>2. pc' = [pc EXCEPT ![c] = label] /\ masked' = masked
        BY <3>2, <4>1 DEF ConfirmStartup, Goto
      <4> QED BY <3>2, <4>1, <4>2
    <3> QED BY <1>10, <3>1, <3>2
  <2>4. pc'[c] = label /\ \A d \in CPU \ {c} : pc'[d] = pc[d]
    BY <1>2, <2>3 DEF TypeOK
  <2> HIDE DEF label
  <2>5. \/ done[c] = EnterAt(c) /\ label = "setup"
        \/ done[c] = ConfirmAt /\ label \in {"confirm", "hold"}
    BY <1>2, <2>1, <2>3, BootNext
  <2>6. masked[c]
    BY <1>1, <1>2, <2>5 DEF SecondaryInv, SecondaryPlace, EnterAt, ConfirmAt
  <2>7. done'[Primary] = done[Primary] BY <1>2, <2>2
  <2>8. SecondaryInv(c)'
    BY <1>1, <1>2, <2>1, <2>2, <2>3, <2>4, <2>5, <2>6, <2>7, SecondaryMoves
    DEF EnterAt, ConfirmAt
  <2>9. done'[c] >= done[c] BY <1>2, <2>2 DEF ConfirmAt
  <2> QED BY <1>1, <1>2, <2>1, <2>2, <2>3, <2>4, <2>8, <2>9, BootStepKeeps
(* After its program a core only moves. *)
<1>11. ASSUME NEW c \in CPU, NEW label, label # "off", pc' = [pc EXCEPT ![c] = label],
              pc[c] \notin {"off", "entry", "start", "await", "init", "setup"},
              \A d \in CPU \ {c} : masked'[d] = masked[d], UNCHANGED <<x86, cores, startupVars>>
       PROVE  StartupInv'
  <2>1. pc'[c] = label /\ \A d \in CPU \ {c} : pc'[d] = pc[d]
    BY <1>11 DEF TypeOK
  <2>2. UNCHANGED <<x86, cores, board, firmware, done, startup, l2, ready, cpus>>
    BY <1>11 DEF startupVars
  <2>3. CASE c = Primary
    <3>1. done[Primary] = FinishAt + 1
      BY <1>1, <1>2, <1>11, <2>3 DEF PrimaryInv, PrimaryPlace, EnterAt, StartAt, FinishAt
    <3>2. PrimaryInv'
      BY <1>1, <2>1, <2>2, <2>3, <3>1, PrimaryMoves DEF EnterAt, StartAt, FinishAt
    <3>3. done' \in [CPU -> Nat] /\ done'[c] >= done[c] /\ c \notin Secondary
      BY <1>1, <1>2, <2>2, <2>3 DEF StartupTypes
    <3> QED BY <1>1, <1>11, <2>1, <2>2, <3>2, <3>3, BootStepKeeps
  <2>4. CASE c \in Secondary
    <3>1. done[c] = ConfirmAt + 1
      BY <1>1, <1>2, <1>11, <2>4 DEF SecondaryInv, SecondaryPlace, EnterAt, ConfirmAt
    <3>2. SecondaryInv(c)'
      BY <1>1, <1>2, <1>11, <2>1, <2>2, <2>4, <3>1, SecondaryMoves DEF ConfirmAt
    <3>3. done' \in [CPU -> Nat] /\ done'[c] >= done[c] /\ c # Primary
      BY <1>1, <1>2, <2>2, <2>4 DEF StartupTypes
    <3> QED BY <1>1, <1>11, <2>1, <2>2, <3>2, <3>3, BootStepKeeps
  <2> QED BY <1>3, <2>3, <2>4
<1>12. ASSUME NEW c \in Secondary,
              WriteHoldingPen(c) \/ LeaveHoldingPen(c) \/ EnterSleep(c) \/ WakeUp(c),
              UNCHANGED <<x86, cores, startupVars>>
       PROVE  StartupInv'
  <2>1. CASE WriteHoldingPen(c)
    BY <1>2, <1>11, <1>12, <2>1 DEF WriteHoldingPen, Goto
  <2>2. CASE LeaveHoldingPen(c)
    <3>1. \A d \in CPU \ {c} : masked'[d] = masked[d]
      BY <2>2 DEF LeaveHoldingPen, enableInterrupts, TypeOK
    <3> QED BY <1>2, <1>11, <1>12, <2>2, <3>1 DEF LeaveHoldingPen, Goto
  <2>3. CASE EnterSleep(c)
    BY <1>2, <1>11, <1>12, <2>3 DEF EnterSleep, Goto
  <2>4. CASE WakeUp(c)
    BY <1>2, <1>11, <1>12, <2>4 DEF WakeUp, Goto
  <2> QED BY <1>12, <2>1, <2>2, <2>3, <2>4
<1>13. ASSUME NEW c \in CPU, LoopStep(c) PROVE StartupInv'
  <2>1. UNCHANGED <<x86, cores, startupVars>> BY <1>13 DEF LoopStep, Loop
  <2>2. \A d \in CPU \ {c} : masked'[d] = masked[d]
    BY <1>13
    DEF LoopStep, Loop, ActivateDispatching, Dispatching, StartLoop, NoTask, RunTask,
        FinishTask, enableInterrupts, disableInterrupts, TypeOK
  <2>3. \E label \in {"dispatching", "waiting", "getEvent", "task", "activate"} :
          pc' = [pc EXCEPT ![c] = label]
    BY <1>13
    DEF LoopStep, Loop, ActivateDispatching, Dispatching, StartLoop, NoTask, RunTask,
        FinishTask, Goto
  <2>4. pc[c] \in {"dispatching", "waiting", "getEvent", "task", "activate"}
    BY <1>13
    DEF LoopStep, Loop, ActivateDispatching, Dispatching, StartLoop, NoTask, RunTask,
        FinishTask
  <2>5. PICK label : /\ label \in {"dispatching", "waiting", "getEvent", "task", "activate"}
                     /\ pc' = [pc EXCEPT ![c] = label]
    BY <2>3
  <2>6. label # "off" BY <2>5
  <2> QED BY <1>11, <2>1, <2>2, <2>4, <2>5, <2>6
<1>14. CASE StartPrimary
  <2>1. CASE BootStep(Primary, "enter") /\ EnterPrimary BY <1>7, <2>1
  <2>2. CASE BootStep(Primary, "startCores") /\ AllStarted BY <1>7, <2>2
  <2>3. CASE BootStep(Primary, "finish") /\ FinishBoot BY <1>7, <2>3
  <2> QED BY <1>5, <1>8, <1>9, <1>14, <2>1, <2>2, <2>3 DEF StartPrimary
<1>15. ASSUME NEW c \in Secondary, StartSecondary(c) PROVE StartupInv'
  <2>1. CASE BootStep(c, "enter") /\ EnterSecondary(c) BY <1>10, <2>1
  <2>2. CASE BootStep(c, "confirm") /\ ConfirmStartup(c) BY <1>10, <2>2
  <2>3. CASE /\ WriteHoldingPen(c) \/ LeaveHoldingPen(c) \/ EnterSleep(c) \/ WakeUp(c)
             /\ UNCHANGED <<x86, cores, startupVars>>
    BY <1>12, <2>3
  <2> QED BY <1>6, <1>15, <2>1, <2>2, <2>3 DEF StartSecondary
<1> QED BY <1>4, <1>13, <1>14, <1>15 DEF StartupNext

(* On both architectures, whatever the boot ROM leaves on, whatever tables *)
(* the firmware has and however many cores, caches and lines there are, a  *)
(* core has what its next step relies on, runs no cache with lines from    *)
(* before its reset, shares its stack with no other core and takes no      *)
(* interrupt before its vectors and its controller are set up.             *)
THEOREM StartupPrepared == StartupSpec => []StartsPrepared
<1>1. StartupInit => StartupInv
  <2> SUFFICES ASSUME StartupInit PROVE StartupInv
    OBVIOUS
  <2>1. /\ board \in IF x86 THEN {"x86"} ELSE Boards \ {"x86"}
        /\ x86 => firmware \in Firmware
        /\ ready = {} /\ cpus = <<>>
    BY DEF StartupInit
  <2>2. \A c \in CPU : done[c] = 0 /\ startup[c] = ResetCore(c)
    BY DEF StartupInit
  <2>3. ASSUME NEW c \in CPU
        PROVE  /\ ResetCore(c) \in CoreState
               /\ ResetCore(c).stack = NoStack
               /\ "dcache" \in ResetCore(c).unit => EarlyL1 /\ ResetCore(c).stale = {}
               /\ ~EarlyL1 => ResetCore(c).dirty = {}
    BY DEF ResetCore, CoreState, Units, NoStack
  <2>4. /\ l2 \in [on : BOOLEAN, stale : BOOLEAN, dirty : BOOLEAN]
        /\ l2.on => ~l2.stale /\ EarlyPL310
        /\ l2.dirty => EarlyPL310
    <3>1. EarlyPL310 \in BOOLEAN BY DEF EarlyPL310
    <3> QED BY <3>1 DEF StartupInit
  <2>5. x86 => ~EarlyL1 /\ ~EarlyPL310
    BY <2>1 DEF EarlyL1, EarlyPL310
  <2>6. StartupTypes
    <3>1. done \in [CPU -> Nat] BY DEF StartupInit
    <3>2. startup \in [CPU -> CoreState] BY <2>3 DEF StartupInit
    <3> QED BY <2>1, <2>4, <3>1, <3>2 DEF StartupTypes
  <2>7. /\ pc[Primary] = "entry" /\ \A c \in Secondary : pc[c] = "off"
        /\ \A c \in CPU : masked[c]
    BY Cores DEF StartupInit, Init
  <2>8. PrimaryInv
    <3>1. PrimaryPlace
      BY <2>2, <2>7, Cores DEF PrimaryPlace, EnterAt, StartAt, FinishAt
    <3>2. CASE ~x86
      <4>1. PrimaryCaches /\ PrimaryUnits /\ PrimaryThings
        BY <2>2, <2>3, <2>4, Cores DEF PrimaryCaches, PrimaryUnits, PrimaryThings
      <4> QED BY <3>1, <3>2, <4>1 DEF PrimaryInv, PrimaryHas
    <3>3. CASE x86
      <4>1. X86PrimaryUnits
        BY <2>2, <2>3, <2>4, <2>5, <3>3, Cores DEF X86PrimaryUnits
      <4>2. X86PrimaryThings
        BY <2>1, <2>2, Cores DEF X86PrimaryThings
      <4> QED BY <3>1, <3>3, <4>1, <4>2 DEF PrimaryInv, PrimaryHas
    <3> QED BY <3>2, <3>3
  <2>9. ASSUME NEW c \in Secondary PROVE SecondaryInv(c)
    <3>1. SecondaryPlace(c)
      BY <2>2, <2>7, Cores DEF SecondaryPlace, EnterAt, ConfirmAt
    <3>2. ~x86 => SecondaryUnits(c)
      BY <2>2, <2>3, <2>7, Cores DEF SecondaryUnits
    <3>3. x86 => X86SecondaryUnits(c)
      BY <2>2, <2>3, <2>5, <2>7, Cores DEF X86SecondaryUnits
    <3> QED BY <3>1, <3>2, <3>3 DEF SecondaryInv, SecondaryHas
  <2> QED BY <2>6, <2>8, <2>9 DEF StartupInv
<1>2. TypeOK /\ StartInv /\ StartupInv /\ [StartupNext]_allVars => StartupInv'
  BY StartupInductive
<1>3. StartInv /\ StartupInv => StartsPrepared
  BY InvPrepares
<1> QED BY <1>1, <1>2, <1>3, StartupImplementsBoot, StartHolds, PTL DEF StartupSpec
=============================================================================
