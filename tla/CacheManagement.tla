--------------------------- MODULE CacheManagement ---------------------------
(***************************************************************************)
(* The cache management: before a core runs a task it loads the components *)
(* of the task into cache ways that nobody uses, and afterwards it evicts  *)
(* them.  A way is a color of pages into which the pages of a component    *)
(* are moved (CacheColoring), or a way of the hardware that is opened for  *)
(* allocation while a component is loaded: for all cores by the lockdown   *)
(* registers of the PL310, or for one core by the masks of Intel CAT.      *)
(***************************************************************************)
EXTENDS PageTable, SequencesExt, FiniteSetsExt

CONSTANTS
    Component, Start, End,  \* a component's pages are Start[o] .. End[o] - 1
    Tasks,                  \* sequences of components
    CriticalStart, CriticalEnd,
    ColorsStart,
    CacheWayCount, PagesPerColor, HWWays,
    SharedBits, CATBits,    \* of the CAT's masks
    LruMax,                 \* LRU_MAX_VALUE
    Reached,                \* components that cores look at outside of the jobs
    Variants                \* the implementations, with or without
                            \*   CONFIG_CACHE_CONTROL_EVICT_AFTER_USE

Way == 0 .. CacheWayCount - 1
WayPages == PagesPerColor * HWWays

Owned(o) == Start[o] .. End[o] - 1

(* The first pages of what goes to one way each. *)
Parts(o) == {p \in Owned(o) : (p - Start[o]) % WayPages = 0}
PartEnd(p, end) == Min({p + WayPages, end})

ASSUME CacheAssumption ==
    /\ CacheWayCount \in Nat \ {0} /\ LruMax \in Nat
    /\ PagesPerColor \in Nat \ {0} /\ HWWays \in Nat \ {0}
    /\ Start \in [Component -> Nat] /\ End \in [Component -> Nat]
    /\ \A o \in Component : Owned(o) # {} /\ Owned(o) \subseteq Page \ Core
    /\ \A o, q \in Component : o # q => Owned(o) \cap Owned(q) = {}
    /\ Tasks \subseteq Seq(Component) \ {<<>>}
    /\ \A t \in Tasks : IsInjective(t)  \* no trigger names a component twice
    /\ Reached \subseteq Component
    /\ \A v \in Variants : v.backend \in {"coloring", "lockdown", "cat"}
                           /\ v.evictAfterUse \in BOOLEAN

VARIABLES
    variant,
    mCacheWays,
    mLock, hwLock,   \* the lock of mCacheWays; pPL310Lock or mCATLock
    lockdown,        \* the ways in which the PL310 does not allocate
    regVal,          \* what a core has read of that register
    mask,            \* the mask of a core's class of service
    content,         \* the part that a way of the hardware holds
    stray,           \* the parts that may have a line in another way than theirs
    active, at,      \* a core's task, and the component of it that is dealt with
    pc, job, step,   \* what the core does for it
    oscStart, page,  \* the part and the page it is at
    way, skipPreload

wayVars == <<variant, mCacheWays, mLock>>
hwVars == <<hwLock, lockdown, regVal, mask, content, stray, step>>
taskVars == <<active, at, oscStart, skipPreload>>
vars == <<pageVars, wayVars, hwVars, taskVars, pc, job, page, way>>

(* createWayMapping: of the bits that are not shared, the first are the    *)
(* cores' standby masks, and the others are the ways.                      *)
ExclusiveBits == SetToSortSeq(0 .. CATBits - 1 \ SharedBits, <)

ASSUME BitsAssumption ==
    \A i, j \in 1 .. Cores + CacheWayCount : ExclusiveBits[i] = ExclusiveBits[j] => i = j

StandbyMask(c) == {ExclusiveBits[c + 1]}
WayMask(w) == {ExclusiveBits[Cores + w + 1]}

(* Each core has a class of service of its own.  "Set processor core to    *)
(* standby mask": a mask without a bit is not allowed.                     *)
setMask(masks, c, bits) == [masks EXCEPT ![c] = bits]
enableWayExclusive(masks, c, w) == setMask(masks, c, WayMask(w))
disableAllWays(masks, c) == setMask(masks, c, StandbyMask(c))
enableProcessorCAT(masks, c) == disableAllWays(masks, c)

Backend == variant.backend
Coloring == Backend = "coloring"

Init ==
    /\ PageInit
    /\ variant \in Variants
    /\ mCacheWays = [w \in Way |-> [permanentLocked |-> FALSE, dataStart |-> 0,
                       dataEnd |-> 0, osc |-> Nil, lruCount |-> 0, inUse |-> FALSE]]
    /\ mLock = Nil /\ hwLock = Nil
    /\ lockdown = {} /\ regVal = [c \in Core |-> {}]
    /\ mask = [c \in Core |-> 0 .. CATBits - 1]
    /\ content = [w \in Way |-> Nil] /\ stray = {}
    /\ active = [c \in Core |-> <<>>] /\ at = [c \in Core |-> 1]
    /\ pc = [c \in Core |-> IF c = 0 THEN "boot" ELSE "off"]
    /\ job = [c \in Core |-> Nil] /\ step = [c \in Core |-> Nil]
    /\ oscStart = [c \in Core |-> 0] /\ page = [c \in Core |-> 0]
    /\ way = [c \in Core |-> 0] /\ skipPreload = [c \in Core |-> FALSE]

Goto(c, l) == pc' = [pc EXCEPT ![c] = l]

StartJob(c, kind, w, start) ==
    /\ job' = [job EXCEPT ![c] = kind]
    /\ way' = [way EXCEPT ![c] = w]
    /\ page' = [page EXCEPT ![c] = start]
    /\ Goto(c, "job")
----------------------------------------------------------------------------
(* The boot of the first core: the components are cacheable where they are *)
(* unless the ARM core is going to color them, the PL310 allocates nowhere *)
(* and CAT only in the standby mask.                                       *)
InitPrimary ==
    /\ pc[0] = "boot"
    /\ \E cacheable \in BOOLEAN :
          /\ ~Coloring => cacheable
          /\ SetRangeCacheable((CriticalStart .. CriticalEnd - 1)
                                  \cup UNION {Owned(o) : o \in Component}, cacheable)
    /\ FlushTLB(0)
    /\ lockdown' = IF Backend = "lockdown" THEN Way ELSE {}
    /\ mask' = enableProcessorCAT(mask, 0)
    /\ oscStart' = [oscStart EXCEPT ![0] = CriticalStart]
    /\ Goto(0, "critical")
    /\ UNCHANGED <<directory, memory, moving, wayVars, hwLock, regVal, content,
                   stray, step, active, at, skipPreload, job, page, way>>

(* preloadCriticalData, then the other cores may start. *)
PreloadCriticalData ==
    /\ pc[0] = "critical" /\ oscStart[0] < CriticalEnd
    /\ StartJob(0, "critical", way[0], oscStart[0])
    /\ UNCHANGED <<pageVars, wayVars, hwVars, taskVars>>

StartSecondaries ==
    /\ pc[0] = "critical" /\ oscStart[0] = CriticalEnd
    /\ pc' = [c \in Core |-> IF c = 0 THEN "idle" ELSE "start"]
    /\ oscStart' = [oscStart EXCEPT ![0] = 0] /\ way' = [way EXCEPT ![0] = 0]
    /\ UNCHANGED <<pageVars, wayVars, hwVars, active, at, skipPreload, job, page>>

InitSecondary(c) ==
    /\ pc[c] = "start"
    /\ FlushTLB(c)
    /\ mask' = enableProcessorCAT(mask, c)
    /\ Goto(c, "idle")
    /\ UNCHANGED <<directory, pte, memory, moving, wayVars, hwLock, lockdown, regVal,
                   content, stray, step, taskVars, job, page, way>>
----------------------------------------------------------------------------
(* A task that got its locks: none of its components is another core's.    *)
NextTask(c, t) ==
    /\ pc[c] = "idle"
    /\ \A d \in Core : ToSet(active[d]) \cap ToSet(t) = {}
    /\ active' = [active EXCEPT ![c] = t] /\ at' = [at EXCEPT ![c] = 1]
    /\ Goto(c, "preload")
    /\ UNCHANGED <<pageVars, wayVars, hwVars, oscStart, skipPreload, job, page, way>>

Osc(c) == active[c][at[c]]

(* preloadSingleOSC for the destination and each dependency.  The coloring *)
(* flushes the translations of the component's pages first.                *)
PreloadSingleOSC(c) ==
    /\ pc[c] = "preload"
    /\ IF Coloring /\ ~variant.evictAfterUse
       THEN FlushTLBWithAddress(c, Owned(Osc(c))) ELSE UNCHANGED tlb
    /\ oscStart' = [oscStart EXCEPT ![c] = Start[Osc(c)]]
    /\ skipPreload' = [skipPreload EXCEPT ![c] = FALSE]
    /\ Goto(c, "getway")
    /\ UNCHANGED <<directory, pte, memory, moving, wayVars, hwVars, active, at,
                   job, page, way>>

(* getLRUWay, under mLock: the way that still has the part's label ...     *)
Labelled(p) == {w \in Way : mCacheWays[w].dataStart = p}

Found(c, w) ==
    /\ pc[c] = "getway" /\ mLock = Nil
    /\ Labelled(oscStart[c]) # {} /\ w = Min(Labelled(oscStart[c]))
    /\ mCacheWays' = [mCacheWays EXCEPT ![w].lruCount = 0, ![w].inUse = TRUE]
    /\ way' = [way EXCEPT ![c] = w]
    /\ Goto(c, "check")
    /\ UNCHANGED <<pageVars, variant, mLock, hwVars, taskVars, job, page>>

(* Faulty variants, to check the properties. *)
UnlockedWay(w) == ~mCacheWays[w].permanentLocked

WaysOfStart(o) == {w \in Way : mCacheWays[w].dataStart = Start[o]
                               /\ mCacheWays[w].osc = o}
WaysOfOthers(o) == {w \in Way : mCacheWays[w].dataStart \in Owned(o)
                                /\ mCacheWays[w].osc # o}

(* ... or a free way, or the way that was not used for longest.  The       *)
(* search, which stops at a free way, ages the ways that it has looked at. *)
Unused(w) == ~mCacheWays[w].permanentLocked /\ ~mCacheWays[w].inUse
Eligible == {w \in Way : Unused(w)}
Free == {w \in Eligible : mCacheWays[w].dataStart = 0}
Scanned == {w \in Eligible \ Free : \A f \in Free : w < f}
Aged == [w \in Way |-> IF w \in Scanned /\ mCacheWays[w].lruCount # LruMax
                       THEN [mCacheWays[w] EXCEPT !.lruCount = @ + 1]
                       ELSE mCacheWays[w]]
Oldest == {w \in Scanned : \A x \in Scanned :
              mCacheWays[x].lruCount <= mCacheWays[w].lruCount}

Taken(r) == [r EXCEPT !.lruCount = 0, !.dataStart = 0, !.inUse = TRUE]

FreeWay(c, w) ==
    /\ pc[c] = "getway" /\ mLock = Nil /\ Labelled(oscStart[c]) = {}
    /\ Free # {} /\ w = Min(Free)
    /\ mCacheWays' = [Aged EXCEPT ![w] = Taken(@)]
    /\ way' = [way EXCEPT ![c] = w]
    /\ Goto(c, "check")
    /\ UNCHANGED <<pageVars, variant, mLock, hwVars, taskVars, job, page>>

Victim(c, w) ==
    /\ pc[c] = "getway" /\ mLock = Nil /\ Labelled(oscStart[c]) = {}
    /\ Free = {} /\ Scanned # {} /\ w = Max(Oldest)
    /\ mLock' = c
    /\ mCacheWays' = Aged
    /\ StartJob(c, "victim", w, mCacheWays[w].dataStart)
    /\ UNCHANGED <<pageVars, variant, hwVars, taskVars>>

(* "LRU did not find a free cache way, aborting execution!" *)
Abort(c) ==
    /\ pc[c] = "getway" /\ mLock = Nil /\ Labelled(oscStart[c]) = {}
    /\ Eligible = {}
    /\ Goto(c, "hung")
    /\ UNCHANGED <<pageVars, wayVars, hwVars, taskVars, job, page, way>>

GetLRUWay(c, w) == Found(c, w) \/ FreeWay(c, w) \/ Victim(c, w)

(* Once a part is found the rest of the component is not loaded either.    *)
LoadPart(c) ==
    LET skip == skipPreload[c] \/ mCacheWays[way[c]].dataStart = oscStart[c]
    IN  /\ pc[c] = "check"
        /\ skipPreload' = [skipPreload EXCEPT ![c] = skip]
        /\ IF skip
           THEN Goto(c, "label") /\ UNCHANGED <<job, way, page>>
           ELSE StartJob(c, "load", way[c], oscStart[c])
        /\ UNCHANGED <<pageVars, wayVars, hwVars, active, at, oscStart>>

(* The labels are written without the lock, one after the other. *)
LabelData(c) ==
    /\ pc[c] = "label"
    /\ mCacheWays' = [mCacheWays EXCEPT
          ![way[c]].dataStart = oscStart[c],
          ![way[c]].dataEnd = PartEnd(oscStart[c], End[Osc(c)])]
    /\ Goto(c, "owner")
    /\ UNCHANGED <<pageVars, variant, mLock, hwVars, taskVars, job, page, way>>

LabelOwner(c) ==
    LET next == PartEnd(oscStart[c], End[Osc(c)])
        last == next = End[Osc(c)]
        done == last /\ at[c] = Len(active[c])
    IN  /\ pc[c] = "owner"
        /\ mCacheWays' = [mCacheWays EXCEPT ![way[c]].osc = Osc(c)]
        /\ oscStart' = [oscStart EXCEPT ![c] = next]
        /\ at' = [at EXCEPT ![c] = IF last /\ ~done THEN @ + 1 ELSE @]
        /\ Goto(c, IF done THEN "run" ELSE IF last THEN "preload" ELSE "getway")
        /\ UNCHANGED <<pageVars, variant, mLock, hwVars, active, skipPreload,
                       job, page, way>>

(* The trigger runs on the pages of the task's components. *)
Run(c, v) ==
    /\ pc[c] = "run" /\ Coloring
    /\ v \in UNION {Owned(o) : o \in ToSet(active[c])}
    /\ Access(c, v)
    /\ UNCHANGED <<wayVars, hwVars, taskVars, pc, job, page, way>>
----------------------------------------------------------------------------
(* evictOSC when the trigger has returned. *)
FinishTask(c) ==
    /\ pc[c] = "run"
    /\ at' = [at EXCEPT ![c] = 1] /\ way' = [way EXCEPT ![c] = 0]
    /\ Goto(c, "evict")
    /\ UNCHANGED <<pageVars, wayVars, hwVars, active, oscStart, skipPreload, job, page>>

(* lookupAndEvictOSC: the ways with a label of the component, one by one   *)
(* and without the lock, ...                                               *)
WaysOf(o) == {w \in Way : mCacheWays[w].dataStart \in Owned(o)
                          /\ mCacheWays[w].osc = o}

LookupOSC(c) ==
    LET rest == {w \in WaysOf(Osc(c)) : w >= way[c]}
    IN  /\ pc[c] = "evict"
        /\ IF rest = {}
           THEN Goto(c, "free") /\ UNCHANGED <<job, way, page>>
           ELSE StartJob(c, "evict", Min(rest), mCacheWays[Min(rest)].dataStart)
        /\ UNCHANGED <<pageVars, wayVars, hwVars, taskVars>>

(* ... then all of them under the lock, for the next user. *)
FreeWays(c) ==
    LET done == at[c] = Len(active[c])
        freed(r) == [r EXCEPT !.inUse = FALSE, !.lruCount = 0,
                       !.dataStart = IF variant.evictAfterUse THEN 0 ELSE @,
                       !.osc = IF variant.evictAfterUse THEN Nil ELSE @]
    IN  /\ pc[c] = "free" /\ mLock = Nil
        /\ mCacheWays' = [w \in Way |-> IF w \in WaysOf(Osc(c))
                             THEN freed(mCacheWays[w]) ELSE mCacheWays[w]]
        /\ active' = [active EXCEPT ![c] = IF done THEN <<>> ELSE @]
        /\ at' = [at EXCEPT ![c] = IF done THEN 1 ELSE @ + 1]
        /\ way' = [way EXCEPT ![c] = 0]
        /\ Goto(c, IF done THEN "idle" ELSE "evict")
        /\ UNCHANGED <<pageVars, variant, mLock, hwVars, oscStart, skipPreload,
                       job, page>>
----------------------------------------------------------------------------
(* The jobs: prefetchDataToWay for "load" and "critical", evictCacheWay    *)
(* for "victim" and "evict".                                               *)
Prefetches(c) == job[c] \in {"load", "critical"}

JobStart(c) == IF Prefetches(c) THEN oscStart[c] ELSE mCacheWays[way[c]].dataStart

JobEnd(c) ==
    CASE job[c] = "load" -> PartEnd(oscStart[c], End[Osc(c)])
      [] job[c] = "critical" -> PartEnd(oscStart[c], CriticalEnd)
      [] OTHER -> mCacheWays[way[c]].dataEnd

Working(c) == pc[c] = "job" /\ page[c] < JobEnd(c)

(* What one of them ends with. *)
EndJob(c) ==
    /\ pc[c] = "job" /\ page[c] >= JobEnd(c) /\ step[c] = Nil /\ moving[c] = Nil
    /\ job' = [job EXCEPT ![c] = Nil]
    /\ page' = [page EXCEPT ![c] = 0]
    /\ CASE job[c] = "load" ->
              Goto(c, "label") /\ UNCHANGED <<mCacheWays, mLock, way, oscStart>>
         [] job[c] = "critical" ->
              /\ mCacheWays' = [mCacheWays EXCEPT ![way[c]].permanentLocked = TRUE]
              /\ way' = [way EXCEPT ![c] = @ + 1]
              /\ oscStart' = [oscStart EXCEPT ![c] = JobEnd(c)]
              /\ Goto(c, "critical") /\ UNCHANGED mLock
         [] job[c] = "victim" ->
              /\ mCacheWays' = [mCacheWays EXCEPT ![way[c]] = Taken(@)]
              /\ mLock' = Nil
              /\ Goto(c, "check") /\ UNCHANGED <<way, oscStart>>
         [] job[c] = "evict" ->
              /\ way' = [way EXCEPT ![c] = @ + 1]
              /\ Goto(c, "evict") /\ UNCHANGED <<mCacheWays, mLock, oscStart>>
    /\ UNCHANGED <<pageVars, variant, hwVars, active, at, skipPreload>>

(* Coloring: the page goes to its place among the colors, or home.  After  *)
(* the pages of a color the code goes on in the next space of the color.   *)
ColorOffset(k) ==
    LET offset[i \in 0 .. k] ==
            IF i = 0 THEN 0
            ELSE offset[i - 1] + (IF i % PagesPerColor = 0
                                  THEN PagesPerColor * CacheWayCount ELSE 1)
    IN  offset[k]

ColorPage(w, k) == ColorsStart + w * PagesPerColor + ColorOffset(k)

(* The linker places the colors behind everything else, and the critical   *)
(* data, for which nobody looks whether there are ways left, has enough.   *)
ASSUME ColorAssumption ==
    /\ ColorsStart \in Nat /\ Cores <= ColorsStart
    /\ \A w \in Way, k \in 0 .. WayPages - 1 : ColorPage(w, k) \in Page
    /\ \A o \in Component : End[o] <= ColorsStart
    /\ CriticalStart \in Nat
    /\ CriticalEnd \in CriticalStart .. CriticalStart + CacheWayCount * WayPages
    /\ CriticalStart .. CriticalEnd - 1 \subseteq 0 .. ColorsStart - 1
    /\ \A o \in Component : Owned(o) \cap (CriticalStart .. CriticalEnd - 1) = {}

MovePage(c) ==
    /\ Coloring /\ Working(c)
    /\ IF Prefetches(c)
       THEN BeginMove(c, page[c], ColorPage(way[c], page[c] - oscStart[c]), TRUE)
       ELSE BeginMove(c, page[c], page[c], FALSE)
    /\ UNCHANGED <<wayVars, hwVars, taskVars, pc, job, page, way>>

Copy(c) ==
    /\ CopyPage(c)
    /\ UNCHANGED <<wayVars, hwVars, taskVars, pc, job, page, way>>

NextPage(c) ==
    /\ EndMove(c)
    /\ page' = [page EXCEPT ![c] = @ + 1]
    /\ UNCHANGED <<wayVars, hwVars, taskVars, pc, job, way>>

(* PL310: under pPL310Lock the way is opened by a read and a write of the  *)
(* lockdown registers of all masters, filled, and closed again; or cleaned *)
(* and invalidated.                                                        *)
Step(c, s) == step' = [step EXCEPT ![c] = s]

ASSUME StepAssumption == Nil \notin {"open", "fill", "close", "shut"}

HwUnlocked == TRUE  \* a faulty variant, to check the properties

HwFree == hwLock = Nil

OpenWay(c) ==
    /\ Backend = "lockdown"
    /\ \/ /\ Working(c) /\ Prefetches(c) /\ step[c] = Nil /\ HwFree
          /\ hwLock' = c
          /\ regVal' = [regVal EXCEPT ![c] = lockdown]
          /\ Step(c, "open") /\ UNCHANGED lockdown
       \/ /\ step[c] = "open"
          /\ lockdown' = regVal[c] \ {way[c]}
          /\ Step(c, "fill") /\ UNCHANGED <<hwLock, regVal>>
    /\ UNCHANGED <<pageVars, wayVars, mask, content, stray, taskVars, pc, job, page, way>>

CloseWay(c) ==
    /\ Backend = "lockdown"
    /\ \/ /\ step[c] = "close"
          /\ regVal' = [regVal EXCEPT ![c] = lockdown]
          /\ Step(c, "shut") /\ UNCHANGED <<hwLock, lockdown>>
       \/ /\ step[c] = "shut"
          /\ lockdown' = regVal[c] \cup {way[c]}
          /\ regVal' = [regVal EXCEPT ![c] = {}]
          /\ hwLock' = Nil
          /\ Step(c, Nil)
    /\ UNCHANGED <<pageVars, wayVars, mask, content, stray, taskVars, pc, job, page, way>>

CleanAndInvalidateWay(c) ==
    /\ Backend = "lockdown" /\ Working(c) /\ ~Prefetches(c) /\ HwFree
    /\ content' = [content EXCEPT ![way[c]] = Nil]
    /\ page' = [page EXCEPT ![c] = JobEnd(c)]
    /\ UNCHANGED <<pageVars, wayVars, hwLock, lockdown, regVal, mask, stray, step,
                   taskVars, pc, job, way>>

(* CAT: under mCATLock the core's class gets the bit of the way for the    *)
(* time of the prefetch or the flush, and else its standby mask.           *)
EnableWayExclusive(c) ==
    /\ Backend = "cat" /\ Working(c) /\ step[c] = Nil /\ HwFree
    /\ hwLock' = c
    /\ mask' = enableWayExclusive(mask, c, way[c])
    /\ Step(c, "fill")
    /\ UNCHANGED <<pageVars, wayVars, lockdown, regVal, content, stray, taskVars, pc, job,
                   page, way>>

DisableAllWays(c) ==
    /\ Backend = "cat" /\ step[c] = "close"
    /\ hwLock' = Nil
    /\ mask' = disableAllWays(mask, c)
    /\ Step(c, Nil)
    /\ UNCHANGED <<pageVars, wayVars, lockdown, regVal, content, stray, taskVars, pc, job,
                   page, way>>

(* What a way holds from which another core took a place while it was open. *)
Lost == -1

(* Where a core allocates: the lockdown registers are set for all of them, *)
(* the masks are a core's own.                                             *)
Allocates(c, w) == IF Backend = "lockdown" THEN w \notin lockdown
                                           ELSE WayMask(w) \subseteq mask[c]

(* The prefetch takes no line that is in the cache already.                *)
FillWay(c) ==
    /\ step[c] = "fill"
    /\ \E whole \in IF Prefetches(c) /\ JobStart(c) \in stray THEN BOOLEAN ELSE {TRUE} :
          /\ content' = IF Prefetches(c) /\ ~Allocates(c, way[c]) THEN content
                        ELSE [content EXCEPT ![way[c]] =
                                IF Prefetches(c) /\ whole THEN JobStart(c) ELSE Nil]
          /\ stray' = IF whole THEN stray \ {JobStart(c)} ELSE stray
    /\ page' = [page EXCEPT ![c] = JobEnd(c)]
    /\ Step(c, "close")
    /\ UNCHANGED <<pageVars, wayVars, hwLock, lockdown, regVal, mask, taskVars, pc, job, way>>

(* Outside of the jobs a core also reaches components that are not loaded: *)
(* the dispatcher reads their locks, interrupts run their handlers.  The   *)
(* line that this brings in takes a place of a way that the core may       *)
(* allocate in, be it the one that another core has just opened.           *)
ReachedParts == UNION {Parts(o) : o \in Reached}
Opened(w) == \E d \in Core : way[d] = w /\ step[d] \in {"fill", "close", "shut"}

Miss(c, p) ==
    /\ ~Coloring /\ pc[c] \notin {"off", "boot", "critical", "start", "job", "hung"}
    /\ p \in ReachedParts /\ \A w \in Way : content[w] # p
    /\ \/ \E w \in Way :
             /\ Allocates(c, w)
             /\ content' = [content EXCEPT ![w] = IF Opened(w) THEN Lost ELSE Nil]
       \/ /\ Backend = "cat" /\ StandbyMask(c) \subseteq mask[c]
          /\ UNCHANGED content
    /\ stray' = stray \cup {p}
    /\ UNCHANGED <<pageVars, wayVars, hwLock, lockdown, regVal, mask, step, taskVars, pc,
                   job, page, way>>
----------------------------------------------------------------------------
Next ==
    \/ InitPrimary \/ PreloadCriticalData \/ StartSecondaries
    \/ \E c \in Core :
          \/ InitSecondary(c)
          \/ \E t \in Tasks : NextTask(c, t)
          \/ PreloadSingleOSC(c) \/ Abort(c) \/ LoadPart(c)
          \/ \E w \in Way : GetLRUWay(c, w)
          \/ LabelData(c) \/ LabelOwner(c)
          \/ \E v \in Page : Run(c, v)
          \/ FinishTask(c) \/ LookupOSC(c) \/ FreeWays(c)
          \/ EndJob(c) \/ MovePage(c) \/ Copy(c) \/ NextPage(c)
          \/ OpenWay(c) \/ CloseWay(c) \/ CleanAndInvalidateWay(c)
          \/ EnableWayExclusive(c) \/ DisableAllWays(c) \/ FillWay(c)
          \/ \E p \in Page : Miss(c, p)

Spec == Init /\ [][Next]_vars
----------------------------------------------------------------------------
TypeOK ==
    /\ PageTypeOK
    /\ variant \in Variants
    /\ mCacheWays \in [Way -> [permanentLocked : BOOLEAN, dataStart : Page,
          dataEnd : 0 .. Pages, osc : Component \cup {Nil}, lruCount : 0 .. LruMax,
          inUse : BOOLEAN]]
    /\ mLock \in Core \cup {Nil} /\ hwLock \in Core \cup {Nil}
    /\ lockdown \subseteq Way /\ \A c \in Core : regVal[c] \subseteq Way
    /\ \A c \in Core : mask[c] \subseteq 0 .. CATBits - 1
    /\ content \in [Way -> Page \cup {Lost, Nil}] /\ stray \subseteq Page
    /\ \A c \in Core : active[c] = <<>> \/ active[c] \in Tasks
    /\ way \in [Core -> 0 .. CacheWayCount] /\ page \in [Core -> 0 .. Pages]

(* A core runs a component only when each part of it has a way that is     *)
(* marked as used, so that no other core takes it; and the cores that run  *)
(* nothing leave no way marked.                                            *)
WaysHeldAndReleased ==
    /\ \A c \in Core : \A o \in ToSet(active[c]) : pc[c] = "run" =>
          \A p \in Parts(o) :
             Cardinality({w \in Labelled(p) : mCacheWays[w].inUse}) = 1
    /\ (\A c \in Core : active[c] = <<>>) => \A w \in Way : ~mCacheWays[w].inUse

(* No two cores work on the same way. *)
WaysNotShared ==
    \A c, d \in Core : c # d /\ pc[c] \in {"check", "job", "label", "owner"}
                             /\ pc[d] \in {"check", "job", "label", "owner"}
                       => way[c] # way[d]

(* A core aborts for want of a way only if there are fewer of them than    *)
(* parts in the tasks of all cores: no way is ever lost to a finished one. *)
Wanted == UNION {Parts(o) : o \in UNION {ToSet(active[c]) : c \in Core}}
AbortsOnlyIfFull ==
    [][(\E c \in Core : pc[c] # "hung" /\ pc'[c] = "hung") =>
          Cardinality(Wanted) > Cardinality({w \in Way : ~mCacheWays[w].permanentLocked})
      ]_vars

(* Whatever pages are moved by which core, a running trigger finds the     *)
(* latest content of each page of its components.                          *)
DataPreserved ==
    \A c \in Core : pc[c] = "run" =>
        \A o \in ToSet(active[c]) : \A v \in Owned(o) : memory[Translate(c, v)] = v

(* "Preloads the data of a component to the cache" (GenericCacheManagement *)
(* .h): it runs with each part in the way that the part was loaded into,   *)
(* unless another core has brought a line of it to another way, or has     *)
(* taken the place of one while the way was open for the load.  With page  *)
(* coloring that cannot happen.                                            *)
Cached(c, o, p) ==
    IF Coloring
    THEN \A v \in p .. PartEnd(p, End[o]) - 1 :
            pte[Entry(v)].cacheable /\ Translate(c, v) >= ColorsStart
    ELSE \/ \E w \in Way : content[w] = p
         \/ p \in stray
         \/ \E w \in Labelled(p) : content[w] = Lost
RunsCached ==
    \A c \in Core : pc[c] = "run" =>
        \A o \in ToSet(active[c]) : \A p \in Parts(o) : Cached(c, o, p)

(* With CONFIG_CACHE_CONTROL_EVICT_AFTER_USE that is so. *)
RunsCachedIfEvicted == variant.evictAfterUse => RunsCached

=============================================================================
