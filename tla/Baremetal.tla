------------------------------ MODULE Baremetal ------------------------------
(***************************************************************************)
(* The programs of src/baremetal, which run in place of the event          *)
(* handler: one is built, and after the start-up each core runs its entry  *)
(* function.  SpinlockTest and CATTest keep the cores in step with a       *)
(* barrier, CoherencyTest and MemoryProfiling with holding_pen.            *)
(***************************************************************************)
EXTENDS Barrier, Sequences

CONSTANTS
    WAY_COUNT,  \* CATTest: ways of the cache
    Words       \* CoherencyTest: size of testarray

ASSUME BaremetalAssumption ==
    /\ Thread = 0 .. mSize - 1
    /\ WAY_COUNT \in Nat /\ mSize <= WAY_COUNT
    /\ Words \in Nat \ {0}

VARIABLES
    program,     \* what is built (fixed)
    next,        \* the print or the way that follows the await of each core
    work,        \* what each core has left to do before it synchronises
    holdingPen,  \* holding_pen
    testarray,   \* core whose number each word holds
    wake         \* ARM event registers

programVars == <<program, next, work, holdingPen, testarray, wake>>
allVars == <<vars, programVars>>

Barriers == {"SpinlockTest", "CATTest"}
Programs == Barriers \cup {"CoherencyTest", "MemoryProfiling", "HierarchyProfiling"}

Do(what, n) == [what |-> what, on |-> n]

(* The loop of printText has an await before the print of each core. *)
Prints == 4

printText(c, n) == IF n = c THEN <<Do("print", n)>> ELSE <<>>

(* measure_core, whose accesses to a way are in the part of                *)
(* profiling_space that belongs to it.  Each time the way is measured      *)
(* before it is evicted or prefetched.                                     *)
measure_core(way) == <<Do("evict", way), Do("warmup", way), Do("measure", way)>>

(* A faulty variant, to check the properties: an await is left out. *)
LoadsTwo(way) == <<Do("load", way), Do("load", (way + 1) % WAY_COUNT)>>

secondary_cores(way) == <<Do("load", way)>>

(* What core 0 does before its first await. *)
WarmUpAll ==
    [i \in 1 .. 2 * WAY_COUNT |->
        Do(IF i % 2 = 1 THEN "warmup" ELSE "measure", (i - 1) \div 2)]

fillArray == [i \in 1 .. Words |-> Do("fill", i)]

checkCoherency == [i \in 1 .. Words |-> Do("check", i)]

(* MemoryProfiling: the pen is counted up once for each core.              *)
ReleaseCores == [i \in 1 .. mSize |-> Do("release", i)] \o <<Do("profile", 0)>>

(* HierarchyProfiling: size = 32768; size < 1024 * 1024 * 32; size * 2     *)
MeasureSizes == [k \in 1 .. 10 |-> Do("measure", 32768 * 2 ^ (k - 1))]

ProgramInit ==
    /\ Init
    /\ program \in Programs
    /\ next = [c \in Thread |-> IF program = "CATTest" THEN c ELSE 0]
    /\ work = [c \in Thread |->
           CASE c # 0 \/ program = "SpinlockTest" -> <<>>
             [] c = 0 /\ program = "CATTest" -> WarmUpAll
             [] c = 0 /\ program = "CoherencyTest" -> fillArray
             [] c = 0 /\ program = "MemoryProfiling" -> ReleaseCores
             [] c = 0 /\ program = "HierarchyProfiling" -> MeasureSizes]
    /\ holdingPen = 0
    /\ testarray = [i \in 1 .. Words |-> 0]
    /\ wake = [c \in Thread |-> FALSE]

----------------------------------------------------------------------------
(* The accesses to memory of one piece of work *)
Work(c) ==
    /\ work[c] # <<>> /\ program \in Barriers \cup {"HierarchyProfiling"}
    /\ work' = [work EXCEPT ![c] = Tail(@)]
    /\ UNCHANGED <<vars, program, next, holdingPen, testarray, wake>>

CallAwait(c) ==
    /\ program \in Barriers /\ work[c] = <<>>
    /\ Await(c)
    /\ UNCHANGED programVars

(* What a core does when it has returned. *)
Continue(c) ==
    IF program = "SpinlockTest" THEN printText(c, next[c])
    ELSE IF c = 0 THEN measure_core(next[c]) ELSE secondary_cores(next[c])

InAwait(c) ==
    /\ Step(c)
    /\ IF pc[c] = "return"
       THEN /\ work' = [work EXCEPT ![c] = Continue(c)]
            /\ next' = [next EXCEPT ![c] =
                   (@ + 1) % (IF program = "SpinlockTest" THEN Prints ELSE WAY_COUNT)]
       ELSE UNCHANGED <<work, next>>
    /\ UNCHANGED <<program, holdingPen, testarray, wake>>

----------------------------------------------------------------------------
(* CoherencyTest *)
Fill ==
    /\ program = "CoherencyTest" /\ work[0] # <<>> /\ Head(work[0]).what = "fill"
    /\ testarray' = [testarray EXCEPT ![Head(work[0]).on] = mSize - 1]
    /\ work' = [work EXCEPT ![0] = Tail(@)]
    /\ UNCHANGED <<vars, program, next, holdingPen, wake>>

(* The core's turn: while ((holding_pen % 4) != getCPUID()) {}             *)
BeginCheck(c) ==
    /\ program = "CoherencyTest" /\ work[c] = <<>>
    /\ holdingPen % mSize = c
    /\ work' = [work EXCEPT ![c] = checkCoherency]
    /\ UNCHANGED <<vars, program, next, holdingPen, testarray, wake>>

(* The core before it in the ring has written the word, or else the check  *)
(* begins again; after the last word the next core has its turn.           *)
Previous(c) == (c - 1) % mSize

NextTurn == holdingPen' = (holdingPen + 1) % mSize

Check(c) ==
    /\ program = "CoherencyTest" /\ work[c] # <<>> /\ Head(work[c]).what = "check"
    /\ LET i == Head(work[c]).on
       IN IF testarray[i] = Previous(c)
          THEN /\ testarray' = [testarray EXCEPT ![i] = c]
               /\ work' = [work EXCEPT ![c] = Tail(@)]
               /\ IF i = Words THEN NextTurn ELSE UNCHANGED holdingPen
          ELSE work' = [work EXCEPT ![c] = <<>>] /\ UNCHANGED <<testarray, holdingPen>>
    /\ UNCHANGED <<vars, program, next, wake>>

----------------------------------------------------------------------------
(* MemoryProfiling: holding_pen++ and SEV ... *)
Release ==
    /\ program = "MemoryProfiling" /\ Head(work[0]).what = "release"
    /\ holdingPen' = holdingPen + 1
    /\ wake' = [c \in Thread |-> TRUE]
    /\ work' = [work EXCEPT ![0] = Tail(@)]
    /\ UNCHANGED <<vars, program, next, testarray>>

(* ... which is a busy wait after each: a core waits for its own value     *)
(* with WFE, and one that misses it waits for ever.                        *)
AwaitRelease(c) ==
    /\ program = "MemoryProfiling" /\ c # 0 /\ work[c] = <<>>
    /\ IF holdingPen = c
       THEN work' = [work EXCEPT ![c] = <<Do("profile", c)>>] /\ UNCHANGED wake
       ELSE wake[c] /\ wake' = [wake EXCEPT ![c] = FALSE] /\ UNCHANGED work
    /\ UNCHANGED <<vars, program, next, holdingPen, testarray>>

(* Accesses at random, for ever *)
Profile(c) ==
    /\ program = "MemoryProfiling" /\ work[c] # <<>> /\ Head(work[c]).what = "profile"
    /\ UNCHANGED allVars

(* HierarchyProfiling begins again; the other cores wait for a value that  *)
(* holding_pen never gets.                                                 *)
NextRun ==
    /\ program = "HierarchyProfiling" /\ work[0] = <<>>
    /\ work' = [work EXCEPT ![0] = MeasureSizes]
    /\ UNCHANGED <<vars, program, next, holdingPen, testarray, wake>>

----------------------------------------------------------------------------
ProgramStep(c) ==
    \/ Work(c) \/ CallAwait(c) \/ InAwait(c) \/ BeginCheck(c) \/ Check(c)
    \/ c = 0 /\ (Fill \/ Release \/ NextRun)
    \/ AwaitRelease(c) \/ Profile(c)

ProgramNext == \E c \in Thread : ProgramStep(c)

ProgramSpec == ProgramInit /\ [][ProgramNext]_allVars

(* The cores keep executing. *)
FairProgram == ProgramSpec /\ \A c \in Thread : WF_allVars(ProgramStep(c))

----------------------------------------------------------------------------
AtWork(c) == work[c] # <<>>

(* The cores work one at a time or apart from each other: SpinlockTest     *)
(* prints in the order of the cores, CATTest has each core in a cache way  *)
(* of its own while another measures, evicts or prefetches, and in         *)
(* CoherencyTest each core finds the words of the core before it, whether  *)
(* it comes into its turn early or late.                                   *)
WorkSeparate ==
    /\ program = "CATTest" => \A c, d \in Thread :
           AtWork(c) /\ AtWork(d) /\ Head(work[c]).on = Head(work[d]).on => c = d
    /\ program \notin {"CATTest", "MemoryProfiling"} =>
           \A c, d \in Thread : AtWork(c) /\ AtWork(d) => c = d
    /\ \A c \in Thread : program = "CoherencyTest" /\ AtWork(c) =>
           \A i \in DOMAIN work[c] : work[c][i].what = "check" =>
               testarray[work[c][i].on] = Previous(c)
=============================================================================
