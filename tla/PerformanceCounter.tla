------------------------- MODULE PerformanceCounter -------------------------
(***************************************************************************)
(* ARMV7PerformanceCounter: the performance monitor of a core.  Registers  *)
(* of bits are sets of bit numbers.  Bit 31 stands for the cycle counter;  *)
(* PMCNTENSET and PMCNTENCLR read as the counters that are enabled, and a  *)
(* bit that is written to them enables or disables its counter.            *)
(***************************************************************************)
EXTENDS Integers

Cycles == 31

(* PMCR: 0 enables all, 1 resets the event counters, 2 the cycle counter,  *)
(* 3 counts every 64th cycle, 4 exports, 5 stops the cycle counter where   *)
(* counting is prohibited.  1 and 2 read as zero.                          *)
PMCRBits == 0 .. 5

ResetPMU(n) ==
    [select |-> 0, type |-> [i \in 0 .. n - 1 |-> 0], count |-> [i \in 0 .. n - 1 |-> 0],
     cycles |-> 0, enabled |-> {}, pmcr |-> {}]

WritePMCNTENSET(p, bits) == [p EXCEPT !.enabled = @ \cup bits]
WritePMCNTENCLR(p, bits) == [p EXCEPT !.enabled = @ \ bits]

writePMCR(p, bits) ==
    [p EXCEPT !.pmcr = bits \ {1, 2},
              !.count = IF 1 \in bits THEN [i \in DOMAIN @ |-> 0] ELSE @,
              !.cycles = IF 2 \in bits THEN 0 ELSE @]

(* PMSELR says which counter the next accesses are about.                  *)
Select(p, id) == [p EXCEPT !.select = id]

readEventCounter(p, id) == Select(p, id).count[id]

writeEventCounter(p, value, id) == [Select(p, id) EXCEPT !.count[id] = value]

readEventCounterType(p, id) == Select(p, id).type[id]

writeEventCounterType(p, event, id) == [Select(p, id) EXCEPT !.type[id] = event]

enableEventCounter(p, id) == WritePMCNTENSET(p, p.enabled \cup {id})

disableEventCounter(p, id) == WritePMCNTENCLR(p, {id})

readCycleCountRegister(p) == p.cycles

writeCycleCountRegister(p, value) == [p EXCEPT !.cycles = value]

enableCycleCount(p) == WritePMCNTENSET(p, p.enabled \cup {Cycles})

(* It takes its own bit out of what it read: all event counters stop and   *)
(* the cycle counter goes on.                                              *)
disableCycleCount(p) == WritePMCNTENCLR(p, p.enabled \ {Cycles})

enableGlobal(p) == writePMCR(p, (p.pmcr \cup {0}) \ {5})

disableGlobal(p) == writePMCR(p, p.pmcr \ {0})

(* pmcr |= ~(0x2): all bits but the one that resets the event counters.    *)
resetGlobal(p) == writePMCR(p, p.pmcr \cup (PMCRBits \ {1}))

set64CycleCounterStep(p, enabled) ==
    writePMCR(p, IF enabled THEN p.pmcr \cup {3} ELSE p.pmcr \ {3})

(* The counters that are there, one after the other.                       *)
printCounterValues(p) ==
    [cycles |-> readCycleCountRegister(p),
     counter |-> [i \in DOMAIN p.count |-> readEventCounter(p, i)]]

(* What the unit counts while events happen and cycles pass.               *)
Counted(p, events, cycles) ==
    IF 0 \notin p.pmcr THEN p
    ELSE [p EXCEPT
            !.count = [i \in DOMAIN @ |->
                IF i \in p.enabled THEN @[i] + events[p.type[i]] ELSE @[i]],
            !.cycles = IF Cycles \in p.enabled
                       THEN @ + cycles \div (IF 3 \in p.pmcr THEN 64 ELSE 1) ELSE @]
=============================================================================
