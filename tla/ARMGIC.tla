------------------------------- MODULE ARMGIC -------------------------------
(***************************************************************************)
(* The ARM generic interrupt controller as its driver programs it          *)
(* (src/arch/armv7/driver/ARMGIC.cc).  The registers are a record "g":     *)
(*   on      the controls that forward interrupts: -1 for the              *)
(*           distributor and a core's number for its CPU interface         *)
(*   icfgr   the pairs <<row, bit>> of GICD_ICFGRn that are set            *)
(*   enabled, target, priority   per interrupt; the private interrupts   *)
(*           below 32 have a bank of "enabled" for every core              *)
(*   latched the edge-triggered interrupts that are pending                *)
(*   active  the pairs <<core, interrupt>> between the read of GICC_IAR    *)
(*           and the write of GICC_EOIR                                    *)
(* An operator is one method of the driver; the meaning of the registers   *)
(* (IsPending, Deliverable, ReadIAR) is the hardware's and external.       *)
(***************************************************************************)
EXTENDS Integers, FiniteSetsExt

CONSTANTS
    CPU,        \* core numbers
    NumInts     \* (mNumLines + 1) * 32, read from GICD_TYPER

SPURIOUS_INT == 1023
GICD == -1

\* The interrupts below 32 are banked: every core has its own.
Banked(n) == n < 32

(***************************************************************************)
(* Methods.                                                                *)
(***************************************************************************)

SetBit(bits, bit, value) == IF value THEN bits \cup {bit} ELSE bits \ {bit}

\* Two bits of GICD_ICFGRn belong to an interrupt, at 2 * (n % 16); the
\* driver numbers them as if it were one, and the bits it writes are those of
\* another interrupt.
TriggerBit(n) == <<n \div 16, (n % 16) + 1>>
HandlingBit(n) == <<n \div 16, n % 16>>

configureInterruptHandling(g, n, nton) == [g EXCEPT !.icfgr = SetBit(@, HandlingBit(n), ~nton)]

\* A write to the banked rows of GICD_ISENABLERn and GICD_ICENABLERn reaches
\* only the core that writes.
Writers(c, n) == IF Banked(n) THEN {c} ELSE CPU

enableInterrupt(g, c, n) ==
    [g EXCEPT !.enabled = [d \in CPU |-> IF d \in Writers(c, n) THEN @[d] \cup {n} ELSE @[d]]]

disableInterrupt(g, c, n) ==
    [g EXCEPT !.enabled = [d \in CPU |-> IF d \in Writers(c, n) THEN @[d] \ {n} ELSE @[d]]]

setInterruptTarget(g, n, cores) == [g EXCEPT !.target[n] = cores]

\* Only the low half of the old priority is cleared before the new one is
\* added: the high half can only gain bits.
setInterruptPriority(old, priority) == old \cup priority

\* The value for GICD_ICPENDRn is computed and never written.
clearPending(g, n) == g

testInterrupt(g, n) == [g EXCEPT !.latched = @ \cup {n}]

setCoreControl(g, c, enable) == [g EXCEPT !.on = SetBit(@, c, enable)]
setDistributorControl(g, enable) == [g EXCEPT !.on = SetBit(@, GICD, enable)]

endOfInterrupt(g, c, n) == [g EXCEPT !.active = @ \ {<<c, n>>}]

(***************************************************************************)
(* Initialisation, by the boot core c.                                     *)
(***************************************************************************)

Reset == [on |-> {}, icfgr |-> {}, enabled |-> [c \in CPU |-> {}], latched |-> {},
          active |-> {},
          target |-> [n \in 0 .. NumInts - 1 |-> {}],
          priority |-> [n \in 0 .. NumInts - 1 |-> {}]]

\* Priority 0xa0 as the set of its bits.
DefaultPriority == {5, 7}

\* Each loop over the interrupts is written for all of them at once.  No bit
\* that configureInterruptHandling sets is cleared by a later iteration.
distributorInit(g, c) ==
    LET shared == {n \in 0 .. NumInts - 1 : ~Banked(n)}
    IN  [setDistributorControl(g, FALSE) EXCEPT
            !.icfgr = (@ \ {TriggerBit(n) : n \in shared}) \cup {HandlingBit(n) : n \in shared},
            !.target = [n \in DOMAIN @ |-> IF n \in shared THEN {} ELSE @[n]],
            !.priority = [n \in DOMAIN @ |-> setInterruptPriority(@[n], DefaultPriority)],
            !.enabled = [d \in CPU |-> {n \in @[d] : d \notin Writers(c, n)}]]

\* The pending interrupts are read off one by one and never ended; none is
\* pending in a core that starts.
coreInterfaceInit(g, c) ==
    [setCoreControl(g, c, FALSE) EXCEPT
        !.latched = {n \in @ : ~Banked(n)},
        !.target = [n \in DOMAIN @ |-> IF Banked(n) THEN {c} ELSE @[n]],
        !.priority = [n \in DOMAIN @ |->
            IF Banked(n) THEN setInterruptPriority(@[n], DefaultPriority) ELSE @[n]]]

(***************************************************************************)
(* The hardware.  "asserted" is the set of interrupt lines that the        *)
(* devices hold high.                                                      *)
(***************************************************************************)

IsEdge(g, n) == <<n \div 16, 2 * (n % 16) + 1>> \in g.icfgr

\* A device raises its line: an edge-triggered interrupt latches it.
Rise(g, n) == IF IsEdge(g, n) THEN testInterrupt(g, n) ELSE g

IsPending(g, n, asserted) == IF IsEdge(g, n) THEN n \in g.latched ELSE n \in asserted

\* What core c could be given.
Deliverable(g, c, asserted) ==
    {n \in g.enabled[c] : /\ {GICD, c} \subseteq g.on
                          /\ IsPending(g, n, asserted)
                          /\ c \in g.target[n]
                          /\ \A d \in (IF Banked(n) THEN {c} ELSE CPU) : <<d, n>> \notin g.active}

\* The value of GICC_IAR with equal priorities: the lowest number.
getNextInterrupt(g, c, asserted) ==
    LET ns == Deliverable(g, c, asserted) IN IF ns = {} THEN SPURIOUS_INT ELSE Min(ns)

\* What the read does.
ReadIAR(g, c, n) ==
    IF n = SPURIOUS_INT THEN g
    ELSE [g EXCEPT !.active = @ \cup {<<c, n>>}, !.latched = @ \ {n}]
=============================================================================
