------------------------------ MODULE PageTable ------------------------------
(***************************************************************************)
(* The page table all cores share, their translation buffers, and the      *)
(* move of a virtual page to another physical page.  Addresses are page    *)
(* numbers: 0 .. Pages - 1 are both the virtual and the physical pages.    *)
(***************************************************************************)
EXTENDS Integers, FiniteSets

CONSTANTS
    Cores,    \* NR_CPUS: the cores are 0 .. Cores - 1
    Pages,
    Entries,  \* of a table of the last level
    Nil

Core == 0 .. Cores - 1
Page == 0 .. Pages - 1

(* A move of a page that is under way. *)
Move == [page : Page, to : Page, cacheable : BOOLEAN, window : Page,
         dummy : BOOLEAN, copied : BOOLEAN]

ASSUME PageTableAssumption ==
    /\ Cores \in Nat \ {0} /\ Pages \in Nat \ Core
    /\ Entries \in 1 .. Pages /\ Pages % Entries = 0
    /\ Nil \notin Int /\ Nil \notin Move

VARIABLES
    directory,  \* where the table of each region starts
    pte,        \* the entries of the last level, all tables in a row
    tlb,        \* what each core remembers of them
    memory,     \* the virtual page whose latest content a physical page has
    moving      \* per core, the page it moves

pageVars == <<directory, pte, tlb, memory, moving>>

(* fillLinear: first the links to the tables, then every page onto itself, *)
(* uncached.                                                               *)
Linear ==
    /\ directory = [i \in 0 .. (Pages \div Entries) - 1 |-> i * Entries]
    /\ pte = [p \in Page |-> [base |-> p, cacheable |-> FALSE]]

PageInit ==
    /\ Linear
    /\ tlb = [c \in Core |-> [v \in Page |-> Nil]]
    /\ memory = [p \in Page |-> p]
    /\ moving = [c \in Core |-> Nil]

(* The entry of a page: get..PageTableEntryFromAddress. *)
Entry(v) == directory[v \div Entries] + (v % Entries)

PhysicalAddress(v) == pte[Entry(v)].base

(* What an access of core c to page v reaches. *)
Translate(c, v) == IF tlb[c][v] # Nil THEN tlb[c][v] ELSE PhysicalAddress(v)

(* A faulty variant, to check the properties. *)
SharedDummyPage(c) == 0

DummyPage(c) == c

(* The core that changes an entry flushes its own buffer, and only that.   *)
FlushTLB(c) == tlb' = [tlb EXCEPT ![c] = [v \in Page |-> Nil]]

FlushTLBWithAddress(c, pages) ==
    \/ FlushTLB(c)
    \/ tlb' = [tlb EXCEPT ![c] = [v \in Page |-> IF v \in pages THEN Nil ELSE @[v]]]

SetRangeCacheable(pages, cacheable) ==
    pte' = [p \in Page |-> IF p \in {Entry(v) : v \in pages}
                           THEN [pte[p] EXCEPT !.cacheable = cacheable] ELSE pte[p]]

To(p, cacheable) == [base |-> p, cacheable |-> cacheable]

(* mapVirtualPageToPhysicalAddress, for the pages of to in one step. *)
Map(c, to) ==
    /\ pte' = [p \in Page |->
          IF \E v \in DOMAIN to : Entry(v) = p
          THEN to[CHOOSE v \in DOMAIN to : Entry(v) = p] ELSE pte[p]]
    /\ FlushTLB(c)
----------------------------------------------------------------------------
(* moveVirtualPageToPhysicalAddress: the source gets the other cacheable   *)
(* attribute.  A destination that its own address does not reach appears   *)
(* at the dummy page of the core.                                          *)
BeginMove(c, v, p, cacheable) ==
    LET dummy == PhysicalAddress(p) # p
        window == IF dummy THEN DummyPage(c) ELSE p
    IN  /\ moving[c] = Nil
        /\ Map(c, [u \in {v, window} |->
                  IF u = window THEN To(p, cacheable)
                                ELSE To(PhysicalAddress(v), ~cacheable)])
        /\ moving' = [moving EXCEPT ![c] =
              [page |-> v, to |-> p, cacheable |-> cacheable, window |-> window,
               dummy |-> dummy, copied |-> FALSE]]
        /\ UNCHANGED <<directory, memory>>

(* The copy reads and writes through the core's translations. *)
CopyPage(c) ==
    LET m == moving[c]
    IN  /\ m # Nil /\ ~m.copied
        /\ memory' = [memory EXCEPT ![Translate(c, m.window)] =
                         memory[Translate(c, m.page)]]
        /\ tlb' = [tlb EXCEPT ![c][m.page] = Translate(c, m.page),
                              ![c][m.window] = Translate(c, m.window)]
        /\ moving' = [moving EXCEPT ![c].copied = TRUE]
        /\ UNCHANGED <<directory, pte>>

(* The page goes to its new place, the dummy page back to its own, and the *)
(* copy left in the old place is nobody's.                                 *)
EndMove(c) ==
    LET m == moving[c]
        dummies == IF m.dummy THEN {DummyPage(c)} ELSE {}
    IN  /\ m # Nil /\ m.copied
        /\ Map(c, [u \in {m.page} \cup dummies |->
                  IF u = m.page THEN To(m.to, m.cacheable) ELSE To(u, FALSE)])
        /\ moving' = [moving EXCEPT ![c] = Nil]
        /\ memory' = [q \in Page |-> IF memory[q] = m.page /\ q # m.to
                                     THEN Nil ELSE memory[q]]
        /\ UNCHANGED directory

(* A running core writes a page: what it reaches is the page's latest      *)
(* content, and any other copy of it is out of date.                       *)
Access(c, v) ==
    LET p == Translate(c, v)
    IN  /\ tlb' = [tlb EXCEPT ![c][v] = p]
        /\ memory' = [q \in Page |-> IF q = p THEN v
                                     ELSE IF memory[q] = v THEN Nil ELSE memory[q]]
        /\ UNCHANGED <<directory, pte, moving>>
----------------------------------------------------------------------------
PageTypeOK ==
    /\ directory \in [0 .. (Pages \div Entries) - 1 -> Page]
    /\ pte \in [Page -> [base : Page, cacheable : BOOLEAN]]
    /\ tlb \in [Core -> [Page -> Page \cup {Nil}]]
    /\ memory \in [Page -> Page \cup {Nil}]
    /\ moving \in [Core -> Move \cup {Nil}]
=============================================================================
