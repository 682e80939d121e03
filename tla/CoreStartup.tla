----------------------------- MODULE CoreStartup -----------------------------
(***************************************************************************)
(* What each core does between its reset and the steps of module Boot: the *)
(* assembler start-up code, the units it switches on (caches, MMU, modes), *)
(* the tables and objects that others read, and on AMD64 the tables of the *)
(* firmware that name the cores.  A step of module Boot is taken where the *)
(* program of the core has it; all others leave the variables of Boot      *)
(* alone, so that a behaviour of this module is one of Boot.               *)
(***************************************************************************)
EXTENDS Boot, FiniteSets, SequencesExt

CONSTANTS
    DataCaches,  \* CLIDR and CCSIDR: the cache levels, [type, ways, sets]
    LoC,         \* CLIDR: level of coherence
    Firmware     \* x86: possible tables; .cores are the APIC ids it enables

ASSUME StartupAssumption ==
    /\ DataCaches \in Seq([type : 0 .. 4, ways : Nat \ {0}, sets : Nat \ {0}])
    /\ LoC \in 0 .. Len(DataCaches)
    /\ \A f \in Firmware : f.cores \in Seq(Nat) /\ Len(f.cores) = mRegisteredCPUs

VARIABLES
    board,     \* what it is built for (fixed)
    firmware,  \* x86: the tables found in memory (fixed)
    done,      \* number of start-up steps each core has done
    startup,   \* of each core: its units, its data cache, its stack
    l2,        \* ARM: the shared cache: on, stale, dirty (as for a core)
    ready,     \* what the memory and the board hold for all cores
    cpus       \* SMPManager: APIC ids of the registered cores, in order

startupVars == <<board, firmware, done, startup, l2, ready, cpus>>
allVars == <<vars, startupVars>>

NoStack == -2
StartupStack == -1  \* x86: the label stack, one for all cores

----------------------------------------------------------------------------
(* ARMV7CacheControl: the loops over levels, ways and sets.                *)

(* From the highest one down: SUBS, BGE. *)
Indices(max) == 0 .. max

(* The levels below the level of coherence that hold data. *)
Levels == {l \in 1 .. LoC : DataCaches[l].type >= 2}

Visited ==
    UNION {{l} \X Indices(DataCaches[l].ways - 1) \X Indices(DataCaches[l].sets - 1) : l \in Levels}

AllLines ==
    UNION {{l} \X (0 .. DataCaches[l].ways - 1) \X (0 .. DataCaches[l].sets - 1) :
           l \in {k \in 1 .. LoC : DataCaches[k].type \in {2, 3, 4}}}

Switch(r, units) == [r EXCEPT !.unit = @ \cup units]

asm_clean_data_caches(r) == [r EXCEPT !.dirty = @ \ Visited]

asm_invalidate_data_caches(r) ==
    [r EXCEPT !.stale = @ \ Visited, !.dirty = @ \ Visited]

asm_enable_unified_cache(r) == Switch(r, {"dcache"})

(* What a cache holds that is off no longer follows the memory. *)
asm_disable_unified_cache(r) ==
    [r EXCEPT !.unit = @ \ {"dcache"}, !.stale = AllLines]

asm_enable_instruction_cache(r) == Switch(r, {"icache"})

asm_disable_instruction_cache(r) == [r EXCEPT !.unit = @ \ {"icache"}]

enableL1Caches(r) ==
    asm_enable_instruction_cache(asm_enable_unified_cache(asm_invalidate_data_caches(r)))

enableSMPMode(r) == Switch(r, {"smp"})

enablePrefetching(r) == Switch(r, {"prefetch"})

----------------------------------------------------------------------------
(* ACPI: the tables in memory are a record of the tags of the boot loader, *)
(* the root pointers in the order the code comes to them, and the APIC ids *)
(* of the cores they enable.                                               *)

checkRSDPValidity(rsdp) ==
    /\ rsdp.signature = "RSD PTR "
    /\ IF rsdp.revision > 1 THEN rsdp.xsdt.signature = "XSDT" ELSE rsdp.rsdt.signature = "RSDT"

(* The copies of the root pointer in the tags of type 14 and 15            *)
ExternalRSDPs(f) ==
    SelectSeq(f.tags, LAMBDA t : t.type \in {14, 15} /\ checkRSDPValidity(t.rsdp))

findRSDP(f) == SelectSeq(f.places, checkRSDPValidity)[1]

findTable(sdt, signature) ==
    SelectSeq(sdt.tables, LAMBDA t : t.signature = signature)[1]

(* The entries of the table that a root pointer leads to                   *)
findEntries(rsdp) ==
    findTable(IF rsdp.revision > 1 THEN rsdp.xsdt ELSE rsdp.rsdt, "APIC").entries

(* The last copy that registerExternalRSDP has kept, or a search.          *)
initACPI(f) ==
    findEntries(IF "rsdp" \in ready THEN Last(ExternalRSDPs(f)).rsdp ELSE findRSDP(f))

(* addAPICID, for the entry of a local APIC that is enabled, as long as    *)
(* there is room.                                                          *)
addAPICID(registered, entry) ==
    IF entry.type = "LocalAPIC" /\ entry.enabled /\ Len(registered) # NR_CPUS
    THEN Append(registered, entry.apicID)
    ELSE registered

RegisteredCPUs(entries) == FoldLeft(addAPICID, <<>>, entries)

IOAPICs(entries) == SelectSeq(entries, LAMBDA e : e.type = "IOAPIC")

(* The tables name the cores that there are, each once, and an IOAPIC.     *)
ASSUME FirmwareAssumption ==
    \A f \in Firmware :
        LET kept == ExternalRSDPs(f)
            entries == findEntries(IF kept # <<>> THEN Last(kept).rsdp ELSE findRSDP(f))
        IN /\ RegisteredCPUs(entries) = f.cores /\ IsInjective(f.cores)
           /\ ToSet(IOAPICs(entries)) # {}

(* MPIDR; or mCPUMapping of the APIC id the core was started with, which   *)
(* is zero for all before the tables are read.                             *)
getCPUID(c) ==
    CASE ~x86 -> c
      [] x86 /\ cpus = <<>> -> 0
      [] x86 /\ cpus # <<>> -> Max({i \in DOMAIN cpus : cpus[i] = firmware.cores[c + 1]}) - 1

----------------------------------------------------------------------------
(* The order of the steps of each core.  A step "enter", "startCores",     *)
(* "finish" or "confirm" is one of module Boot.                            *)

ARMPrimary ==
    <<"stacks", "quiet", "scu", "fpu", "bss", "constructors", "enter", "table",
      "regions", "vectors", "mmu", "cycles", "l1", "smp", "prefetch", "l2",
      "critical", "startCores", "gic", "soc", "finish">>

ARMSecondary ==
    <<"stacks", "firstMMU", "quiet", "fpu", "enter", "smp", "prefetch", "l1", "mmu",
      "cycles", "vectors", "controller", "confirm">>

X86Primary ==
    <<"reset", "modes", "paging", "long", "constructors", "stacks", "enter", "table",
      "mmu", "regions", "multiboot", "controller", "acpi", "timer", "critical",
      "relocate", "startCores", "devices", "finish">>

X86Secondary ==
    <<"trampoline", "reset", "modes", "paging", "long", "stacks", "enter", "mmu",
      "controller", "vectors", "confirm">>

Program(c) ==
    IF x86 THEN IF c = Primary THEN X86Primary ELSE X86Secondary
    ELSE IF c = Primary THEN ARMPrimary ELSE ARMSecondary

(* The step a core does next, if any: after them it is in module Boot.     *)
NextStep(c) ==
    IF done[c] < Len(Program(c)) THEN Program(c)[done[c] + 1] ELSE "none"

At(c, step) == pc[c] # "off" /\ NextStep(c) = step

Advance(c) == done' = [done EXCEPT ![c] = @ + 1]

(* A step that leaves the core as r and makes things ready for all.        *)
Step(c, step, r, things) ==
    /\ At(c, step)
    /\ Advance(c)
    /\ startup' = [startup EXCEPT ![c] = r]
    /\ ready' = ready \cup things
    /\ UNCHANGED <<vars, board, firmware, l2, cpus>>

Boards == {"imx6", "exynos4412", "omap4460", "x86"}

(* A build for ARM brings up all cores of its board, or, without           *)
(* CONFIG_BOOT_MULTICORE, none but the primary.                            *)
NR_CORES == [imx6 |-> 4, exynos4412 |-> 4, omap4460 |-> 2]

(* The caches the boot ROM leaves on: CONFIG_EARLY_L1_CACHE_ENABLE and     *)
(* CONFIG_EARLY_PL310_ENABLE.                                              *)
EarlyL1 == board \in {"imx6", "exynos4412"}
EarlyPL310 == board = "imx6"

(* Out of reset a cache that is off holds anything, and one the boot ROM   *)
(* leaves on may hold parts of the image that the memory does not.  The    *)
(* caches of AMD64 are on and coherent all the time.                       *)
ResetCore(c) ==
    [unit |-> IF EarlyL1 THEN {"dcache", "icache"} ELSE {},
     stale |-> IF EarlyL1 \/ x86 THEN {} ELSE AllLines,
     dirty |-> IF EarlyL1 /\ c = Primary THEN AllLines ELSE {},
     stack |-> NoStack]

StartupInit ==
    /\ Init
    /\ board \in IF x86 THEN {"x86"} ELSE Boards \ {"x86"}
    /\ ~x86 => cores \in {1, NR_CORES[board]}
    /\ firmware \in IF x86 THEN Firmware ELSE {CHOOSE f \in Firmware : TRUE}
    /\ done = [c \in CPU |-> 0]
    /\ startup = [c \in CPU |-> ResetCore(c)]
    /\ l2 = [on |-> EarlyPL310, stale |-> ~EarlyPL310, dirty |-> EarlyPL310]
    /\ ready = {}
    /\ cpus = <<>>

----------------------------------------------------------------------------
(* ARM: the primary core                                                   *)

(* A stack for each mode; the SMP bit and the alignment check are cleared. *)
SetStacks ==
    Step(Primary, "stacks",
         [startup[Primary] EXCEPT !.stack = Primary, !.unit = @ \ {"smp"}], {})

(* armv7_disable_pl310: setEnabled(false) of the shared cache              *)
cleanAndInvalidateSharedCache(shared) == [shared EXCEPT !.stale = FALSE, !.dirty = FALSE]

DisableSharedCache == [cleanAndInvalidateSharedCache(l2) EXCEPT !.on = FALSE]

(* What the boot ROM left on goes off, the shared cache first.             *)
DisableEarlyCaches ==
    /\ At(Primary, "quiet")
    /\ Advance(Primary)
    /\ l2' = IF EarlyPL310 THEN DisableSharedCache ELSE l2
    /\ startup' = [startup EXCEPT ![Primary] =
           IF EarlyL1
           THEN asm_disable_instruction_cache(asm_disable_unified_cache(asm_clean_data_caches(@)))
           ELSE @]
    /\ UNCHANGED <<vars, board, firmware, ready, cpus>>

(* The snoop control unit is switched off, opened for all cores,           *)
(* invalidated and switched on; then this core takes part (SMP bit).       *)
EnableSCU == Step(Primary, "scu", enableSMPMode(startup[Primary]), {"scu"})

EnableFPU == Step(Primary, "fpu", Switch(startup[Primary], {"fpu"}), {})

ClearBss == Step(Primary, "bss", startup[Primary], {"bss"})

CallConstructors == Step(Primary, "constructors", startup[Primary], {"objects"})

(* fillLinear: the address goes to global_pagetable_address, where the     *)
(* start-up code of the other cores finds it.                              *)
FillPageTable == Step(Primary, "table", startup[Primary], {"table"})

(* setMemoryMap: devices are not cacheable.                                *)
SetMemoryMap == Step(Primary, "regions", startup[Primary], {"regions"})

setVBAR(c) == Step(c, "vectors", Switch(startup[c], {"vectors"}), {})

activateMMU(c) == Step(c, "mmu", Switch(startup[c], {"mmu"}), {})

(* enableGlobal, enableCycleCount *)
EnableCycleCount(c) == Step(c, "cycles", Switch(startup[c], {"cycles"}), {})

EnableL1(c) == Step(c, "l1", enableL1Caches(startup[c]), {})

EnableSMP(c) == Step(c, "smp", enableSMPMode(startup[c]), {})

EnablePrefetching(c) == Step(c, "prefetch", enablePrefetching(startup[c]), {})

invalidateSharedCache(shared) == [shared EXCEPT !.stale = FALSE, !.dirty = FALSE]

(* setEnabled(true) *)
EnableSharedCache ==
    /\ At(Primary, "l2")
    /\ Advance(Primary)
    /\ l2' = [invalidateSharedCache(l2) EXCEPT !.on = TRUE]
    /\ UNCHANGED <<vars, board, firmware, startup, ready, cpus>>

(* preloadCriticalData, which module CacheManagement details               *)
PreloadCritical == Step(Primary, "critical", startup[Primary], {"critical"})

(* init, coreInterfaceInit, setDistributorControl, setCoreControl          *)
InitGIC == Step(Primary, "gic", Switch(startup[Primary], {"controller"}), {"distributor"})

(* init_soc of each board *)
init_imx6 == board = "imx6" /\ Step(Primary, "soc", startup[Primary], {"uart", "gpio", "timer"})
init_exynos4412 ==
    board = "exynos4412" /\ Step(Primary, "soc", startup[Primary], {"uart", "timer"})
init_omap4460 == board = "omap4460" /\ Step(Primary, "soc", startup[Primary], {"uart", "timer"})

----------------------------------------------------------------------------
(* ARM: the secondary cores                                                *)

(* startup_core: the address _secondary_boot, then power or reset.  The    *)
(* i.MX6 resets the core asked for; the others have registers (S5P_ARM_    *)
(* CORE1_*, AUX_CORE_BOOT) for core 1 alone, so that on the Exynos the     *)
(* cores from 2 stay without power.                                        *)
startup_core_imx6(r, c) == IF c \in 1 .. 3 THEN Switch(r, {"entry"}) ELSE r
startup_core_exynos4412(r, c) == IF c = 1 THEN Switch(r, {"entry"}) ELSE r
startup_core_omap4460(r, c) == IF c = 1 THEN Switch(r, {"entry"}) ELSE r

SetSecondaryStacks(c) ==
    Step(c, "stacks", [startup[c] EXCEPT !.stack = c, !.unit = @ \ {"smp"}], {})

(* The first time "to ensure the critical section is correctly mapped".    *)
FirstMMU(c) == Step(c, "firstMMU", Switch(startup[c], {"mmu"}), {})

DisableSecondaryCaches(c) ==
    Step(c, "quiet",
         IF EarlyL1
         THEN asm_disable_instruction_cache(asm_disable_unified_cache(startup[c]))
         ELSE startup[c], {})

EnableSecondaryFPU(c) == Step(c, "fpu", Switch(startup[c], {"fpu"}), {})

(* coreInterfaceInit, setCoreControl *)
EnableCoreInterface(c) == Step(c, "controller", Switch(startup[c], {"controller"}), {})

----------------------------------------------------------------------------
(* AMD64: the primary core                                                 *)

(* multiboot_entry *)
EnterMultiboot ==
    Step(Primary, "reset",
         [Switch(startup[Primary], {"segments"}) EXCEPT !.stack = StartupStack], {})

SetModes == Step(Primary, "modes", Switch(startup[Primary], {"sse", "pae"}), {})

(* setup_paging: a table that maps the memory to itself                    *)
SetupPaging == Step(Primary, "paging", Switch(startup[Primary], {"cr3"}), {})

EnterLongMode == Step(Primary, "long", Switch(startup[Primary], {"long"}), {})

(* The constructor of IDTManager fills the table and loads it.             *)
fillIDT(r) == Switch(r, {"vectors"})

(* _init *)
CallInit == Step(Primary, "constructors", fillIDT(startup[Primary]), {"objects"})

MoveStack == Step(Primary, "stacks", [startup[Primary] EXCEPT !.stack = getCPUID(Primary)], {})

(* fillLinear: the address goes to ap_pagetable.                           *)
FillX86PageTable == Step(Primary, "table", startup[Primary], {"table"})

activatePagetable(c) == Step(c, "mmu", Switch(startup[c], {"mmu"}), {})

SetRegionsCacheable == Step(Primary, "regions", startup[Primary], {"regions"})

(* The walk over the tags of the boot loader; registerExternalRSDP keeps   *)
(* a valid root pointer.                                                   *)
WalkInformation ==
    Step(Primary, "multiboot", startup[Primary],
         IF ExternalRSDPs(firmware) = <<>> THEN {} ELSE {"rsdp"})

(* The local APIC; a secondary core disables the legacy controller first.  *)
InitializeAPIC(c) == Step(c, "controller", Switch(startup[c], {"controller"}), {})

(* The registers are taken out of the caches, then all pins are masked.    *)
configureNewInstance(entry) == {"uncached", "ioapic"}

InitACPI ==
    /\ At(Primary, "acpi")
    /\ Advance(Primary)
    /\ cpus' = RegisteredCPUs(initACPI(firmware))
    /\ ready' = ready \cup UNION {configureNewInstance(e) : e \in ToSet(IOAPICs(initACPI(firmware)))}
    /\ UNCHANGED <<vars, board, firmware, startup, l2>>

(* INIT resets a core and makes it wait for STARTUP, which one that does   *)
(* not wait ignores.                                                       *)
sendIPI(r, messageType) ==
    CASE messageType = "INIT" -> [r EXCEPT !.unit = {"waiting"}, !.stack = NoStack]
      [] messageType = "STARTUP" ->
             IF "waiting" \in r.unit THEN [r EXCEPT !.unit = {"entry"}] ELSE r

(* The second STARTUP is sent if the first one is not known to be there.   *)
startRegisteredAP(r) == sendIPI(sendIPI(sendIPI(r, "INIT"), "STARTUP"), "STARTUP")

InitializeTimer == Step(Primary, "timer", startup[Primary], {"timer"})

relocateStartupCode == Step(Primary, "relocate", startup[Primary], {"trampoline"})

(* Keyboard and UART take interrupts, the console starts.                  *)
InitDevices == Step(Primary, "devices", startup[Primary], {"uart", "keyboard"})

----------------------------------------------------------------------------
(* AMD64: the secondary cores                                              *)

(* startup_ap_start, in the copy of the code below one megabyte            *)
RunTrampoline(c) == Step(c, "trampoline", Switch(startup[c], {"protected"}), {})

(* init_longmode_ap: all of them on the one stack of the start-up code     *)
EnterAP(c) ==
    Step(c, "reset", [Switch(startup[c], {"segments"}) EXCEPT !.stack = StartupStack], {})

SetModesAP(c) == Step(c, "modes", Switch(startup[c], {"sse", "pae"}), {})

LoadPageTableAP(c) == Step(c, "paging", Switch(startup[c], {"cr3"}), {})

EnterLongModeAP(c) == Step(c, "long", Switch(startup[c], {"long"}), {})

MoveStackAP(c) == Step(c, "stacks", [startup[c] EXCEPT !.stack = getCPUID(c)], {})

loadIDT(c) == Step(c, "vectors", Switch(startup[c], {"vectors"}), {})

----------------------------------------------------------------------------
(* The steps of module Boot                                                *)

BootStep(c, step) ==
    /\ At(c, step)
    /\ Advance(c)
    /\ UNCHANGED <<x86, cores, board, firmware, startup, l2, ready, cpus>>

(* startup_core and, on AMD64, the interrupts that start a core            *)
StartedCore(r) ==
    CASE board = "imx6" -> startup_core_imx6(r, core)
      [] board = "exynos4412" -> startup_core_exynos4412(r, core)
      [] board = "omap4460" -> startup_core_omap4460(r, core)
      [] board = "x86" -> startRegisteredAP(r)

StartStep ==
    /\ At(Primary, "startCores")
    /\ StartCore("entry" \in StartedCore(startup[core]).unit)
    /\ startup' = [startup EXCEPT ![core] = StartedCore(@)]
    /\ UNCHANGED <<x86, cores, board, firmware, done, l2, ready, cpus>>

AwaitStep ==
    /\ At(Primary, "startCores")
    /\ AwaitCore
    /\ UNCHANGED <<x86, cores, startupVars>>

ARMPrimaryStep ==
    \/ SetStacks \/ DisableEarlyCaches \/ EnableSCU \/ EnableFPU \/ ClearBss
    \/ CallConstructors \/ FillPageTable \/ SetMemoryMap \/ setVBAR(Primary)
    \/ activateMMU(Primary) \/ EnableCycleCount(Primary) \/ EnableL1(Primary)
    \/ EnableSMP(Primary) \/ EnablePrefetching(Primary) \/ EnableSharedCache
    \/ PreloadCritical \/ InitGIC \/ init_imx6 \/ init_exynos4412 \/ init_omap4460

X86PrimaryStep ==
    \/ EnterMultiboot \/ SetModes \/ SetupPaging \/ EnterLongMode \/ CallInit
    \/ MoveStack \/ FillX86PageTable \/ activatePagetable(Primary)
    \/ SetRegionsCacheable \/ WalkInformation \/ InitializeAPIC(Primary) \/ InitACPI
    \/ InitializeTimer \/ PreloadCritical \/ relocateStartupCode \/ InitDevices

StartPrimary ==
    \/ ~x86 /\ ARMPrimaryStep
    \/ x86 /\ X86PrimaryStep
    \/ BootStep(Primary, "enter") /\ EnterPrimary
    \/ StartStep
    \/ AwaitStep
    \/ BootStep(Primary, "startCores") /\ AllStarted
    \/ BootStep(Primary, "finish") /\ FinishBoot

ARMSecondaryStep(c) ==
    \/ SetSecondaryStacks(c) \/ FirstMMU(c) \/ DisableSecondaryCaches(c)
    \/ EnableSecondaryFPU(c) \/ EnableSMP(c) \/ EnablePrefetching(c) \/ EnableL1(c)
    \/ activateMMU(c) \/ EnableCycleCount(c) \/ setVBAR(c) \/ EnableCoreInterface(c)

X86SecondaryStep(c) ==
    \/ RunTrampoline(c) \/ EnterAP(c) \/ SetModesAP(c) \/ LoadPageTableAP(c)
    \/ EnterLongModeAP(c) \/ MoveStackAP(c) \/ activatePagetable(c)
    \/ InitializeAPIC(c) \/ loadIDT(c)

StartSecondary(c) ==
    \/ ~x86 /\ ARMSecondaryStep(c)
    \/ x86 /\ X86SecondaryStep(c)
    \/ BootStep(c, "enter") /\ EnterSecondary(c)
    \/ BootStep(c, "confirm") /\ ConfirmStartup(c)
    \/ /\ WriteHoldingPen(c) \/ LeaveHoldingPen(c) \/ EnterSleep(c) \/ WakeUp(c)
       /\ UNCHANGED <<x86, cores, startupVars>>

LoopStep(c) == Loop(c) /\ UNCHANGED startupVars

StartupNext ==
    \/ StartPrimary
    \/ \E c \in CPU : LoopStep(c)
    \/ \E c \in Secondary : StartSecondary(c)

StartupSpec == StartupInit /\ [][StartupNext]_allVars

(* Every core that has been started keeps executing. *)
FairStartup ==
    /\ StartupSpec
    /\ WF_allVars(StartPrimary)
    /\ \A c \in CPU : WF_allVars(LoopStep(c))
    /\ \A c \in Secondary : WF_allVars(StartSecondary(c))

----------------------------------------------------------------------------
(* What the next step of a core relies on.                                 *)
Prepared(c) ==
    LET r == startup[c]
        step == NextStep(c)
        Has(units) == units \subseteq r.unit
    IN /\ step \in {"scu", "bss"} =>
              r.dirty = {} /\ ~l2.dirty /\ ~Has({"dcache"})
       /\ step = "constructors" => IF x86 THEN Has({"sse", "long"}) ELSE "bss" \in ready
       /\ step = "enter" =>
              /\ "objects" \in ready /\ r.stack = c
              /\ Has(IF x86 THEN {"sse", "long"} ELSE IF c = Primary THEN {"fpu"} ELSE {"fpu", "mmu"})
       /\ step \in {"regions", "firstMMU", "mmu"} => "table" \in ready
       /\ step = "paging" /\ c # Primary => "table" \in ready
       /\ step = "l1" => Has({"mmu", "smp"}) /\ ~Has({"dcache"})
       /\ step = "l2" => ~l2.on /\ ~l2.dirty
       /\ step = "critical" => "regions" \in ready /\ (~x86 => l2.on /\ Has({"dcache"}))
       /\ step = "startCores" =>
              /\ "table" \in ready
              /\ IF x86 THEN "trampoline" \in ready /\ cpus = firmware.cores /\ Has({"controller"})
                 ELSE "scu" \in ready
       /\ step \in {"soc", "devices"} =>
              Has({"controller"}) /\ (IF x86 THEN {"uncached", "ioapic"} ELSE {"distributor"}) \subseteq ready
       /\ step \in {"trampoline", "firstMMU"} => Has({"entry"})
       /\ step = "confirm" =>
              Has({"mmu", "vectors", "controller"} \cup IF x86 THEN {} ELSE {"smp", "dcache"})

(* The order of the start-up code, within a core and between the cores: a  *)
(* core has what its next step relies on, no data cache is on with lines   *)
(* from before its reset, no two cores run on one stack (on AMD64 all      *)
(* secondary cores begin on the same), and a core that takes interrupts    *)
(* has its vectors and its controller ("It is critical that everything     *)
(* for interrupt handling is setup correctly here").                       *)
StartsPrepared ==
    /\ \A c \in CPU : pc[c] # "off" =>
           /\ Prepared(c)
           /\ "dcache" \in startup[c].unit => startup[c].stale = {}
           /\ ~masked[c] => {"vectors", "controller"} \subseteq startup[c].unit
    /\ l2.on => ~l2.stale
    /\ \A c, d \in CPU : startup[c].stack = startup[d].stack => c = d \/ startup[c].stack = NoStack

(* The four cores of the Exynos never all come up.                         *)
Incomplete == board = "exynos4412" /\ cores > 2

(* Every core that the build brings up comes to wait for events in the     *)
(* end: no handshake value is overwritten before it is seen, and no SEV    *)
(* comes too early.  The exception is named: when startup_core of the      *)
(* Exynos is asked for core 2, which it does not power, the primary core   *)
(* waits for it in waitForSecondary forever, and core 1 sleeps in the      *)
(* holding pen.                                                            *)
AllCoresDispatch ==
    /\ \A c \in CPU : <>(c \in {Primary} \cup Started /\ ~Incomplete => pc[c] = "waiting")
    /\ <>[](Incomplete => pc[Primary] = "await" /\ core = 2 /\ pc[1] = "sleep")

=============================================================================
