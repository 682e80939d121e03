---------------------------- MODULE MCCoreStartup ----------------------------
(* Module CoreStartup with a level-one cache of two ways and two sets in   *)
(* front of a unified second level, and four versions of the firmware.     *)
EXTENDS CoreStartup

MCDataCaches ==
    <<[type |-> 3, ways |-> 2, sets |-> 2], [type |-> 1, ways |-> 1, sets |-> 1],
      [type |-> 4, ways |-> 2, sets |-> 1]>>

Local(apicID, enabled) == [type |-> "LocalAPIC", apicID |-> apicID, enabled |-> enabled]
IOAPICEntry == [type |-> "IOAPIC"]
Override == [type |-> "Override"]

Table(signature, entries) == [signature |-> signature, entries |-> entries]
SDT(signature, tables) == [signature |-> signature, tables |-> tables]

RSDP(signature, revision, rsdt, xsdt) ==
    [signature |-> signature, revision |-> revision, rsdt |-> rsdt, xsdt |-> xsdt]

NoSDT == SDT("????", <<>>)
NoRSDP == RSDP("????????", 0, NoSDT, NoSDT)

(* Three cores: ids in order; with gaps and disabled entries between; in   *)
(* an old and a new list of tables; found by the boot loader or in one of  *)
(* the places in memory.                                                   *)
Entries == <<Local(0, TRUE), Local(1, TRUE), Local(2, TRUE), IOAPICEntry>>
Sparse ==
    <<Local(2, TRUE), Local(3, FALSE), IOAPICEntry, Local(6, TRUE), Override,
      Local(7, FALSE), Local(4, TRUE)>>

Old(entries) ==
    RSDP("RSD PTR ", 0, SDT("RSDT", <<Table("FACP", <<>>), Table("APIC", entries)>>), NoSDT)
New(entries) ==
    RSDP("RSD PTR ", 2, NoSDT, SDT("XSDT", <<Table("APIC", entries), Table("HPET", <<>>)>>))
Broken == RSDP("RSD PTR ", 2, SDT("RSDT", <<>>), SDT("RSDT", <<>>))

Tag(type, rsdp) == [type |-> type, rsdp |-> rsdp]

MCFirmware ==
    {[tags |-> <<>>, places |-> <<NoRSDP, Old(Entries)>>, cores |-> <<0, 1, 2>>],
     [tags |-> <<Tag(6, NoRSDP), Tag(14, Old(Sparse))>>, places |-> <<NoRSDP>>,
      cores |-> <<2, 6, 4>>],
     [tags |-> <<Tag(14, Broken), Tag(15, New(Sparse)), Tag(8, NoRSDP)>>,
      places |-> <<Broken, Old(Entries)>>, cores |-> <<2, 6, 4>>],
     [tags |-> <<Tag(15, Broken)>>, places |-> <<Broken, NoRSDP, New(Sparse)>>,
      cores |-> <<2, 6, 4>>]}
=============================================================================
