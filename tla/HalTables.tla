------------------------------ MODULE HalTables ------------------------------
(***************************************************************************)
(* NXHAL (hal_tables.rs): checks its own read guard, finds the RSDP in the *)
(* configuration table, reads the root table and every table it lists,     *)
(* reports their bytes, scans PCI bus 0 and stops the machine.             *)
(*                                                                         *)
(* Every read asks the firmware for the memory map of that moment, one of  *)
(* bios.maps.  What the memory holds does not change.  A table is its      *)
(* signature, its length field, whether the bytes of that length sum to 0, *)
(* and, for a root, its entries.  A failing heap allocation is a panic of  *)
(* the loader's allocator and is left out.                                 *)
(***************************************************************************)
EXTENDS Integers, Sequences, FiniteSets

CONSTANTS
    Firmwares,      \* [config, rsdp, tables, pci, maps]
    NoMap,          \* the answer where the memory map call fails
    PageBytes,      \* 4096
    MaxTables,      \* MAX_TABLES = 32
    MaxTableBytes,  \* MAX_TABLE_BYTES = 16 KiB
    MaxXsdtBytes,   \* MAX_XSDT_BYTES = 4096
    MaxConfig,      \* 256
    LowMemory,      \* 2^32, the end of what the instrument supports
    AddressEnd,     \* 2^64
    Devices,        \* 32
    Functions       \* 8

ASSUME HalAssumption ==
    /\ {PageBytes, MaxTables, MaxConfig, Devices, Functions} \subseteq Nat \ {0}
    /\ {MaxXsdtBytes, MaxTableBytes, LowMemory, AddressEnd} \subseteq Nat
    /\ 64 <= MaxXsdtBytes /\ MaxXsdtBytes <= MaxTableBytes
    /\ MaxTableBytes + 1 < LowMemory /\ LowMemory < AddressEnd
    /\ Devices <= 32 /\ Functions <= 8

\* Every field is an unsigned number; a root has the entries its length field
\* leaves room for, as far as run reads them.
ASSUME FirmwareAssumption ==
    \A f \in Firmwares :
        /\ f.config \in Seq([guid : STRING, table : Nat])
        /\ {f.rsdp.rsdt, f.rsdp.xsdt, f.rsdp.len} \subseteq Nat
        /\ IsFiniteSet(f.pci) /\ f.pci \subseteq [dev : 0..(Devices - 1), func : 0..(Functions - 1)]
        /\ \A m \in f.maps \ {NoMap} : \A d \in m : {d.start, d.pages} \subseteq Nat
        /\ \A a \in DOMAIN f.tables :
              /\ f.tables[a].len \in Nat /\ f.tables[a].entries \in Seq(Nat)
              /\ \A i \in 1..MaxTables :
                    \/ f.tables[a].sig = "XSDT" /\ 36 + 8 * i <= f.tables[a].len
                    \/ f.tables[a].sig = "RSDT" /\ 36 + 4 * i <= f.tables[a].len
                    => i \in DOMAIN f.tables[a].entries

VARIABLES
    bios,       \* the firmware
    halStep,    \* where run is
    guard,      \* the guard test it makes next
    lastRead,   \* the last phys_copy: its range, the map it saw, its result
    report,     \* what was reported: [kind, addr, len]
    nextEntry,  \* the root's entry it reads next
    nextSlot,   \* the PCI function it reads next
    pciFound,   \* the PCI functions it has reported
    exitCode    \* what efi_main ends with

halVars == <<bios, halStep, guard, lastRead, report, nextEntry, nextSlot, pciFound, exitCode>>

-----------------------------------------------------------------------------
(* phys_copy                                                               *)

\* Mutant: the start of the range is looked up, not all of it.
InsideStart(d, phys, end) == phys >= d.start /\ phys < d.start + d.pages * PageBytes

\* The complete range is in this descriptor, whose own end does not overflow.
Inside(d, phys, end) ==
    /\ d.start + d.pages * PageBytes < AddressEnd
    /\ phys >= d.start /\ end <= d.start + d.pages * PageBytes

Covered(map, phys, end) ==
    \E d \in map : d.type \in {"ACPI_RECLAIM", "ACPI_NON_VOLATILE"} /\ Inside(d, phys, end)

PhysCopy(phys, len, map) ==
    IF phys = 0 THEN "NOT_FOUND"
    ELSE IF len = 0 \/ len > MaxTableBytes THEN "BAD_BUFFER_SIZE"
    ELSE IF phys + len >= AddressEnd \/ phys + len > LowMemory THEN "INVALID_PARAMETER"
    ELSE IF map = NoMap THEN "OUT_OF_RESOURCES"
    ELSE IF ~Covered(map, phys, phys + len) THEN "ACCESS_DENIED"
    ELSE "OK"

\* One call; the map is the firmware's at this moment.
Reads(phys, len) ==
    lastRead' \in {[phys |-> phys, len |-> len, map |-> m, status |-> PhysCopy(phys, len, m)] :
                     m \in bios.maps}

-----------------------------------------------------------------------------
(* run                                                                     *)

Go(s) == halStep' = s /\ UNCHANGED exitCode
Exit(s) == halStep' = "halt" /\ exitCode' = s

\* `?` on a read, then the rest of the step.
Then(next) == IF lastRead'.status = "OK" THEN next ELSE Exit(lastRead'.status)

Blank == [sig |-> "....", len |-> 0, sum |-> FALSE, entries |-> <<>>]
TableAt(a) == IF a \in DOMAIN bios.tables THEN bios.tables[a] ELSE Blank

HalInit ==
    /\ bios \in Firmwares
    /\ halStep = "start" /\ guard = 1
    /\ lastRead = [phys |-> 0, len |-> 0, map |-> NoMap, status |-> "none"]
    /\ report = <<>> /\ nextEntry = 1 /\ nextSlot = 0 /\ pciFound = <<>> /\ exitCode = "none"

\* helpers::init().expect(..).
StartHal ==
    /\ halStep = "start"
    /\ Go("guards") \/ Exit("panic")
    /\ UNCHANGED <<bios, guard, lastRead, report, nextEntry, nextSlot, pciFound>>

\* The five calls that must be refused, each with its status; 0xb8000 is
\* the address of the text screen.
Screen == PageBytes
GuardTests ==
    <<[phys |-> 0, len |-> 36, expected |-> "NOT_FOUND"],
      [phys |-> AddressEnd - 1, len |-> 36, expected |-> "INVALID_PARAMETER"],
      [phys |-> LowMemory - 1, len |-> 36, expected |-> "INVALID_PARAMETER"],
      [phys |-> Screen, len |-> 36, expected |-> "ACCESS_DENIED"],
      [phys |-> Screen, len |-> MaxTableBytes + 1, expected |-> "BAD_BUFFER_SIZE"]>>

TestGuard ==
    /\ halStep = "guards"
    /\ Reads(GuardTests[guard].phys, GuardTests[guard].len)
    /\ IF lastRead'.status # GuardTests[guard].expected THEN Exit("COMPROMISED_DATA")
       ELSE Go(IF guard = Len(GuardTests) THEN "config" ELSE "guards")
    /\ guard' = IF guard < Len(GuardTests) THEN guard + 1 ELSE guard
    /\ UNCHANGED <<bios, report, nextEntry, nextSlot, pciFound>>

\* The address in the last configuration entry of this kind, or 0.
Vendor(guid) ==
    LET of == {i \in DOMAIN bios.config : bios.config[i].guid = guid}
    IN  IF of = {} THEN 0
        ELSE bios.config[CHOOSE i \in of : \A j \in of : j <= i].table

RsdpAddress == IF Vendor("ACPI2") # 0 THEN Vendor("ACPI2") ELSE Vendor("ACPI")

\* find_rsdp up to the first read.
FindRsdp ==
    /\ halStep = "config"
    /\ IF Len(bios.config) \notin 1..MaxConfig \/ RsdpAddress = 0 THEN Exit("NOT_FOUND")
       ELSE Go("head")
    /\ UNCHANGED <<bios, guard, lastRead, report, nextEntry, nextSlot, pciFound>>

\* The first 20 bytes: signature, checksum, revision.
ReadHead ==
    /\ halStep = "head"
    /\ Reads(RsdpAddress, 20)
    /\ Then(IF bios.rsdp.sig # "RSD PTR " \/ ~bios.rsdp.sum20 THEN Exit("LOAD_ERROR")
            ELSE Go(IF bios.rsdp.rev < 2 THEN "dump" ELSE "extended"))
    /\ UNCHANGED <<bios, guard, report, nextEntry, nextSlot, pciFound>>

\* The length of a revision 2 RSDP.
ReadExtended ==
    /\ halStep = "extended"
    /\ Reads(RsdpAddress, 36)
    /\ Then(IF bios.rsdp.len \notin 36..64 THEN Exit("LOAD_ERROR") ELSE Go("full"))
    /\ UNCHANGED <<bios, guard, report, nextEntry, nextSlot, pciFound>>

ReadFull ==
    /\ halStep = "full"
    /\ Reads(RsdpAddress, bios.rsdp.len)
    /\ Then(IF ~bios.rsdp.sum THEN Exit("LOAD_ERROR") ELSE Go("dump"))
    /\ UNCHANGED <<bios, guard, report, nextEntry, nextSlot, pciFound>>

\* What find_rsdp returns.
RsdpLength == IF bios.rsdp.rev < 2 THEN 20 ELSE bios.rsdp.len
Xsdt == IF bios.rsdp.rev < 2 THEN 0 ELSE bios.rsdp.xsdt
RootAddress == IF Xsdt # 0 THEN Xsdt ELSE bios.rsdp.rsdt
Root == TableAt(RootAddress)

Line(kind, addr, len) == [kind |-> kind, addr |-> addr, len |-> len]

DumpRsdp ==
    /\ halStep = "dump"
    /\ Reads(RsdpAddress, RsdpLength)
    /\ Then(IF RootAddress = 0 THEN Exit("NOT_FOUND") ELSE Go("root"))
    /\ report' = IF lastRead'.status = "OK"
                 THEN Append(report, Line("TABLE", RsdpAddress, RsdpLength)) ELSE report
    /\ UNCHANGED <<bios, guard, nextEntry, nextSlot, pciFound>>

\* The root's header: its length, then its signature, which must be the one
\* the RSDP promises.
ReadRoot ==
    /\ halStep = "root"
    /\ Reads(RootAddress, 36)
    /\ Then(IF \/ Root.len \notin 36..MaxXsdtBytes
               \/ Root.sig # (IF Xsdt # 0 THEN "XSDT" ELSE "RSDT")
            THEN Exit("LOAD_ERROR") ELSE Go("body"))
    /\ UNCHANGED <<bios, guard, report, nextEntry, nextSlot, pciFound>>

EntrySize == IF Root.sig = "XSDT" THEN 8 ELSE 4
Count == (Root.len - 36) \div EntrySize

\* The whole root is reported before its entries are counted.
ReadBody ==
    /\ halStep = "body"
    /\ Reads(RootAddress, Root.len)
    /\ Then(IF ~Root.sum THEN Exit("CRC_ERROR")
            ELSE IF (Root.len - 36) % EntrySize # 0 \/ Count \notin 1..MaxTables
            THEN Exit("BAD_BUFFER_SIZE") ELSE Go("header"))
    /\ report' = IF lastRead'.status = "OK" /\ Root.sum
                 THEN Append(report, Line("TABLE", RootAddress, Root.len)) ELSE report
    /\ UNCHANGED <<bios, guard, nextEntry, nextSlot, pciFound>>

EntryAddress == Root.entries[nextEntry]

\* continue, or the end of the loop.
EntryDone(kind, len) ==
    /\ report' = Append(report, Line(kind, EntryAddress, len))
    /\ nextEntry' = nextEntry + 1
    /\ Go(IF nextEntry = Count THEN "pci" ELSE "header")

\* Mutant: a table of exactly the largest length is left out.
LengthCappedEarly(len) == len < 36 \/ len >= MaxTableBytes

LengthCapped(len) == len < 36 \/ len > MaxTableBytes

\* An entry's header, and what its length field allows.
ReadHeader ==
    /\ halStep = "header"
    /\ \/ /\ EntryAddress = 0
          /\ Exit("COMPROMISED_DATA") /\ UNCHANGED <<lastRead, report, nextEntry>>
       \/ /\ EntryAddress # 0
          /\ Reads(EntryAddress, 36)
          /\ IF lastRead'.status # "OK" THEN EntryDone("HDR_READ", 0)
             ELSE IF LengthCapped(TableAt(EntryAddress).len) THEN EntryDone("LEN_CAP", 0)
             ELSE Go("table") /\ UNCHANGED <<report, nextEntry>>
    /\ UNCHANGED <<bios, guard, nextSlot, pciFound>>

\* The table itself; one that can no longer be read is skipped, too.
ReadTable ==
    /\ halStep = "table"
    /\ Reads(EntryAddress, TableAt(EntryAddress).len)
    /\ IF lastRead'.status = "OK" THEN EntryDone("TABLE", TableAt(EntryAddress).len)
       ELSE EntryDone("BODY_READ", 0)
    /\ UNCHANGED <<bios, guard, nextSlot, pciFound>>

-----------------------------------------------------------------------------
(* PCI bus 0                                                               *)

Slot == [dev |-> nextSlot \div Functions, func |-> nextSlot % Functions]

\* The word written to CF8, without its enable bit; the bus is 0.
ConfigAddress(dev, func, off) == dev * 2048 + func * 256 + (off - (off % 4))

\* The host bridge (external): the function a configuration address selects.
Selected(a) == [dev |-> (a \div 2048) % 32, func |-> (a \div 256) % 8]
Present(a) == Selected(a) \in bios.pci

\* One turn of dump_pci_bus0: the vendor of the function, and its header
\* when there is one.
ScanFunction ==
    /\ halStep = "pci"
    /\ LET d0 == ConfigAddress(Slot.dev, Slot.func, 0)
       IN  pciFound' = IF Present(d0) THEN Append(pciFound, Selected(d0)) ELSE pciFound
    /\ nextSlot' = nextSlot + 1
    /\ IF nextSlot + 1 < Devices * Functions THEN Go("pci") ELSE Exit("DONE")
    /\ UNCHANGED <<bios, guard, lastRead, report, nextEntry>>

HalNext ==
    \/ StartHal \/ TestGuard \/ FindRsdp \/ ReadHead \/ ReadExtended \/ ReadFull \/ DumpRsdp
    \/ ReadRoot \/ ReadBody \/ ReadHeader \/ ReadTable \/ ScanFunction

HalSpec == HalInit /\ [][HalNext]_halVars

-----------------------------------------------------------------------------
(* Properties                                                              *)

HalTypeOK ==
    /\ bios \in Firmwares
    /\ guard \in 1..Len(GuardTests)
    /\ lastRead.map \in bios.maps \cup {NoMap}
    /\ nextEntry \in 1..(MaxTables + 1) /\ nextSlot \in 0..(Devices * Functions)
    /\ (halStep = "halt") = (exitCode # "none")

\* Whatever the tables say about themselves, every byte that was copied was
\* ACPI memory of the map of that moment, is below 4 GiB and is at most one
\* table's worth (phys_copy, the comment of MAX_TABLE_BYTES).
ReadIsAcpi ==
    lastRead.status = "OK" =>
        /\ lastRead.len \in 1..MaxTableBytes
        /\ \A a \in lastRead.phys..(lastRead.phys + lastRead.len - 1) :
              /\ a \in 1..(LowMemory - 1)
              /\ \E d \in lastRead.map :
                    /\ d.type \in {"ACPI_RECLAIM", "ACPI_NON_VOLATILE"}
                    /\ a \in d.start..(d.start + d.pages * PageBytes - 1)

\* The tables of the firmware that the ACPI specification calls well-formed
\* and that every map shows as ACPI memory.
Readable(a, n) == \A m \in bios.maps : PhysCopy(a, n, m) = "OK"
WellFormed(a) == LET t == TableAt(a) IN t.len \in 36..MaxTableBytes /\ Readable(a, t.len)

\* A run that ends with DONE has reported the RSDP and the root, then every
\* entry of the root exactly once and in order, with its whole length or as
\* skipped, and skipped none that is well-formed and readable all along; and
\* it has reported exactly the PCI functions that are there (run,
\* dump_pci_bus0).
DoneIsComplete ==
    exitCode = "DONE" =>
        /\ Len(report) = Count + 2
        /\ report[1].addr = RsdpAddress /\ report[2].addr = RootAddress
        /\ \A i \in 1..Count :
              LET line == report[i + 2]
              IN  /\ line.addr = Root.entries[i]
                  /\ line.kind = "TABLE" => line.len = TableAt(line.addr).len
                  /\ WellFormed(line.addr) => line.kind = "TABLE"
        /\ Len(pciFound) = Cardinality(bios.pci)
        /\ {pciFound[i] : i \in DOMAIN pciFound} = bios.pci
=============================================================================
