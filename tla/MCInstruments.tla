---------------------------- MODULE MCInstruments ----------------------------
(***************************************************************************)
(* The instruments that run on their own: the observers of MemoryTrace, a  *)
(* most general caller of PageTables, the probes of JitProbe and NXHAL of  *)
(* HalTables.  tool says which of them this machine was started with.      *)
(***************************************************************************)
EXTENDS MemoryTrace, JitProbe, HalTables

VARIABLE tool

allVars == <<tool, traceVars, jitVars, halVars>>

-----------------------------------------------------------------------------
(* Requests: three instruction addresses, one of them watched, a failing   *)
(* fetch, loads on both sides of the threshold, a store.                   *)

MCFetch(a, r) == [op |-> "FETCH", pc |-> a, address |-> a, value |-> 0, result |-> r]
MCAccess(o, p, a, r) == [op |-> o, pc |-> p, address |-> a, value |-> a, result |-> r]
MCRequests ==
    {MCFetch(0, "OK"), MCFetch(4, "OK"), MCFetch(8, "OK"), MCFetch(4, "FAULT"),
     MCAccess("LOAD", 4, 0, "OK"), MCAccess("LOAD", 4, 8, "OK"), MCAccess("LOAD", 4, 8, "FAULT"),
     MCAccess("STORE", 4, 8, "OK")}

-----------------------------------------------------------------------------
(* Addresses: the pages of the probes, and pages that part at every level. *)

MCProbePages ==
    {VirtualPage(l, a) : l \in {3, 4}, a \in {h + k * GranuleBytes : h \in {0, Upper}, k \in 0..5}}
MCFourLevels == {<<0, 0, 0, 0>>, <<0, 0, 0, 1>>, <<0, 0, 1, 0>>, <<0, 1, 0, 0>>}
MCThreeLevels == {<<0, 0, 0>>, <<0, 0, 1>>, <<0, 1, 0>>}
MCCallerPages ==
    [root : {0}, path : MCFourLevels \cup MCThreeLevels] \cup {[root |-> 1, path |-> <<0, 0, 0>>]}
MCAddresses == MCProbePages \cup MCCallerPages
MCLeaves == [pa : {0, 1, 2, 3, 4, 9, 99}, flags : SUBSET {"AF", "EL0", "RO", "ATTR", "PXN"}]
MCCall(a, l, p) == [va |-> a, leaf |-> l, choice |-> 1, parent |-> p, xn |-> p]
MCFirst == {a \in MCCallerPages : a.root = 0 /\ Range(a.path) = {0}}
MCCalls ==
    {MCCall(a, LeafAt(4), {}) : a \in MCCallerPages}
      \cup {MCCall(a, NoLeaf, {}) : a \in MCFirst}
      \cup {MCCall(a, LeafAt(4), {"RO"}) : a \in MCFirst}

-----------------------------------------------------------------------------
(* Firmware: a sound one, and ones that differ in what run looks at.  The  *)
(* pages 2 to 4 hold ACPI memory; FACP has the largest length and crosses  *)
(* a page, HPET's length reaches beyond the ACPI memory.                   *)

MCTable(sig, len, entries) == [sig |-> sig, len |-> len, sum |-> TRUE, entries |-> entries]
MCTables ==
    (320 :> MCTable("XSDT", 52, <<440, 548>>)) @@ (384 :> MCTable("RSDT", 44, <<440, 548>>))
      @@ (440 :> MCTable("FACP", 100, <<>>)) @@ (548 :> MCTable("APIC", 36, <<>>))
      @@ (600 :> MCTable("HPET", 60, <<>>))
MCOther == {[type |-> "MMIO", start |-> 128, pages |-> 1],
            [type |-> "MMIO", start |-> 1920, pages |-> 1]}
MCAcpi(t, a, n) == [type |-> t, start |-> a, pages |-> n]
MCWhole == MCOther \cup {MCAcpi("ACPI_RECLAIM", 256, 3)}
MCSplit == MCOther \cup {MCAcpi("ACPI_RECLAIM", 256, 2), MCAcpi("ACPI_NON_VOLATILE", 512, 1)}
MCShort == MCOther \cup {MCAcpi("ACPI_NON_VOLATILE", 256, 2), MCAcpi("RESERVED", 512, 1)}
MCMaps == {{MCWhole}, {MCSplit}, {MCShort, MCWhole}, {NoMap, MCWhole, MCSplit, MCShort}}

MCSound ==
    [config |-> <<[guid |-> "OTHER", table |-> 900], [guid |-> "ACPI", table |-> 0],
                  [guid |-> "ACPI2", table |-> 256]>>,
     rsdp |-> [sig |-> "RSD PTR ", sum20 |-> TRUE, rev |-> 2, rsdt |-> 384, xsdt |-> 320,
               len |-> 36, sum |-> TRUE],
     tables |-> MCTables,
     pci |-> {[dev |-> 0, func |-> 0], [dev |-> 1, func |-> 1], [dev |-> 2, func |-> 0]},
     maps |-> {MCWhole}]

MCContents ==
    {MCSound,
     [MCSound EXCEPT !.config = <<>>],
     [MCSound EXCEPT !.config = <<[guid |-> "ACPI2", table |-> 0], [guid |-> "OTHER", table |-> 0]>>],
     [MCSound EXCEPT !.config = <<[guid |-> "ACPI", table |-> 900]>>],
     [MCSound EXCEPT !.rsdp.sig = "........"],
     [MCSound EXCEPT !.rsdp.sum20 = FALSE],
     [MCSound EXCEPT !.rsdp.sum = FALSE],
     [MCSound EXCEPT !.rsdp.rev = 0],
     [MCSound EXCEPT !.rsdp.rev = 0, !.rsdp.rsdt = 0],
     [MCSound EXCEPT !.rsdp.rsdt = 320, !.rsdp.xsdt = 0],
     [MCSound EXCEPT !.rsdp.xsdt = LowMemory + 4],
     [MCSound EXCEPT !.tables[320].sum = FALSE]}
      \cup {[MCSound EXCEPT !.rsdp.len = n] : n \in {35, 64, 65}}
      \cup {[MCSound EXCEPT !.tables[320].len = n] : n \in {35, 36, 50, 60, 65}}
      \cup {[MCSound EXCEPT !.tables[320].entries = <<a, 440>>] : a \in {0, 600, 620, LowMemory + 4}}
      \cup {[MCSound EXCEPT !.tables[440].len = n] : n \in {0, 101}}

MCFirmwares == {[f EXCEPT !.maps = m] : f \in MCContents, m \in MCMaps}

-----------------------------------------------------------------------------

MCInit == /\ tool \in {"trace", "tables", "jit", "hal"}
          /\ TraceInit
          /\ \/ tool = "jit" /\ JitInit
             \/ /\ tool # "jit" /\ variant = "correct" /\ probe = "NXMMU"
                /\ number = 1 /\ ram = <<>> /\ guest = GuestStart(job)
                /\ (tool = "tables" /\ CallerInit) \/ (tool # "tables" /\ TablesInit(4, 2))
                /\ phase = "start" /\ call = 1 /\ held = 0
                /\ ledger = [stamp |-> 0, bound |-> 0]
                /\ code = "writable" /\ refusal = "none" /\ outcome = "running"
          /\ HalInit /\ (tool # "hal" => bios = MCSound)

MCNext ==
    \/ tool = "trace" /\ TraceNext /\ UNCHANGED <<tool, jitVars, halVars>>
    \/ tool = "tables" /\ CallerNext /\ UNCHANGED <<tool, traceVars, guestVars, probeVars, halVars>>
    \/ tool = "jit" /\ JitNext /\ UNCHANGED <<tool, traceVars, halVars>>
    \/ tool = "hal" /\ HalNext /\ UNCHANGED <<tool, traceVars, jitVars>>
    \/ phase = "end" /\ UNCHANGED allVars
    \/ halStep = "halt" /\ UNCHANGED allVars

MCSpec == MCInit /\ [][MCNext]_allVars
=============================================================================
