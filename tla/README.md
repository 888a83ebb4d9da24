# TLA+ models of NextCore EFI

NextCore EFI is a UEFI boot manager (`BOOTX64`) with a family of research
loaders around it: an APFS driver loader, x86 and ARM kernel handoffs, hosts
that trace a guest kernel, probes of the guest machine and a reader of the
platform's tables. Everything runs in one thread on top of a
firmware that may refuse, delay, truncate or change anything at any call. The
difficulty is in who owns what when a call fails half way, in what another
agent changes between two calls, and in what happens after the point of no
return. These modules model that part of the code, check it with TLC on small
instances and prove the most important invariants with TLAPS for all values
of the constants.

## The system

| Component | State | Operations | Interacts with |
|---|---|---|---|
| Boot manager (`main.rs`, `watchdog.rs`, `configuration_recovery.rs`) | parsed menu, configuration bytes read, status on the screen | `efi_main`, `read_config`, recovery screen, acknowledgment | firmware files and keyboard; calls the picker and the chainloader |
| Chainloader (`main.rs`, `exit_data.rs`) | child image, its `LoadOptions`, the options buffer, guards, `ExitData`, lease | `load_target`, `chainload`, `start_image` | LoadImage/StartImage/UnloadImage, APFS target, console control |
| Console control (`console_control.rs`) | boxed `Provider`, protocol database, log counters | `Lease::acquire`, callbacks, `Drop` | called back by the child, and from inside the serial driver it writes to |
| Picker (`picker.rs`) | GOP guard, cursor, selection, what the display shows | `choose`, `draw`, `draw_text`, `read_action` | GOP and text console share one display |
| APFS driver and target (`apfs_driver.rs`, `apfs_target.rs`) | partition found, guards, two extractions, driver and application images | `candidate`, `read_driver`, `load_driver`, `start_driver`, `load` | a medium that may change under it |
| APFS volumes (`apfs_filesystems.rs`, `apfs_observation.rs`) | candidates, open protocol and root, `Budget` | `candidates`, `observe_volume`, `select_volume`, `inspect` | file system drivers that answer anything |
| Handoff (`arm64.rs`, `kernel.rs`) | pages and their owner, the maps of the rehearsal and of the exit | `run`, `prepare`, `run_probe` | a memory map that changes until ExitBootServices |
| Map validation (`arm_pages.rs`, `loaded_kernel_collection.rs`) | loop state of the two validators | `validate_map`, `refresh`, `coverage` | the map the firmware returns |
| Memory trace (`mapped_trace.rs`, `memory_observation.rs`) | rings and windows over the guest's requests | `observed`, `execute`, reports | called by the C runner for each guest access |
| Kernel collections and page owners (`loaded_kernel_collection.rs`, `kc.rs`, `arm_pages.rs`) | pages, their pointer, the map buffer | `load`, `release`, `probe_readback_failure`, `Drop` | AllocatePages/FreePages, map validation |
| Placed kernel (`loaded_kernel.rs`, `kernel.rs`) | pages at a fixed address, the image in them | `prepare`, `load_at`, `Drop` | the x86 handoff |
| ARM JIT trace host (`arm_jit.rs`, `boot_framebuffer.rs`) | guest and code pages, protection observer, GOP, what the screen shows | `run`, `run_trace`, `run_probe`, `observed_protect`, `CurrentGop` | the C runner, which calls back; a display whose mode may change |
| Selected boot chain (`selected_*.rs`, `firmware_io.rs`) | files accepted so far, seals, payload pages | `load`, `load_payload`, `read_companion` | a partition that may hold files of several releases |
| JIT probes (`mmu_probe.rs`, `hierarchy_probe.rs`, `asid_probe.rs`, `dynamic_probe.rs`, `dt_probe.rs`) | RAM, table and code pages of a case, the tables built in them, the protection record, the tree's ledger | `main`, `run_case`, `Tables::map`, the comparison | the C runner and the memory service, lent the pages for one run |
| HAL tables (`hal_tables.rs`) | none of its own | guard tests, discovery of the tables, scan of PCI bus 0 | a memory map that may differ at every read; tables that may say anything of themselves |
| Linux handoff notes (`linux_handoff.rs`) | none | constants and a predicate | not modelled |
| Test images and fixtures (`*_probe.rs` of the loader, `test_child.rs`, `apfs_fixture.rs`) | none of the loader's | stand in for the child, the driver or the user in QEMU | not modelled |

What makes each correct: an attempt that is over holds nothing and leaves no
image with a pointer to freed memory; the user is asked before anything is
tried again; a published callback is never freed memory; a key is read only on
a menu that is visible; a driver that is started was read consistently from
the only APFS partition; every open is closed once; nothing calls the firmware
after ExitBootServices; a range that is accepted is really covered, written
only while it is owned and given back once; what a bounded trace reports is
exactly the part of the history it names; a selected guest is of one release;
page tables translate what they were asked to and nothing else; a probe passes
on a correct machine and on no machine with a defect it is there for; every
byte of a table that is read was table memory at that moment; and a result is
claimed only after everything it stands for was found.

`PROJECT.json` lists the hazards of this code line by line with the property
that would catch each.

## Modules

| Module | Models | Role |
|---|---|---|
| `EfiStatus` | status codes and `is_error` | shared |
| `Chainload` | `load_target`, `chainload`, `start_image` | the actions of one attempt |
| `BootManager` | `efi_main`, `read_config`, recovery, watchdog | extends `Chainload` into the whole boot manager |
| `BootContract` | the promises of `BOOT_FAILURE_RECOVERY.md` and `CONFIGURATION_RECOVERY.md` | abstract specification `BootManager` implements |
| `ConsoleLease` | what `Lease` promises `chainload` and what `chainload` owes it | abstract specification: `ConsoleControl` implements it as the one called, `BootManager` as the caller |
| `ConsoleControl` | the lease, its callbacks and its log | component; implements `ConsoleLease` |
| `Picker` | the menu and the display | component |
| `ApfsDriver` | driver stage and target load | component; `Chainload` uses its outcomes |
| `ApfsVolumes` | volume scan and selection | component; `ApfsDriver` uses its outcomes |
| `PageLifetime` | what every owner of firmware pages promises | abstract specification `PageOwner`, `Handoff` and `ArmJit` implement |
| `Handoff` | `run` and `run_probe` of `arm64.rs`, `prepare` and `run_probe` of `kernel.rs`, `load_at` | component |
| `MapCoverage` | `validate_map` and `coverage` | algorithm with its loop state; `Handoff` uses its verdict |
| `PageOwner` | `ArmPages` and `Pages` with `kc.rs` | extends `MapCoverage`: the owners that call it |
| `MemoryTrace` | both trace observers | component |
| `SelectedInputs` | the files NXARMJIT reads and their bindings | the first phase of `ArmJit` |
| `ArmJit` | `run`, `run_trace`, `run_probe`, the display | extends `SelectedInputs` into the whole trace host |
| `AddressSpace` | | abstract specification: a dictionary of page translations |
| `PageTables` | `Tables::map` of the probes | implements `AddressSpace`; the walk of the architecture is its refinement mapping |
| `GuestCode` | pages, instructions and builder calls | vocabulary of the cases |
| `MmuProbe`, `HierarchyProbe`, `AsidProbe`, `DynamicProbe`, `DtProbe` | the cases of one probe: what is prepared and what is expected | one module per probe |
| `Guest` | the C runner and the memory service (external) | the machine under the probes, correct or with one defect |
| `JitProbe` | `main` and `run_case` of the five probes | composes the cases, `PageTables` and `Guest` |
| `HalTables` | `hal_tables.rs` | component |
| `MCInstruments` | | the instruments that run on their own: `MemoryTrace`, `PageTables`, `JitProbe`, `HalTables` |
| `MC*` | | constants of the bounded instances |
| `BootManagerProofs`, `ConsoleControlProofs`, `PickerProofs`, `HandoffProofs`, `ArmJitProofs` | | theorems about the module of that name |
| `PageOwnerProofs` | | theorems about `MapCoverage` and `PageOwner` |
| `ApfsProofs` | | theorems about `ApfsDriver` and `ApfsVolumes` |
| `InstrumentsProofs` | | theorems about `PageTables`, `HalTables`, `MemoryTrace` and `JitProbe` |

**State and actions.** Every model has a `pc` (`scanStep` in `ApfsVolumes`,
`halStep` in `HalTables`) whose labels are the points between two firmware calls
that matter. An action is one call with all the
code up to the next: local values are dropped in the action that returns from
their function, a fallible call is one disjunct per outcome, and where two
calls follow each other without a decision they are one action. `map` in
`PROJECT.json` gives the lines of each definition. Some details:

- `Chainload` keeps one image, `LoadOptions` and options buffer per attempt,
  so that what survives a failed attempt is still there in the next.
  `refused` and `started` are history variables. `build`, the set of features
  the binary was compiled with, is chosen by `Init` and never changes.
- `BootManager` treats the picker, the parser and the keyboard by their
  outcomes; a wake-up without a key is a stutter.
- In `ConsoleControl` LocateProtocol may return any published interface, a
  foreign one may appear at any time, and a callback may be entered while an
  earlier one is still in its serial write.
- In `Picker` the display itself is state: `marked` is the entry a person sees
  marked, with the scrolling of a console that has fewer rows than were
  written. Text written while the GOP is held shows nothing.
- In `ApfsDriver` the medium holds one of two versions of the driver and is
  rewritten or exchanged between reads. Handles are examined in any order.
- `ApfsVolumes` gives every handle a path and a label by `Init`, so every
  coincidence of paths and labels is tried; `held` counts opens and closes.
  `caller` says which of the two entry points runs.
- `Handoff` covers both loaders (`source`), from the reading of the target on.
  The firmware's map changes at every point before the exit, after which only
  halting is possible. `image` is what the pages hold, `late` records any call
  that needs the firmware after the exit.
- `MapCoverage` scales the address space down; both functions are one module
  with the variable `code` choosing between their two differences, the alignment test and
  the bound of the walk.
- `PageOwner` runs `MapCoverage` step by step on whatever map the firmware
  returns at that moment: once after the allocation and, for `Pages`, once more
  after FreePages. A function that fails goes on to its owner's `Drop`.
- `MemoryTrace` keeps the whole history beside the bounded arrays, and defines
  the reports by the code's own index arithmetic. All watches are configured.
- `SelectedInputs` reduces the content of a file to the release it was prepared
  from, or `"torn"`; each read may return any content. Which record a file is
  checked against, and which of the two records is sealed into the binary, is
  the code's.
- `ArmJit` has the runner call the protect callback any number of times in any
  order up to `MaxCalls`, any call may be refused, and `screen` is what the
  display shows: the guest's frame, the loader's text, a frame drawn with the
  dimensions of another mode, or nothing after a change of mode. A change of
  mode between the test of `check_current_geometry` and the transfer leads to
  such a frame, to an error of Blt, or, where the new mode is smaller, to the
  bounds assertion of the `uefi` crate, whose panic handler ends the program with
  everything it owns (`BoundsPanic`, label `"halted"`).
- `PageTables` makes one step of `map` per level. An address is its root and
  its index at each level; a descriptor is the page it points to, its leaf and
  its restrictions. The tables are read by `LastTable` and `LeafOf`, the walk of
  the architecture, not by the code under test.
- The probe modules hold the code's tables of cases, with expectations written
  by hand as the code has them. `Guest` executes the instructions of a case on
  the tables `PageTables` has built, one instruction per step; it is what the
  probes are pointed at and is marked external. `variant` selects the
  architecture or one of twenty defects.
- `HalTables` takes a map out of `bios.maps` for each read. A table is its
  signature, its length field, the outcome of its checksum and its entries.

## Runs

| Run | Result | What it shows |
|---|---|---|
| `boot` | passes | all four builds over three attempts: no dangling options without console control, options alive while the child runs, no guard across a transfer, nothing left over, menu only from a whole file; implements `BootContract`, and `ConsoleLease` as the caller; always comes to a point where somebody else acts |
| `boot_console_options` | violation | finding 1 |
| `boot_rejected_image` | violation | finding 2 |
| `boot_apfs_warning` | violation | finding 3 |
| `console_control` | passes | a published interface is live, foreign interfaces survive, the log is bounded although it may nest; implements `ConsoleLease` as the one called |
| `picker` | passes | keys only on a visible menu, what boots was shown, console restored |
| `apfs_driver` | passes | no torn driver with two changes of the medium, the only APFS partition; over repeated runs no guard when control leaves, nothing rejected left loaded and no resident driver that did not start with success |
| `apfs_volumes` | passes | for `select_volume` and `inspect`: every open closed once, the selection is unique, and the scan returns whatever the file system answers |
| `handoff` | passes | for both loaders: silent after the exit, entered with an image that was read back and the map of the exit; implements `PageLifetime` |
| `page_owner` | passes | for both owners: what is accepted is covered exactly once by the right type; what is exactly covered is accepted, except by `validate_map` from `StepLimit` descriptors on; no overflow in the second loop; only owned and checked pages are written; done only when a later map shows the range free; implements `PageLifetime` |
| `instruments` | passes | rings and windows of the trace report exactly the tail, the head and the crossing they claim; page tables implement `AddressSpace` for the most general caller and for every case of the probes; every probe passes on a correct machine and on none with a defect it is there for or after a refusal; NXHAL reads ACPI memory only and reports all of it |
| `arm_jit` | passes | a selected guest is of one release; code pages are freed writable or the refusal is in the result; SUCCESS and ABORTED are earned; the readback sees the guest's frame and never the loader's text |

**Findings.**

1. `main.rs:170`: with `console-control`, a lease that fails after
   `set_load_options` unloads the child, ignores a refusal and frees the
   options. The surviving image keeps a dangling `LoadOptions`, which the
   other cleanup path (lines 201-207) takes care to avoid.
2. `main.rs:272`: the safe `load_image` wrapper drops the handle that LoadImage
   may return with SECURITY_VIOLATION, so the image stays loaded. `apfs_driver.rs`
   handles this case and its comment (lines 194-196) states the rule.
3. `main.rs:85`: a driver that returns a warning makes `apfs_target::load` fail
   with that warning; `is_error()` is false and the loader ends without the
   acknowledgment `BOOT_FAILURE_RECOVERY.md` line 6 requires.

A fourth disagreement has no run, since no property here depends on it:
`BOOT_FRAMEBUFFER.md` line 11 says that geometry changes "between acquisition
and transfer return `MEDIA_CHANGED`, before the typed GOP bounds assertions can be
reached". `present` and `readback` (`boot_framebuffer.rs:104`, `:118`) test the
geometry once, then allocate and convert, then call Blt; a change in between is
not seen. `ArmJit` has all outcomes of this, and `ReadbackSeesGuest` holds in
spite of them.

Each of the three is checked by a run of its own; the passing runs state what holds beside
it, and three theorems how far each goes (`DanglesOnlyUnstarted`,
`SurvivorsExplained`, `OtherFailuresAcknowledged`, below).

## Bounds

- Three attempts (`MaxAttempts`): an attempt interacts with another only
  through images left over, so two are enough and the third shows that what
  the second leaves is no worse. The theorems hold for any number. The runs of
  the findings need one attempt and the one build they are about.
- Two firmware errors in the boot manager (one of them SECURITY_VIOLATION),
  one elsewhere: the code treats all others alike.
- Configuration of at most 2 bytes: empty, at the limit, split in two reads.
- Menus of 0 to 6 entries against a limit of 5, consoles of 7 to 14 rows: the
  window is narrower than, as wide as and wider than the menu.
- Three partition handles against a limit of two; two blocks per extraction
  and two changes of the medium. With two changes a mixture cannot pass the
  comparison; an agent that rewrites the medium three times in step with the
  reads could make both extractions equal and mixed. The code's comment claims
  consistency only, and `NoTornDriver` is stated under this bound.
- Three handles against two volumes for both callers; directories against
  limits of three records in a volume and four in the scan, and a metadata
  budget that runs out in a later volume.
- Four changes of the memory map: one at each place where it could differ.
- 4-bit addresses, pages of two, up to three descriptors and one map too long:
  every gap, overlap, misalignment, empty and overflowing descriptor occurs, and
  ranges lie in fewer than and in exactly `StepLimit` descriptors; one
  of the two ranges lies above the ceiling of `Pages`.
- Six requests, rings of three and windows of two: each array wraps.
- Pages of 64 bytes, which hold every program of the probes with an access
  across a page's end; all cases of NXMMU, NXDYN, NXDT, NXASID and NXPERM, in
  the order in which `main` runs them. The control profiles NXASID and NXPERM
  repeat each case for differ in nothing the model has and are one.
- Buffers of 5, 7 and 8 pages for the most general caller of `map`: a call
  runs out of pages at each of its levels, and succeeds beside tables an earlier
  failure left. Three or four levels, addresses that part at every level.
- NXHAL: two tables, pages of 128 bytes, 4 GiB at 1024 and the top of the
  address space at 2048, three devices of two functions; each length field on
  both sides of its limit, maps that split the ACPI memory, end it early, fail
  or change between two reads.
- Two releases, since a mixture needs no third; five builds of NXARMJIT, one per
  combination of features the code treats differently; three calls of the
  runner, so that it ends writable or executable after calls that failed; one
  change of the display mode, at any point.

## Fairness

`BootManager!FairSpec` has weak fairness of the loader's own steps outside key
waits and the child: it is one thread and firmware calls return. Nothing is
assumed of the user or the child. `ApfsVolumes` has weak fairness of `Step` for
the same reason. All other checks are of safety and use no fairness. The
finding about the acknowledgment is an action property checked under
`FairSpec`, so its counterexample is no stuttering.

## Proofs

Every safety property of every passing run but the two of `JitProbe` is a
theorem, refinements included, for every value of the constants. The
assumptions are the `ASSUME`s of the modules: types and positive bounds,
disjoint status codes; for the picker,
consoles of at least `DefaultRows` rows, where `DefaultRows` is 25 in the code and
UEFI guarantees 25; for NXHAL (`FirmwareAssumption`), that fields read from the
firmware are unsigned and that a root has the entries its length field leaves
room for. One theorem has a hypothesis of its own: `DriverIsWhole` holds for
`MaxChanges <= 2`, because a medium that is rewritten three times can tear both
extractions at the same block, and the code does not claim otherwise.

- `BootManagerProofs`: types; `Ownership`, the inductive invariant that says
  for each label who owns the guards, the image, the options, the lease and
  the ExitData, what an attempt that is over may have left and that a later one
  has nothing yet, for every set of builds. `RunningChildOwnsOptions`,
  `DefaultNeverDangles` (a build without console control), `NoGuardAcrossTransfer`
  and `AttemptLeavesNothing` are not inductive, since they speak of a moment at
  which several earlier steps have done their part; each follows from
  `Ownership`. `MenuFromWholeFile` needs only the position. `ContractKept`
  proves that each step is a step of `BootContract` or a stutter under the
  mapping.
- `BootManagerProofs`, how far the findings go: `History` keeps, for every
  attempt so far, whether its child was started, why its image is still loaded
  and what became of its options. From it: a dangling `LoadOptions` needs a
  console-control build, a refused unload and an image that was never started
  (`DanglingExplained`); an image outlives its attempt only when UnloadImage
  refused it or when it came with SECURITY_VIOLATION, and the latter was never
  configured or started (`SurvivorsKnown`); in picker mode only an attempt at
  an APFS volume ends the loader before its child has run
  (`FailuresAcknowledged`). So there is no further instance of a finding that
  the runs were too small to show.
- The console lease from both sides. `chainload` is modelled with the outcomes
  of a lease and `console_control.rs` with the calls of a loader; that the two
  assumptions fit is what `ConsoleLease` is for. `LeaseKept`
  (`ConsoleControlProofs`) shows that every step of the provider is a step of
  the contract, `LeaseUsed` (`BootManagerProofs`) that every step of the boot
  manager is, for any number of attempts and leases and every build. From the
  contract alone, a provider is alive exactly while a lease that owns it is
  held or stuck (`StorageReleased`).
- `ConsoleControlProofs`: `LeaseInv` relates the lease to the database and the
  box; `LogIsBounded` is inductive with types.
- `PickerProofs`: `PickerInv`; the lemma about `OnScreen` shows that the
  window contains the selection on every console. `AnswersAgreed` is the other
  half of what `BootManager` assumes of the picker: an entry of the menu, a
  cancel or an error, and an empty or too long menu refused as such before the
  console is touched.
- The life of a page range. Three loaders own pages in four ways (`ArmPages`,
  `Pages`, `LoadedKernel`, `SelectedBootPayload`), and all promise the same:
  an owner from the allocation on, at most one FreePages, none for pages that
  must survive the exit, and nothing left when the program is over.
  `LifetimeKept`, `PagesHandedOver` and `EveryRangeFreed` show that `PageOwner`,
  `Handoff` and each of the three ranges of `ArmJit` implement `PageLifetime`;
  `FreesOnce` draws the conclusion. In `Handoff` the pages are kept from
  ManuallyDrop on, in the others never. `PageOwner` counts the calls of FreePages.
  `Handoff` and `ArmJit` use an owner and count nothing: there the attempts
  follow from the state of the range, and what is shown is that the range is
  given back (or kept) by the time the program is over and never owned again.
  A run that panics is not over in this sense and gives nothing back. The
  rejection of a range inside the call that allocated it is a step of the
  contract of its own (`Reject`).
- `HandoffProofs`: `HandoffInv` ties each phase to the owner of the pages
  (`OwnerInv`), to the map in force (`MapInv`), to what the pages hold
  (`ImageInv`) and to the attempts left (`TriesInv`).
- `PageOwnerProofs`, the walk: `LoopInv` says what the first loop has
  established of the descriptors it saw and that the second covers the range up
  to the cursor; it gives `WalkCannotOverflow` and the cover without a gap.
  `AcceptedIsExact` (no address twice) and `ExactIsAccepted` are about a sum, and `Counts` says what
  it is the sum of: `total` is the number of pairs of an address of the range
  and a descriptor that holds it (`Pairs`), `intersecting` the number of
  descriptors that meet the range (`Meeting`). Covered without a gap, there are
  at least as many pairs as addresses, and as many only if no address has two
  (`OncePerAddress`); the other way round, an exact cover has the right total
  (`ExactTotal`) and leaves the walk no way to fail (`RejectIsDue`), except that
  `validate_map` looks at the cursor before each of its `StepLimit` iterations and
  not after the last. `Sharp` shows that this is where the limit lies: where no
  address is held twice an iteration passes exactly one descriptor
  (`WalkPasses`), so a range in `StepLimit` descriptors is never accepted, and
  one in fewer always is. With 4096 for both bounds, only a map all of whose
  descriptors lie in the range is concerned.
- `PageOwnerProofs`, the owners: the invariant ties the next step to the
  pointer, the pages and the number of FreePages calls, and carries `SharpInv`
  over each new map, so that an accepted verdict means that the range is
  covered by the type asked for at that moment. `ChecksHold` states the three
  properties of the walk for the walks the owners make.
- `ApfsProofs`, the driver: `DriverInv` says what the scan knows of the handles
  it has looked at (`Scanned`), which guards the frames hold (`GuardsByStep`) and
  what each run has loaded or left (`DriverByStep`, `ImagesByRun`).
  `NoTornDriver` needs the shape of what was read: with at most two changes the
  blocks of both extractions, one after the other, are the present version, then
  the other, then the present one again (`Segments`), and two halves of such a
  sequence are equal only when both are of one version.
- `ApfsProofs`, the volumes: `VolumesInv` says what is open at each step
  (`HeldByStep`), that the candidates are the visible handles so far, each with a
  path no other has (`Listed`, `OwnPaths`), and which of them were observed
  (`Observed`).
- `ArmJitProofs`: `ReadWasAccepted` says, file by file in the order of the
  chain, that what was read was accepted and that nothing it was compared with
  has changed since. The release then travels from the seals through the records
  to the five files that are used. `Protections` follows the code pages around
  the guest, `Screens` the display between Blt and the readback, and `Profiles`
  says which steps belong to which profile, without which neither is inductive.
- `InstrumentsProofs`, the page tables: the builder implements `AddressSpace`
  for every set of addresses, leaves and calls and every size of the buffer. A
  step that links a page could in principle change any translation, so the
  invariant says that the linked pages form a forest: an entry points to no page
  that was not handed out, a page has one parent (`OneParent`) and lies one level
  below it (`Layered`), pages not handed out are zero (`Fresh`), and a call under
  way is at the table its address leads to (`OnPath`). Then a page linked on the
  way maps nothing (`LinkMapsNothing`), and two addresses whose walks end in one
  entry are one address (`WalkInjective`), so that the leaf written is nobody
  else's.
- `InstrumentsProofs`, NXHAL: `ReportByStep` says what the report holds when
  `run` is about to read an entry and which functions the scan has found.
  `ReadIsAcpi` is kept by each read alone, since each looks at a map of its own.
- `InstrumentsProofs`, the trace: an array holds the front of a sequence
  (`HoldsFront`) or, slot by slot modulo its size, the tail (`HoldsTail`); the
  sequences are what `Kept` selects from the history. One more request appends
  one element to each or none (`KeptAppend`, `StepAdded`, `AfterAdded`,
  `CrossingAdded`), and storing it keeps the array right (`FrontStored`,
  `TailStored`), because two positions less than a ring apart have different
  slots (`SlotsDiffer`). `RingReported` and `FlowReported` show that the index
  arithmetic of the reports reads such an array in order.
- `InstrumentsProofs`, the JIT probes: a probe that reports success was refused
  nothing (`NoRefusalPasses`), whatever the machine it exercises does, and holds
  its pages exactly while a case runs (`JitTypeOK`). Most refusals end the case
  at once. The two of the protection do not: a refused callback is status 5 of
  the runner, and a refused restore leaves the code pages executable.
  `RefusalInv` carries both to the comparison. It sees them because every one of
  the 679 cases of the five probes compares the status with a value other than 5
  (`CasesLook`), and `run_case` also compares the protection (`PassedClean`).

The library's induction theorems take an operator, which no installed prover
can instantiate. Where induction was needed it is over sets, which are ordinary
values: a set of numbers that contains 0 and the successor of each member is
`Nat` (`SetInduction`, from the least element of the complement). So `Kept` is a
recursive function whose test is a set.

Two mistakes of the models came out in the proofs and are corrected: `CASE`
expressions in `ArmJit!Blt` and in `MmuProbe` had arms that overlap, where the
code's `if` chain takes the first and TLA+ any.

`Ownership`, the other inductive invariants and the type invariants are proved
and not listed with a run; they add nothing to the properties that follow from
them.

The last of these proofs asked for two changes of the model that leave its
behaviour as it was: records are joined by `GuestCode!Both`, which a proof can
expand, in place of `@@`; and the guard of a refused callback in
`JitProbe!RunGuest` reads the status of the runner in place of its fetch count.

**Only model-checked**: liveness (`AlwaysAwaitsSomeone`, `ScanReturns`), which
the prover does not reach; and of `JitProbe`, `CorrectPasses` and the half of
`PassRulesOut` about defective machines: the cases are a finite list of programs in the code, and the
run executes all of them on every machine, so there are no constants left to
prove anything for.

## Not modelled

- Text and pixels: reports, escaping of ExitData, rendering, labels, hex dumps.
- `nextcore_core` (parser of the configuration, the APFS container and kernel
  formats, device tree): not in this repository; its outcomes are choices.
- Register-level transition code (`arm_transition`, `transition32`).
- The C runner and the memory service as code: they are in another repository.
  `Guest` models them from how the probes use them; behind the trace observers
  they are an arbitrary sequence of requests.
- `console_probe`, `config_recovery_probe`, `picker_probe`, `watchdog_probe`,
  `test_child`, `apfs_probe` and `apfs_fixture`: test images that play the child,
  the driver, the user or the medium. The components' models have those as
  nondeterministic environment, which does more than the fixtures.
- `linux_handoff.rs`: constants and a predicate nothing consults.
- `research/handoff`: exported copies of earlier states of the files under
  `src/`, kept as history and built by nothing.
- A heap allocation that fails: the allocator panics and the machine halts.

## Plan

Done, in this order: boot manager with chainloader and contract, console
control, picker, APFS driver, APFS volumes, handoff, map validation, memory
trace, page owners, selected inputs and ARM JIT host; then the page-table
builder with its abstract specification and refinement proof, the five JIT
probes with the machine they exercise, and the HAL tables. Then the
contracts at the seams, `ConsoleLease` and `PageLifetime`, with the proofs that
their users implement them. Left:

1. Composition of `ApfsDriver` with `ApfsVolumes` in place of the outcomes used
   now, or a contract between the two like `ConsoleLease`; `read_file` of
   `firmware_io.rs` as the loop it is, for the loaders that use it.
2. A contract between `Chainload` and `ApfsDriver`, which now share outcomes.
3. The ranges of `JitProbe`, which are allocated anew for each case, as a
   sequence of lives of `PageLifetime`.
