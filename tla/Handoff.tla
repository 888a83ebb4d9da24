------------------------------- MODULE Handoff -------------------------------
(***************************************************************************)
(* The irreversible handoff of the kernel loaders: kernel.rs (pstart32 on  *)
(* q35) and arm64.rs (QEMU virt), from the reading of the target on.       *)
(* Pages are allocated and filled, the whole handoff is rehearsed with a   *)
(* preview of the memory map, and only then are boot services left.  The   *)
(* map that counts is the one returned by ExitBootServices; from there on  *)
(* no firmware call, allocation, destructor or panic may happen, and a     *)
(* failure can only halt.                                                  *)
(*                                                                         *)
(* The firmware changes its memory map whenever an event runs.             *)
(***************************************************************************)
EXTENDS Naturals

CONSTANTS
    MaxChanges,   \* bound on changes of the memory map
    MaxTries      \* attempts of uefi::boot::exit_boot_services (2)

ASSUME HandoffAssumption ==
    /\ MaxChanges \in Nat
    /\ MaxTries \in Nat \ {0}

\* What a map is to the code's checks: in order, larger than the space
\* kernel.rs reserves for it (MAP_CAP), or without the pages or the sums it
\* must have.
Verdicts == {"good", "large", "bad"}
Maps == [version : 0..MaxChanges, verdict : Verdicts]
NoMap == [version |-> 0, verdict |-> "none"]

VARIABLES
    source,    \* the loader: "arm64" or "kernel"
    pc,        \* the next step
    current,   \* the firmware's memory map
    services,  \* "boot" or "exited"
    pages,     \* "none", "owned" or "freed"
    owner,     \* "none", "raii" or "manual" (ManuallyDrop)
    preview,   \* the rehearsal's map
    key,       \* the map whose key ExitBootServices is called with
    tries,     \* failed calls of ExitBootServices
    final,     \* the map ExitBootServices returned
    args,      \* the map the boot arguments describe
    copied,    \* the map in the arena
    image,     \* the kernel in the pages: "none", "copied" or "damaged"
    late       \* history: firmware calls after the exit

maps == <<preview, key, final>>
arena == <<args, copied, image>>
vars == <<source, pc, current, services, pages, owner, maps, tries, arena, late>>

Arm == source = "arm64"

\* The map passes the checks; only kernel.rs has to store it.
Fit(m) == m.verdict = "good" \/ (Arm /\ m.verdict = "large")

TypeOK ==
    /\ source \in {"arm64", "kernel"}
    /\ pc \in {"start", "plan", "data", "stage_data", "allocate", "place", "copy", "verify",
               "marker", "prepare", "preview", "check_preview", "forget", "get_key", "exit",
               "check_final", "write", "entered", "halted", "returned", "reset"}
    /\ current \in Maps
    /\ services \in {"boot", "exited"}
    /\ pages \in {"none", "owned", "freed"}
    /\ owner \in {"none", "raii", "manual"} /\ (owner = "none" => pages = "none")
    /\ {preview, key, final, args, copied} \subseteq Maps \cup {NoMap}
    /\ image \in {"none", "copied", "damaged"}
    /\ tries \in 0..MaxTries
    /\ late \subseteq {"return", "panic"}

Init ==
    /\ source \in {"arm64", "kernel"}
    /\ pc = "start"
    /\ current \in [version : {0}, verdict : Verdicts]
    /\ services = "boot"
    /\ pages = "none" /\ owner = "none"
    /\ preview = NoMap /\ key = NoMap /\ final = NoMap
    /\ tries = 0
    /\ args = NoMap /\ copied = NoMap /\ image = "none"
    /\ late = {}

-----------------------------------------------------------------------------
\* run_probe returns an error: the pages are freed by their owner's Drop and
\* the error is reported, both through the firmware.
Return ==
    /\ pc' = "returned"
    /\ pages' = IF owner = "raii" THEN "freed" ELSE pages
    /\ late' = IF services = "exited" THEN {"return"} ELSE {}
    /\ UNCHANGED <<current, services, owner, maps, tries, arena>>

\* arm_transition::halt and post_exit_failure: no return, no firmware.
Halt == pc' = "halted" /\ UNCHANGED <<current, services, pages, owner, maps, tries, arena, late>>

\* Steps that only decide where to go on: to one of the labels, or back with
\* an error and without pages.
Decide(labels) ==
    /\ pc' \in labels \cup {"returned"}
    /\ UNCHANGED <<current, services, pages, owner, maps, tries, arena, late>>

\* run of arm64.rs: the configuration, the collection and its plan; then the
\* probe, which accepts its own fixture alone, or the staging of a real one.
ReadArm == pc = "start" /\ Arm /\ Decide({"plan", "data"})

\* ArmPages::allocate_data of the staging path.
AllocateData ==
    /\ pc = "data"
    /\ \/ pc' = "returned" /\ UNCHANGED <<pages, owner>>
       \/ pc' = "returned" /\ pages' = "freed" /\ owner' = "raii"
       \/ /\ Fit(current)
          /\ pc' = "stage_data" /\ pages' = "owned" /\ owner' = "raii"
    /\ UNCHANGED <<current, services, maps, tries, arena, late>>

\* Staged or not, this path ends with an error: no provider is ready.
StageData == pc = "stage_data" /\ Return

\* run_probe of arm64.rs: the device tree and the placement.
PlanArm == pc = "plan" /\ Decide({"allocate"})

\* prepare of kernel.rs: the configuration, the kernel and its plan.
ReadKernel == pc = "start" /\ ~Arm /\ Decide({"allocate"})

\* ArmPages::allocate: refused, or allocated, and then rejected with the
\* pages already owned, or accepted with the map of that moment.
Allocate ==
    /\ pc = "allocate" /\ Arm
    /\ \/ pc' = "returned" /\ UNCHANGED <<pages, owner>>
       \/ pc' = "returned" /\ pages' = "freed" /\ owner' = "raii"
       \/ /\ Fit(current)
          /\ pc' = "prepare" /\ pages' = "owned" /\ owner' = "raii"
    /\ UNCHANGED <<current, services, maps, tries, arena, late>>

\* The profile's address and the checks of LoadedKernel::load_at before the
\* allocation: sizes, alignment, the plan parsed again, and no overlap with
\* the source.
CheckPlan ==
    /\ pc = "allocate" /\ ~Arm
    /\ Decide({"place"})

\* Mutant: the owner is made only after the address has been compared.
PlaceOwnedLate ==
    /\ pc = "place"
    /\ \/ pc' = "returned" /\ pages' \in {"none", "owned"} /\ UNCHANGED owner
       \/ pc' = "copy" /\ pages' = "owned" /\ owner' = "raii"
    /\ UNCHANGED <<current, services, maps, tries, arena, late>>

\* AllocatePages at the fixed address: refused, granted elsewhere and given
\* back by the owner made at once, or granted.
Place ==
    /\ pc = "place"
    /\ \/ pc' = "returned" /\ UNCHANGED <<pages, owner>>
       \/ pc' = "returned" /\ pages' = "freed" /\ owner' = "raii"
       \/ pc' = "copy" /\ pages' = "owned" /\ owner' = "raii"
    /\ UNCHANGED <<current, services, maps, tries, arena, late>>

\* The pages are zeroed and the segments copied; what the memory then holds
\* is for verify_memory to find out.
CopyImage ==
    /\ pc = "copy"
    /\ image' \in {"copied", "damaged"}
    /\ pc' = "verify"
    /\ UNCHANGED <<current, services, pages, owner, maps, tries, args, copied, late>>

\* verify_memory: every byte that is read equals the one expected.
ReadBack == image = "copied"

\* Every gap, segment, tail and the arena are read back.
VerifyImage ==
    /\ pc = "verify"
    /\ \/ /\ ReadBack
          /\ pc' = "marker"
          /\ UNCHANGED <<current, services, pages, owner, maps, tries, arena, late>>
       \/ ~ReadBack /\ Return

\* A build without kernel-probe ends here with NOT_READY, and the probe
\* accepts its own fixture alone.
CheckMarker ==
    /\ pc = "marker"
    /\ \/ /\ pc' = "prepare"
          /\ UNCHANGED <<current, services, pages, owner, maps, tries, arena, late>>
       \/ Return

\* stage_into, which verifies its own copy, and the CPU preflight.
StageArm ==
    /\ pc = "prepare" /\ Arm
    /\ \/ /\ pc' = "preview"
          /\ image' = "copied"
          /\ UNCHANGED <<current, services, pages, owner, maps, tries, args, copied, late>>
       \/ Return

\* The CPU preflight, the device tree, the trampoline and the command line:
\* everything that can fail before the map is needed.
Prepare ==
    /\ pc = "prepare" /\ ~Arm
    /\ \/ /\ pc' = "preview"
          /\ UNCHANGED <<current, services, pages, owner, maps, tries, arena, late>>
       \/ Return

\* boot::memory_map; kernel.rs fills its input from it.
Preview ==
    /\ pc = "preview"
    /\ \/ /\ pc' = "check_preview"
          /\ preview' = current
          /\ args' = IF Arm THEN args ELSE current
          /\ UNCHANGED <<current, services, pages, owner, key, final, tries, copied, image, late>>
       \/ Return

\* validate_map, or the size, physical_ram and encode_boot_args.
CheckPreview ==
    /\ pc = "check_preview"
    /\ \/ /\ Fit(preview)
          /\ pc' = "forget"
          /\ UNCHANGED <<current, services, pages, owner, maps, tries, arena, late>>
       \/ ~Fit(preview) /\ Return

\* drop(preview), the last report and ManuallyDrop::new.
Forget ==
    /\ pc = "forget"
    /\ owner' = "manual"
    /\ pc' = "get_key"
    /\ UNCHANGED <<current, services, pages, maps, tries, arena, late>>

\* exit_boot_services of the uefi crate: it takes the map, calls the
\* firmware with its key, tries once more and then resets the machine.
GetKey ==
    /\ pc = "get_key"
    /\ key' = current
    /\ pc' = "exit"
    /\ UNCHANGED <<current, services, pages, owner, preview, final, tries, arena, late>>

Exited ==
    /\ pc = "exit"
    /\ key = current
    /\ services' = "exited"
    /\ final' = key
    /\ pc' = "check_final"
    /\ UNCHANGED <<current, pages, owner, preview, key, tries, arena, late>>

ExitRefused ==
    /\ pc = "exit"
    /\ tries' = tries + 1
    /\ pc' = IF tries' = MaxTries THEN "reset" ELSE "get_key"
    /\ UNCHANGED <<current, services, pages, owner, maps, arena, late>>

\* Mutant: the size of the final map is not tested again.
CheckFinalUnsized ==
    /\ pc = "check_final"
    /\ \/ /\ final.verdict # "bad"
          /\ pc' = IF Arm THEN "entered" ELSE "write"
          /\ UNCHANGED <<current, services, pages, owner, maps, tries, arena, late>>
       \/ final.verdict = "bad" /\ Halt

\* validate_map(final) and enter; or the sizes, physical_ram and
\* encode_boot_args of kernel.rs.
CheckFinal ==
    /\ pc = "check_final"
    /\ \/ /\ Fit(final)
          /\ pc' = IF Arm THEN "entered" ELSE "write"
          /\ UNCHANGED <<current, services, pages, owner, maps, tries, arena, late>>
       \/ ~Fit(final) /\ Halt

\* Mutant: the boot arguments of the rehearsal are used.
WriteArenaPreview ==
    /\ pc = "write"
    /\ copied' = final
    /\ pc' = "entered"
    /\ UNCHANGED <<current, services, pages, owner, maps, tries, args, image, late>>

\* The boot arguments and the map are copied into the arena; the slices are
\* bounds checked, and a map that does not fit panics.
WriteArena ==
    /\ pc = "write"
    /\ LET fits == final.verdict # "large"
       IN  /\ args' = final
           /\ copied' = IF fits THEN final ELSE NoMap
           /\ late' = IF fits THEN late ELSE late \cup {"panic"}
           /\ pc' = IF fits THEN "entered" ELSE "halted"
    /\ UNCHANGED <<current, services, pages, owner, maps, tries, image>>

\* An event of the firmware changes the memory map.
MapChanges ==
    /\ services = "boot" /\ pc \notin {"returned", "reset"}
    /\ current.version < MaxChanges
    /\ \E v \in Verdicts : current' = [version |-> current.version + 1, verdict |-> v]
    /\ UNCHANGED <<pc, services, pages, owner, maps, tries, arena, late>>

Stopped == pc \in {"entered", "halted", "returned", "reset"} /\ UNCHANGED vars

Next ==
    /\ \/ ReadArm \/ AllocateData \/ StageData \/ PlanArm \/ Allocate \/ StageArm
       \/ ReadKernel \/ CheckPlan \/ Place \/ CopyImage \/ VerifyImage \/ CheckMarker
       \/ Prepare \/ Preview \/ CheckPreview \/ Forget \/ GetKey \/ Exited \/ ExitRefused
       \/ CheckFinal \/ WriteArena \/ MapChanges \/ Stopped
    /\ UNCHANGED source

Spec == Init /\ [][Next]_vars

-----------------------------------------------------------------------------
(* Properties                                                              *)

\* "No firmware operation, allocation or destructor is permitted after EBS":
\* neither an error return nor a panic is reached once the services are left.
NoFirmwareAfterExit == late = {}

\* The kernel is entered only after the exit, with its pages still there, an
\* image that was read back, and with the map of the exit checked; the boot
\* arguments and the copy in the arena are of that map and not of the
\* rehearsal's.
EntersWithFinalMap ==
    pc = "entered" =>
        /\ services = "exited" /\ pages = "owned" /\ image = "copied"
        /\ final = current /\ Fit(final)
        /\ ~Arm => args = final /\ copied = final

Lifetime ==
    INSTANCE PageLifetime
    WITH memory <- pages, attempts <- IF pages = "freed" THEN 1 ELSE 0,
         kept <- IF owner = "manual" THEN "yes" ELSE "no",
         over <- IF pc \in {"entered", "halted", "returned", "reset"} THEN "yes" ELSE "no"

\* The loaders keep the contract of a page range: an error gives the pages
\* back once, wherever it happens, and nobody frees them once an owner that
\* must survive the exit has been made.
HandsOverPages == Lifetime!Spec
=============================================================================
