------------------------------ MODULE PageOwner ------------------------------
(***************************************************************************)
(* The owners of firmware pages that check their range in the memory map:  *)
(* ArmPages (arm_pages.rs) and the Pages of LoadedKernelCollection         *)
(* (loaded_kernel_collection.rs) as kc.rs uses it.  Both call the function *)
(* MapCoverage models, ArmPages after its allocation, Pages once after the *)
(* allocation and once more after FreePages, each time on a new map.       *)
(*                                                                         *)
(* A function that fails drops its owner on the way out.                   *)
(***************************************************************************)
EXTENDS MapCoverage

CONSTANT Ceiling   \* FOUR_GIB, the end of the addresses Pages accepts

ASSUME PageOwnerAssumption ==
    /\ Ceiling \in Nat
    /\ {"loader", "conventional"} \subseteq Types

VARIABLES
    at,       \* the owner's next step
    probe,    \* kc.rs: "stage" or "probe-readback-failure"; "arm" for ArmPages
    pointer,  \* Pages.pointer: "some" or "none"
    memory,   \* the pages: "none", "owned" or "freed"
    frees,    \* calls of FreePages
    answer    \* what will be returned: "ok" or "error"

ownerVars == <<at, probe, pointer, memory, frees, answer>>
allVars == <<vars, ownerVars>>

OwnerTypeOK ==
    /\ TypeOK
    /\ at \in {"allocate", "overlap", "refresh", "checking", "stage", "loaded", "release",
               "observe", "observing", "drop", "end"}
    /\ probe \in {"stage", "probe-readback-failure", "arm"}
    /\ pointer \in {"some", "none"}
    /\ memory \in {"none", "owned", "freed"}
    /\ frees \in Nat
    /\ answer \in {"ok", "error"}

\* The range is the one the firmware is going to return.
OwnerInit ==
    /\ code \in {"validate_map", "coverage"}
    /\ pc = "done" /\ result = "none"
    /\ map = <<>> /\ meta = "invalid"
    /\ \E r \in Ranges : base = r[1] /\ bytes = r[2]
    /\ expected = "loader"
    /\ index = 0 /\ total = 0 /\ intersecting = 0 /\ cursor = 0 /\ steps = 0
    /\ at = "allocate"
    /\ probe \in IF Arm THEN {"arm"} ELSE {"stage", "probe-readback-failure"}
    /\ pointer = "none" /\ memory = "none" /\ frees = 0
    /\ answer = "ok"

-----------------------------------------------------------------------------
\* An error: the owner's Drop runs next.
Fail ==
    /\ at' = "drop"
    /\ answer' = "error"
    /\ UNCHANGED <<vars, probe, pointer, memory, frees>>

\* Options, file, plan and buffer may fail, and so may AllocatePages, before
\* there is anything to own.
Refused ==
    /\ at = "allocate"
    /\ at' = "end" /\ answer' = "error"
    /\ UNCHANGED <<vars, probe, pointer, memory, frees>>

\* The base Pages accepts.  ArmPages rounds its base up and may or may not
\* find its range inside the allocation.
BaseOK == Arm \/ (base # 0 /\ base % PageSize = 0 /\ Last <= Ceiling)

\* AllocatePages: the owner exists before any check can fail.
AllocatePages ==
    /\ at = "allocate"
    /\ pointer' = "some" /\ memory' = "owned"
    /\ \/ /\ BaseOK
          /\ at' = IF Arm THEN "refresh" ELSE "overlap"
          /\ UNCHANGED answer
       \/ /\ Arm \/ ~BaseOK
          /\ at' = "drop" /\ answer' = "error"
    /\ UNCHANGED <<vars, probe, frees>>

\* The source must not overlap the destination (load).
CheckOverlap ==
    /\ at = "overlap"
    /\ \/ at' = "refresh" /\ UNCHANGED <<vars, probe, pointer, memory, frees, answer>>
       \/ Fail

\* GetMemoryMap has filled the buffer: the function starts on a new map.
Call(type) ==
    /\ pc' = "meta" /\ result' = "none"
    /\ map' \in Maps /\ meta' \in {"valid", "invalid"}
    /\ expected' = type
    /\ index' = 0 /\ total' = 0 /\ intersecting' = 0 /\ cursor' = 0 /\ steps' = 0
    /\ UNCHANGED <<code, base, bytes>>

Refresh ==
    /\ at = "refresh"
    /\ \/ /\ at' = "checking"
          /\ Call("loader")
          /\ UNCHANGED <<probe, pointer, memory, frees, answer>>
       \/ Fail

\* A step of validate_map or coverage.
Check ==
    /\ at \in {"checking", "observing"} /\ pc # "done"
    /\ Next
    /\ UNCHANGED ownerVars

\* Mutant: the verdict on the allocation is not looked at.
CheckedIgnored ==
    /\ at = "checking" /\ pc = "done"
    /\ at' = "stage"
    /\ UNCHANGED <<vars, probe, pointer, memory, frees, answer>>

\* The verdict on the allocation.
Checked ==
    /\ at = "checking" /\ pc = "done"
    /\ \/ result = "ok" /\ at' = "stage" /\ UNCHANGED <<vars, probe, pointer, memory, frees, answer>>
       \/ result # "ok" /\ Fail

\* The pages are zeroed; kc.rs stages the collection and reads it back.
Stage ==
    /\ at = "stage"
    /\ \/ at' = "loaded" /\ UNCHANGED <<vars, probe, pointer, memory, frees, answer>>
       \/ ~Arm /\ Fail

\* release() for a staged collection; the probe alters a byte, must see the
\* mismatch and leaves the rest to Drop; so does the user of ArmPages.
Use ==
    /\ at = "loaded"
    /\ \/ /\ at' = IF probe = "stage" THEN "release" ELSE "drop"
          /\ UNCHANGED <<vars, probe, pointer, memory, frees, answer>>
       \/ probe = "probe-readback-failure" /\ Fail

\* What an earlier check left behind is not looked at again.
Forget ==
    /\ pc' = "done" /\ result' = "none"
    /\ map' = <<>> /\ meta' = "invalid"
    /\ index' = 0 /\ total' = 0 /\ intersecting' = 0 /\ cursor' = 0 /\ steps' = 0
    /\ UNCHANGED <<code, base, bytes, expected>>

\* Mutant: the pointer is left in the owner.
ReleaseKeepsPointer ==
    /\ at \in {"release", "drop"} /\ pointer = "some"
    /\ UNCHANGED pointer
    /\ frees' = frees + 1
    /\ memory' = "freed" /\ at' = IF at = "release" THEN "drop" ELSE "end"
    /\ Forget
    /\ UNCHANGED <<probe, answer>>

\* release_inner: the pointer is taken, and FreePages is called once whatever
\* it returns.  Pages looks at the map if it succeeded; ArmPages ignores the
\* status.
Release ==
    /\ at \in {"release", "drop"} /\ pointer = "some"
    /\ pointer' = "none"
    /\ frees' = frees + 1
    /\ \/ /\ memory' = "freed"
          /\ at' = IF Arm THEN "end" ELSE "observe"
          /\ UNCHANGED answer
       \/ /\ UNCHANGED memory
          /\ at' = IF at = "release" THEN "drop" ELSE "end"
          /\ answer' = IF at = "release" THEN "error" ELSE answer
    /\ Forget
    /\ UNCHANGED probe

\* Explicit release is followed by Drop, whose result is discarded.
Explicit == probe = "stage" /\ answer = "ok"

\* The map after FreePages, before a log or an allocation reuses the pages.
Observe ==
    /\ at = "observe"
    /\ \/ /\ at' = "observing"
          /\ Call("conventional")
          /\ UNCHANGED <<probe, pointer, memory, frees, answer>>
       \/ /\ at' = IF Explicit THEN "drop" ELSE "end"
          /\ answer' = IF Explicit THEN "error" ELSE answer
          /\ UNCHANGED <<vars, probe, pointer, memory, frees>>

\* Mutant: only the status of FreePages decides.
ObservedIgnored ==
    /\ at = "observing" /\ pc = "done"
    /\ at' = IF Explicit THEN "drop" ELSE "end"
    /\ UNCHANGED <<vars, probe, pointer, memory, frees, answer>>

\* The verdict on the release.
Observed ==
    /\ at = "observing" /\ pc = "done"
    /\ at' = IF Explicit THEN "drop" ELSE "end"
    /\ answer' = IF Explicit /\ result # "ok" THEN "error" ELSE answer
    /\ UNCHANGED <<vars, probe, pointer, memory, frees>>

\* Drop finds the pointer taken.
DropEmpty ==
    /\ at = "drop" /\ pointer = "none"
    /\ at' = "end"
    /\ UNCHANGED <<vars, probe, pointer, memory, frees, answer>>

Ended == at = "end" /\ UNCHANGED allVars

OwnerNext ==
    \/ Refused \/ AllocatePages \/ CheckOverlap \/ Refresh \/ Check \/ Checked \/ Stage
    \/ Use \/ Release \/ Observe \/ Observed \/ DropEmpty \/ Ended

OwnerSpec == OwnerInit /\ [][OwnerNext]_allVars

-----------------------------------------------------------------------------
(* Properties                                                              *)

\* Every address of the range is in the map and only with this type.
RangeIs(type) ==
    \A a \in OwnedRange : Holders(a) # {} /\ \A i \in Holders(a) : map[i].ty = type

\* Pages are written only while they are owned and after a map has shown the
\* whole range as loader memory ("exclusive page ownership").
WrittenIsOwned ==
    at \in {"stage", "loaded"} => memory = "owned" /\ pointer = "some" /\ RangeIs("loader")

Lifetime ==
    INSTANCE PageLifetime
    WITH memory <- memory, attempts <- frees, kept <- "no",
         over <- IF at = "end" THEN "yes" ELSE "no"

\* ArmPages and Pages keep the contract of a page range: allocated pages
\* have an owner before a check can fail, and FreePages is attempted exactly
\* once, "including on firmware error", although both release and Drop run.
KeepsLifetime == Lifetime!Spec

\* A staged collection is reported as done only when its pages were given
\* back and a later map shows the whole range as conventional memory.
DoneMeansReturned ==
    at = "end" /\ answer = "ok" /\ probe = "stage" => memory = "freed" /\ RangeIs("conventional")
=============================================================================
