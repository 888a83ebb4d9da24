------------------------------- MODULE ArmJit -------------------------------
(***************************************************************************)
(* NXARMJIT (arm_jit.rs): after SelectedInputs, a collection is staged,    *)
(* traced (run_trace) or run as the authored fixture (run_probe).  The     *)
(* guest runs inside a C runner that translates into a page range whose    *)
(* protection it changes through a callback; afterwards the host makes the *)
(* range writable again, shows the guest's frame through the GOP           *)
(* (boot_framebuffer.rs) and reads the screen back.                        *)
(***************************************************************************)
EXTENDS SelectedInputs

CONSTANTS
    MaxCalls,   \* bound on the runner's calls of the protect callback
    MaxModes    \* bound on changes of the display mode

ASSUME JitAssumption == MaxCalls \in Nat /\ MaxModes \in Nat

VARIABLES
    trace,      \* what the trace configuration asks for
    plan,       \* Arm64HandoffPlan: "none", "base" or "framed"
    gop,        \* CurrentGop: "none", "held" or "dropped"
    planned,    \* the mode gop was opened in
    mode,       \* the display's current mode
    screen,     \* "other", "frame", "skewed", "text" or "cleared"
    captured,   \* what the readback saw
    ram,        \* the guest's pages: "none", "owned" or "freed"
    code,       \* the pages of the translated code
    protection, \* of the code pages: "writable" or "executable"
    restore,    \* the last protect call: "none", "done" or "refused"
    calls,      \* ProtectionObservation
    reported,   \* its failures as TRACE_PROTECTION_CALLS prints them
    produced    \* what the guest left behind: see Proofs

display == <<plan, gop, planned, mode, screen, captured>>
pages == <<ram, code>>
guard == <<protection, restore, calls, reported>>
vars == <<inputVars, trace, display, pages, guard, produced>>

\* What run_probe looks at: the registers, the boot arguments, the signed
\* pointers and the pixels in the guest's memory.
Proofs == {"result", "args", "pac", "frame"}
Fixtures == {"plain", "pac"}
NotReported == MaxCalls + 2

Probe == target.profile = "probe"
Mapped == trace.memory = "mapped"

Init ==
    /\ InputsInit
    /\ trace = [video |-> "off", memory |-> "none", fixture |-> "none"]
    /\ plan = "none" /\ gop = "none" /\ planned = 0 /\ mode = 0
    /\ screen = "other" /\ captured = "none"
    /\ ram = "none" /\ code = "none"
    /\ protection = "writable" /\ restore = "none"
    /\ calls = [writable |-> 0, executable |-> 0, failures |-> 0]
    /\ reported = NotReported
    /\ produced = {}

Goto(label) == pc' = label /\ UNCHANGED status
Kept == UNCHANGED <<build, seals, target, todo, got, payload>>

-----------------------------------------------------------------------------
(* From run to the guest's entry                                           *)

\* run after the collection is validated: the profile and the build choose
\* run_trace, the fixture of run_probe, or staging alone.
Dispatch ==
    /\ pc = "dispatch"
    /\ \/ /\ Has("trace") /\ target.profile = "trace"
          /\ Goto("trace_config") /\ UNCHANGED trace
       \/ /\ Has("probe") /\ Probe
          /\ \/ \E f \in Fixtures : trace' = [trace EXCEPT !.fixture = f] /\ Goto("plan")
             \/ Fail("UNSUPPORTED") /\ UNCHANGED trace
       \/ /\ ~(Has("trace") /\ target.profile = "trace") /\ ~(Has("probe") /\ Probe)
          /\ Goto("stage") /\ UNCHANGED trace
    /\ Kept /\ UNCHANGED <<display, pages, guard, produced>>

\* ArmPages::allocate_data and stage_into; the providers are missing, so
\* that even a verified staging ends with NOT_READY.
StageOnly ==
    /\ pc = "stage"
    /\ \/ ram' = "none" /\ Fail("OUT_OF_RESOURCES")
       \/ ram' = "owned" /\ Fail("COMPROMISED_DATA")
       \/ ram' = "owned" /\ Fail("NOT_READY")
    /\ Kept /\ UNCHANGED <<trace, display, code, guard, produced>>

\* The trace configuration and the device tree.
TraceConfig ==
    /\ pc = "trace_config"
    /\ \/ \E v \in {"on", "off"}, m \in {"none"} \cup (IF Has("mapped") THEN {"mapped"} ELSE {}) :
             /\ trace' = [trace EXCEPT !.video = v, !.memory = m]
             /\ IF Has("selected") /\ m = "none" THEN Fail("INVALID_PARAMETER") ELSE Goto("display")
       \/ \E s \in {"INVALID_PARAMETER", "READ_ERROR", "LOAD_ERROR", "UNSUPPORTED"} :
             Fail(s) /\ UNCHANGED trace
    /\ Kept /\ UNCHANGED <<display, pages, guard, produced>>

\* CurrentGop::open; without it the trace goes on without video.
OpenDisplay ==
    /\ pc = "display"
    /\ Goto("plan")
    /\ \/ trace.video = "on" /\ gop' = "held" /\ planned' = mode
       \/ UNCHANGED <<gop, planned>>
    /\ Kept /\ UNCHANGED <<trace, plan, mode, screen, captured, pages, guard, produced>>

\* new_with_framebuffer, or after it failed the display is dropped and the
\* plan made without it.
MakePlan ==
    /\ pc = "plan"
    /\ \/ gop = "held" /\ plan' = "framed" /\ UNCHANGED gop /\ Goto("load")
       \/ /\ gop' = IF gop = "held" THEN "dropped" ELSE gop
          /\ \/ plan' = "base" /\ Goto("load")
             \/ Fail("LOAD_ERROR") /\ UNCHANGED plan
    /\ Kept /\ UNCHANGED <<trace, planned, mode, screen, captured, pages, guard, produced>>

\* run_probe: RAM, plan.stage_into, code pages, vf_efi_jit_protection_open.
\* An error returns with the owners that exist.
LoadFixture ==
    /\ pc = "load" /\ Probe
    /\ \/ ram' = "owned" /\ code' = "owned" /\ Goto("enter")
       \/ UNCHANGED pages /\ Fail("OUT_OF_RESOURCES")
       \/ /\ ram' = "owned" /\ UNCHANGED code
          /\ \E s \in {"COMPROMISED_DATA", "OUT_OF_RESOURCES"} : Fail(s)
       \/ ram' = "owned" /\ code' = "owned" /\ \E s \in {"NOT_READY", "UNSUPPORTED"} : Fail(s)
    /\ Kept /\ UNCHANGED <<trace, display, guard, produced>>

\* run_trace: the guest's RAM and plan.stage_into_observed.
LoadRam ==
    /\ pc = "load" /\ ~Probe
    /\ \/ ram' = "owned" /\ (Goto("companions") \/ Fail("COMPROMISED_DATA"))
       \/ /\ UNCHANGED ram
          /\ \E s \in {"INVALID_PARAMETER", "BAD_BUFFER_SIZE", "OUT_OF_RESOURCES"} : Fail(s)
    /\ Kept /\ UNCHANGED <<trace, display, code, guard, produced>>

\* stage_into_guest puts SPTM and TXM behind the collection.
StageCompanions ==
    /\ pc = "companions"
    /\ Goto("code") \/ (Selected /\ Fail("COMPROMISED_DATA"))
    /\ Kept /\ UNCHANGED <<trace, display, pages, guard, produced>>

\* The code pages, vf_efi_jit_protection_open and the entry address.
LoadCode ==
    /\ pc = "code"
    /\ \/ code' = "owned" /\ (Goto("enter") \/ \E s \in {"NOT_READY", "UNSUPPORTED"} : Fail(s))
       \/ code' = "owned" /\ Mapped /\ Fail("INVALID_PARAMETER")
       \/ UNCHANGED code /\ Fail("OUT_OF_RESOURCES")
    /\ Kept /\ UNCHANGED <<trace, display, ram, guard, produced>>

\* mapped_trace::run fails before it calls the runner or not at all.
EnterMapped ==
    /\ pc = "enter" /\ ~Probe /\ Mapped
    /\ Goto("guest") \/ Fail("INVALID_PARAMETER")
    /\ Kept /\ UNCHANGED <<trace, display, pages, guard, produced>>

\* The other runners; MemoryService::new of a build with a provider may fail.
EnterGuest ==
    /\ pc = "enter" /\ (Probe \/ ~Mapped)
    /\ Goto("guest") \/ (~Probe /\ Has("provider") /\ Fail("INVALID_PARAMETER"))
    /\ Kept /\ UNCHANGED <<trace, display, pages, guard, produced>>

-----------------------------------------------------------------------------
(* The guest, the protect callback and the restore                         *)

Observing == Has("observe") /\ ~Probe

\* observed_protect counts the call and what vf_efi_jit_protect returned.
Counted(wanted, answer) ==
    IF Observing
    THEN [calls EXCEPT ![wanted] = @ + 1, !.failures = IF answer = "refused" THEN @ + 1 ELSE @]
    ELSE calls

\* The firmware changes the protection of the code pages, or refuses.
Protect(wanted) ==
    /\ \/ restore' = "done" /\ protection' = wanted
       \/ restore' = "refused" /\ UNCHANGED protection
    /\ calls' = Counted(wanted, restore')

Made == calls.writable + calls.executable

\* The runner calls back before and after it writes code.
GuestProtects ==
    /\ pc = "guest"
    /\ Made < MaxCalls
    /\ \E wanted \in {"writable", "executable"} : Protect(wanted)
    /\ Kept /\ UNCHANGED <<pc, status, trace, display, pages, reported, produced>>

\* The runner returns, whatever the guest did; only run_probe looks at it.
GuestReturns ==
    /\ pc = "guest"
    /\ produced' \in SUBSET (IF Probe THEN Proofs ELSE {})
    /\ Goto("restore")
    /\ Kept /\ UNCHANGED <<trace, display, pages, guard>>

\* Mutant: the restore goes around the observer.
RestoreUnobserved ==
    /\ pc = "restore"
    /\ \/ restore' = "done" /\ protection' = "writable"
       \/ restore' = "refused" /\ UNCHANGED protection
    /\ UNCHANGED calls
    /\ reported' = calls.failures
    /\ IF Probe /\ restore' = "refused" THEN Fail("DEVICE_ERROR") ELSE Goto("examine")
    /\ Kept /\ UNCHANGED <<trace, display, pages, produced>>

\* The code pages are made writable again with the callback the runner had,
\* and the observed calls are reported.
Restore ==
    /\ pc = "restore"
    /\ Protect("writable")
    /\ reported' = IF Observing THEN calls'.failures ELSE reported
    /\ IF Probe /\ restore' = "refused" THEN Fail("DEVICE_ERROR") ELSE Goto("examine")
    /\ Kept /\ UNCHANGED <<trace, display, pages, produced>>

-----------------------------------------------------------------------------
(* The guest's frame and the result                                        *)

Needed == {"result", "args", "frame"} \cup (IF trace.fixture = "pac" THEN {"pac"} ELSE {})

\* Mutant: the signed pointers of the PAC fixture are not read back.
ExamineWithoutPac ==
    /\ pc = "examine"
    /\ \/ Probe /\ {"result", "args", "frame"} \subseteq produced /\ Goto("blt")
       \/ Probe /\ ~({"result", "args", "frame"} \subseteq produced) /\ Fail("COMPROMISED_DATA")
       \/ ~Probe /\ Goto("finish")
    /\ Kept /\ UNCHANGED <<trace, display, pages, guard, produced>>

\* run_probe checks what the guest left; run_trace goes on to the display,
\* if it has one.
Examine ==
    /\ pc = "examine"
    /\ \/ Probe /\ Needed \subseteq produced /\ Goto("blt")
       \/ Probe /\ ~(Needed \subseteq produced) /\ Fail("COMPROMISED_DATA")
       \/ ~Probe /\ plan = "framed" /\ (Goto("present") \/ Fail("BAD_BUFFER_SIZE"))
       \/ ~Probe /\ plan # "framed" /\ Goto("finish")
    /\ Kept /\ UNCHANGED <<trace, display, pages, guard, produced>>

\* CurrentGop::present and readback test the mode before they convert the
\* pixels and call Blt; a failure of either is only reported.
CheckGeometry(label, failed) == Goto(IF mode = planned THEN label ELSE failed)

Present ==
    /\ pc = "present"
    /\ CheckGeometry("blt", "finish")
    /\ Kept /\ UNCHANGED <<trace, display, pages, guard, produced>>

\* The mode has changed since that test: a smaller one fails the bounds
\* assertion of the GOP binding (external), and the panic handler ends the
\* program where it stands; a larger one goes through.
BoundsPanic == ~Probe /\ mode # planned /\ Goto("halted")

\* Blt of the frame, and vf_gop_present of run_probe, whose failure is an
\* error.
Blt ==
    /\ pc = "blt"
    /\ \/ /\ screen' = IF Probe \/ mode = planned THEN "frame" ELSE "skewed"
          /\ Goto(IF Probe THEN "capture" ELSE IF Has("readback") THEN "readback" ELSE "report")
       \/ (IF Probe THEN Fail("DEVICE_ERROR") ELSE Goto("finish")) /\ UNCHANGED screen
       \/ BoundsPanic /\ UNCHANGED screen
    /\ Kept /\ UNCHANGED <<trace, plan, gop, planned, mode, captured, pages, guard, produced>>

\* Mutant: the mode is not tested again before the readback.
ReadbackUnchecked ==
    /\ pc = "readback"
    /\ Goto("capture")
    /\ Kept /\ UNCHANGED <<trace, display, pages, guard, produced>>

Readback ==
    /\ pc = "readback"
    /\ CheckGeometry("capture", "report")
    /\ Kept /\ UNCHANGED <<trace, display, pages, guard, produced>>

\* The screen is read; run_probe compares it with the fixture's color.
Capture ==
    /\ pc = "capture"
    /\ \/ captured' = screen
          /\ IF ~Probe THEN Goto("report")
             ELSE IF screen = "frame" THEN Fail("SUCCESS") ELSE Fail("COMPROMISED_DATA")
       \/ UNCHANGED captured /\ IF Probe THEN Fail("DEVICE_ERROR") ELSE Goto("report")
       \/ BoundsPanic /\ UNCHANGED captured
    /\ Kept /\ UNCHANGED <<trace, plan, gop, planned, mode, screen, pages, guard, produced>>

\* TRACE_VIDEO_PRESENTED and the comparison are written to the console,
\* which may draw on the same screen.
Report ==
    /\ pc = "report"
    /\ screen' \in {screen, "text"}
    /\ Goto("finish")
    /\ Kept /\ UNCHANGED <<trace, plan, gop, planned, mode, captured, pages, guard, produced>>

\* drop(display), the refused restore and the provider's ABI record; a
\* complete trace is ABORTED and never SUCCESS.
Finish ==
    /\ pc = "finish"
    /\ gop' = IF gop = "held" THEN "dropped" ELSE gop
    /\ IF restore = "refused" THEN Fail("DEVICE_ERROR")
       ELSE Fail("ABORTED") \/ (Has("provider") /\ Fail("COMPROMISED_DATA"))
    /\ Kept /\ UNCHANGED <<trace, plan, planned, mode, screen, captured, pages, guard, produced>>

\* The owners on the stack of run are dropped and efi_main returns.
Unwind ==
    /\ pc = "unwind"
    /\ LET Dropped(p) == IF p = "owned" THEN "freed" ELSE p
       IN  ram' = Dropped(ram) /\ code' = Dropped(code) /\ payload' = Dropped(payload)
    /\ gop' = IF gop = "held" THEN "dropped" ELSE gop
    /\ Goto("returned")
    /\ UNCHANGED <<build, seals, target, todo, got, trace, plan, planned, mode, screen, captured,
                   guard, produced>>

\* Another agent sets a display mode, which clears the screen.
ModeChanges ==
    /\ pc \in {"guest", "present", "blt", "readback", "capture"}
    /\ Probe \/ gop = "held"
    /\ \E m \in 0..MaxModes :
          /\ m # mode
          /\ mode' = m /\ screen' = "cleared"
    /\ Kept /\ UNCHANGED <<pc, status, trace, plan, gop, planned, captured, pages, guard, produced>>

Returned == pc \in {"returned", "halted"} /\ UNCHANGED vars

LoadInputs == InputsStep /\ UNCHANGED <<trace, display, pages, guard, produced>>

Next ==
    \/ LoadInputs \/ Dispatch \/ StageOnly \/ TraceConfig \/ OpenDisplay \/ MakePlan \/ LoadFixture
    \/ LoadRam \/ StageCompanions \/ LoadCode \/ EnterMapped \/ EnterGuest
    \/ GuestProtects \/ GuestReturns \/ Restore \/ Examine \/ Present \/ Blt
    \/ Readback \/ Capture \/ Report \/ Finish \/ Unwind \/ ModeChanges \/ Returned

Spec == Init /\ [][Next]_vars

-----------------------------------------------------------------------------
(* Properties                                                              *)

Prepared == pc \notin {"config", "inputs", "unwind", "returned"}
Used == {"image", "payload", "sptm", "txm", "kc"}

\* Once a selected run has its inputs, the image, its payload, both
\* companions and the collection are of one release, the one both seals
\* name, although the twelve files were read one after the other and only two
\* of them are sealed; and a selected guest runs only on mapped memory.
OneSelection ==
    /\ Selected /\ Prepared =>
          /\ payload = "owned"
          /\ \E r \in Releases : \A f \in Used, s \in Sealed : got[f] = r /\ seals[s] = r
    /\ Selected /\ pc = "guest" => Mapped

\* Code pages go back to the firmware executable only when it refused to make
\* them writable; then the result is neither success nor a complete trace,
\* and an observing build has reported a failed call.
RestoredBeforeFreed ==
    code = "freed" /\ protection = "executable" =>
        /\ restore = "refused"
        /\ status \notin {"SUCCESS", "ABORTED"}
        /\ Observing => reported > 0

\* SUCCESS is returned only for the authored fixture, with everything it must
\* leave in memory found, the code pages restored and its frame read back
\* from the screen; ABORTED, the mark of a complete trace, only after the
\* guest ran and the pages were restored.
OutcomeIsEarned ==
    /\ status = "SUCCESS" =>
          Probe /\ Needed \subseteq produced /\ restore = "done" /\ captured = "frame"
    /\ status = "ABORTED" =>
          target.profile = "trace" /\ restore = "done" /\ protection = "writable"

Attempts(range) == IF range = "freed" THEN 1 ELSE 0
Over == IF pc = "returned" THEN "yes" ELSE "no"
RamLife == INSTANCE PageLifetime
           WITH memory <- ram, attempts <- Attempts(ram), kept <- "no", over <- Over
CodeLife == INSTANCE PageLifetime
            WITH memory <- code, attempts <- Attempts(code), kept <- "no", over <- Over
PayloadLife == INSTANCE PageLifetime
               WITH memory <- payload, attempts <- Attempts(payload), kept <- "no", over <- Over

\* Whichever step of run fails, the guest's RAM, the code pages and the
\* selected payload are given back before efi_main returns, and none of them
\* is owned again.  The attempts follow from the range's own state here; that
\* an owner calls FreePages only once is PageOwner's KeepsLifetime.
FreesEveryRange == RamLife!Spec /\ CodeLife!Spec /\ PayloadLife!Spec

\* "Capture before diagnostic text can draw over the guest image": what is
\* compared with the guest's pixels is the frame in the mode it was made for,
\* or a screen that a change of mode has cleared, never the loader's own text
\* and never a frame drawn with another mode's dimensions.
ReadbackSeesGuest == captured \in {"none", "frame", "cleared"}
=============================================================================
