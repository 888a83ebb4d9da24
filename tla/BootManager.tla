----------------------------- MODULE BootManager -----------------------------
(***************************************************************************)
(* BOOTX64: efi_main and read_config (main.rs), watchdog::disable,         *)
(* configuration_recovery::choose, the outcomes of picker::choose, and     *)
(* the attempts of Chainload.                                              *)
(*                                                                         *)
(* The firmware, the file system, the parser (nextcore_core) and the       *)
(* person at the keyboard are nondeterministic.  A key wait that wakes     *)
(* without a key is a step that changes nothing.                           *)
(***************************************************************************)
EXTENDS Chainload, Sequences

CONSTANTS
    Menus,            \* the boot menus parse_boot_menu may return
    MaxConfigBytes,   \* MAX_CONFIG_BYTES, scaled down
    PickerLimit       \* the 64 entries picker::choose accepts, scaled down

ASSUME BootManagerAssumption ==
    /\ Menus \subseteq [show_picker : BOOLEAN, entries : Seq(Targets)]
    /\ MaxConfigBytes \in Nat \ {0}
    /\ PickerLimit \in Nat \ {0}

VARIABLES
    menu,       \* the parsed menu
    size,       \* FileInfo.file_size of the configuration
    position,   \* bytes of it read so far
    result      \* what efi_main returned, NoStatus until then

vars == <<build, pc, status, chainVars, menu, size, position, result>>

NoMenu == [show_picker |-> FALSE, entries |-> <<>>]

ConfigLabels == {"cfg_fs", "cfg_volume", "cfg_open", "cfg_info", "cfg_read",
                 "cfg_parse"}
LoadLabels == {"load", "load_path", "load_device", "load_built", "load_image"}
ChildLabels == {"configure", "configure_set", "lease", "start", "child",
                "exit_data", "release", "cleanup", "cleanup_clear",
                "cleanup_unload"}
KeyLabels == {"recovery_key", "picker", "ack"}
Labels == ConfigLabels \cup LoadLabels \cup ChildLabels \cup KeyLabels \cup
          {"entry", "recovery", "returned", "resident", "done"}

TypeOK ==
    /\ build \in Builds
    /\ pc \in Labels
    /\ ChainTypeOK
    /\ menu \in Menus \cup {NoMenu}
    /\ size \in 0..MaxConfigBytes
    /\ position \in 0..MaxConfigBytes
    /\ result \in Statuses \cup {NoStatus}

Init ==
    /\ build \in Builds
    /\ pc = "entry"
    /\ status = Success
    /\ ChainInit
    /\ menu = NoMenu
    /\ size = 0
    /\ position = 0
    /\ result = NoStatus

\* efi_main returns s to the firmware.
Exit(s) ==
    /\ pc' = "done"
    /\ result' = s

-----------------------------------------------------------------------------
(* read_config                                                             *)

\* The watchdog is disabled once; its failure is only reported.
DisableWatchdog ==
    /\ Goto("entry", "cfg_fs")
    /\ UNCHANGED <<status, chainVars, menu, size, position, result>>

\* Mutant: a failed read is retried without asking.
ConfigErrorRetries(s) ==
    /\ pc' = "cfg_fs"
    /\ status' = Success
    /\ guards' = {}
    /\ UNCHANGED <<size, position>>

\* `?` in read_config: the reason goes to the recovery screen and every
\* handle opened so far is dropped with the frame.
ConfigError(s) ==
    /\ pc' = "recovery"
    /\ status' = s
    /\ guards' = {}
    /\ UNCHANGED <<size, position>>

\* A handle is opened, or the call fails.
OpenStep(from, guard, to, errors) ==
    /\ pc = from
    /\ \/ /\ pc' = to
          /\ guards' = guards \cup {guard}
          /\ UNCHANGED <<status, size, position>>
       \/ \E e \in errors : ConfigError(e)
    /\ UNCHANGED <<attempt, target, image, loadOptions, options, refused, started,
                   exitData, lease, menu, result>>

OpenFileSystem == OpenStep("cfg_fs", "fs", "cfg_volume", FirmwareErrors)

OpenVolume == OpenStep("cfg_volume", "root", "cfg_open", FirmwareErrors)

\* A path that is not a regular file is INVALID_PARAMETER.
OpenConfig ==
    OpenStep("cfg_open", "file", "cfg_info", FirmwareErrors \cup {"INVALID_PARAMETER"})

\* The reported size, with the two bounds on it.
ReadConfigInfo ==
    /\ pc = "cfg_info"
    /\ \/ \E e \in FirmwareErrors : ConfigError(e)
       \/ \E n \in 0..(MaxConfigBytes + 1) :
            IF n = 0 \/ n > MaxConfigBytes
            THEN ConfigError("BAD_BUFFER_SIZE")
            ELSE /\ pc' = "cfg_read"
                 /\ size' = n
                 /\ position' = 0
                 /\ UNCHANGED <<status, guards>>
    /\ UNCHANGED <<attempt, target, image, loadOptions, options, refused, started,
                   exitData, lease, menu, result>>

\* One read of the remaining bytes: the firmware may return fewer, and zero
\* before the reported size is END_OF_FILE.
ReadConfigBytes ==
    /\ pc = "cfg_read"
    /\ position < size
    /\ \/ \E e \in FirmwareErrors : ConfigError(e)
       \/ \E count \in 0..(size - position) :
            IF count = 0
            THEN ConfigError("END_OF_FILE")
            ELSE /\ position' = position + count
                 /\ UNCHANGED <<pc, status, guards, size>>
    /\ UNCHANGED <<attempt, target, image, loadOptions, options, refused, started,
                   exitData, lease, menu, result>>

\* Mutant: the first read is taken for the whole file.
ReadConfigDoneEarly ==
    /\ Goto("cfg_read", "cfg_parse")
    /\ position > 0
    /\ guards' = {}
    /\ UNCHANGED <<status, attempt, target, image, loadOptions, options, refused,
                   started, exitData, lease, menu, size, position, result>>

\* Ok(bytes): the handles are dropped.
ReadConfigDone ==
    /\ Goto("cfg_read", "cfg_parse")
    /\ position = size
    /\ guards' = {}
    /\ UNCHANGED <<status, attempt, target, image, loadOptions, options, refused,
                   started, exitData, lease, menu, size, position, result>>

\* parse_boot_menu rejects the bytes, or returns a menu without entries.
ParseFailed ==
    /\ Goto("cfg_parse", "recovery")
    /\ \/ status' = "INVALID_PARAMETER"
       \/ status' = "NOT_FOUND" /\ \E m \in Menus : m.entries = <<>>
    /\ UNCHANGED <<chainVars, menu, size, position, result>>

\* A usable menu: the picker, or the first entry at once.
ParseMenu ==
    /\ pc = "cfg_parse"
    /\ menu' \in {m \in Menus : m.entries # <<>>}
    /\ \/ menu'.show_picker /\ pc' = "picker" /\ UNCHANGED chainVars
       \/ ~menu'.show_picker /\ pc' = "load" /\ BeginChainload(menu'.entries[1])
    /\ UNCHANGED <<status, size, position, result>>

-----------------------------------------------------------------------------
(* configuration_recovery::choose                                          *)

\* The reason is written to the screen; clearing it first is optional.
ShowRecovery ==
    /\ pc = "recovery"
    /\ \/ pc' = "recovery_key" /\ UNCHANGED result
       \/ \E e \in FirmwareErrors \cup {"INVALID_PARAMETER"} : Exit(e)
    /\ UNCHANGED <<status, chainVars, menu, size, position>>

\* Enter: `continue` reads the configuration again; the failed status goes
\* out of scope.
RecoveryRetry ==
    /\ Goto("recovery_key", "cfg_fs")
    /\ status' = Success
    /\ size' = 0
    /\ position' = 0
    /\ UNCHANGED <<chainVars, menu, result>>

\* Escape: the configuration's own status.
RecoveryExit ==
    /\ pc = "recovery_key"
    /\ Exit(status)
    /\ UNCHANGED <<status, chainVars, menu, size, position>>

\* The event, the wait or the key read fails.
KeyError ==
    /\ pc \in {"recovery_key", "ack"}
    /\ \E e \in FirmwareErrors : Exit(e)
    /\ UNCHANGED <<status, chainVars, menu, size, position>>

-----------------------------------------------------------------------------
(* the interactive menu                                                    *)

\* picker::choose returns Ok(Some(index)).
PickerBoot ==
    /\ pc = "picker"
    /\ Len(menu.entries) <= PickerLimit
    /\ pc' = "load"
    /\ \E index \in 1..Len(menu.entries) : BeginChainload(menu.entries[index])
    /\ UNCHANGED <<status, menu, size, position, result>>

\* picker::choose returns Ok(None).
PickerCancel ==
    /\ pc = "picker"
    /\ Len(menu.entries) <= PickerLimit
    /\ Exit("ABORTED")
    /\ UNCHANGED <<status, chainVars, menu, size, position>>

\* picker::choose returns Err: too many entries, display or input.
PickerError ==
    /\ pc = "picker"
    /\ IF Len(menu.entries) > PickerLimit
       THEN Exit("INVALID_PARAMETER")
       ELSE \E e \in FirmwareErrors \cup {"DEVICE_ERROR"} : Exit(e)
    /\ UNCHANGED <<status, chainVars, menu, size, position>>

\* Mutant: the menu opens again without an acknowledgment.
AttemptReturnedUnattended ==
    /\ pc = "returned"
    /\ IF menu.show_picker /\ IsError(status)
       THEN pc' = "picker" /\ UNCHANGED result
       ELSE Exit(status)
    /\ UNCHANGED <<status, chainVars, menu, size, position>>

\* chainload returned: its status is efi_main's, or the failure is shown.
AttemptReturned ==
    /\ pc = "returned"
    /\ IF menu.show_picker /\ IsError(status)
       THEN pc' = "ack" /\ UNCHANGED result
       ELSE Exit(status)
    /\ UNCHANGED <<status, chainVars, menu, size, position>>

\* acknowledge_failure: any key; the menu is shown again.
Acknowledge ==
    /\ Goto("ack", "picker")
    /\ status' = Success
    /\ UNCHANGED <<chainVars, menu, size, position, result>>

-----------------------------------------------------------------------------

\* efi_main has returned, or its lease holds it resident.
Finished == pc \in {"done", "resident"} /\ UNCHANGED vars

ManagerNext ==
    \/ DisableWatchdog
    \/ OpenFileSystem \/ OpenVolume \/ OpenConfig
    \/ ReadConfigInfo \/ ReadConfigBytes \/ ReadConfigDone
    \/ ParseFailed \/ ParseMenu
    \/ ShowRecovery \/ RecoveryRetry \/ RecoveryExit \/ KeyError
    \/ PickerBoot \/ PickerCancel \/ PickerError
    \/ AttemptReturned \/ Acknowledge

Next ==
    /\ \/ ManagerNext
       \/ ChainNext /\ UNCHANGED <<menu, size, position, result>>
       \/ Finished
    /\ UNCHANGED build

Spec == Init /\ [][Next]_vars

\* The loader is one thread and its firmware calls return: outside a key wait
\* and the child, an enabled step is taken.
LoaderStep ==
    /\ pc \notin KeyLabels \cup {"child"}
    /\ ManagerNext \/ (ChainNext /\ UNCHANGED <<menu, size, position, result>>)
    /\ UNCHANGED build

FairSpec == Spec /\ WF_vars(LoaderStep)

-----------------------------------------------------------------------------
(* Properties                                                              *)

\* No image that is still loaded or running has a LoadOptions pointer into a
\* buffer chainload has freed (main.rs, set_load_options and mem::forget).
LoadOptionsNeverDangle ==
    \A a \in Surviving :
        loadOptions[a] = "options" => options[a] \in {"owned", "retained"}

\* Without console-control that never happens, whatever an earlier attempt
\* left behind (main.rs, set_load_options and mem::forget).
DefaultNeverDangles == ~ConsoleControl => LoadOptionsNeverDangle

\* Even in a console-control build the buffer outlives the child's run, and
\* nothing but the current attempt's child ever runs (main.rs, "The UTF-16
\* buffer remains owned by the parent until StartImage returns").
RunningChildOwnsOptions ==
    \A a \in Attempts :
        image[a] = "running" =>
            /\ a = attempt /\ pc = "child"
            /\ loadOptions[a] = "options" => options[a] = "owned"

\* The loader holds no protocol guard and no file handle when the child runs,
\* when it waits for a key, when it unloads an image whose guard it held, and
\* when it has returned (main.rs, "Drop all protocol guards before
\* transferring control"; picker.rs, choose).
NoGuardAcrossTransfer ==
    pc \in KeyLabels \cup {"recovery", "lease", "start", "child", "cleanup_unload",
                          "returned", "resident", "done"} => guards = {}

\* When chainload has returned, no lease is held, the ExitData buffer is not
\* leaked, no child runs, and no options buffer is left allocated except one
\* retained for an image the firmware refused to unload.
AttemptLeavesNothing ==
    pc \in KeyLabels \cup {"returned", "done"} =>
        /\ lease = "none"
        /\ exitData # "transferred"
        /\ \A a \in Attempts :
             /\ image[a] # "running"
             /\ options[a] # "owned"
             /\ options[a] = "retained" => a \in refused /\ image[a] = "loaded"

\* The inductive strengthening of the four properties above, one named part
\* per idea.  Fresh: an attempt that has not loaded anything yet.  Backed: the
\* buffer is alive wherever the pointer is set.  Ended: an attempt that is over.
Fresh(a) == image[a] = "absent" /\ loadOptions[a] = "null" /\ options[a] = "none"

Backed(a) ==
    /\ options[a] \in {"none", "owned"}
    /\ loadOptions[a] = "options" => options[a] = "owned"

Ended(a) ==
    /\ image[a] # "running"
    /\ options[a] # "owned"
    /\ options[a] = "retained" => a \in refused /\ image[a] = "loaded"
    /\ ~ConsoleControl /\ image[a] = "loaded" /\ loadOptions[a] = "options"
          => options[a] = "retained"

GuardsByLabel ==
    /\ pc \notin {"cfg_volume", "cfg_open", "cfg_info", "cfg_read", "load_path",
                 "load_built", "configure_set", "cleanup_clear"} => guards = {}
    /\ pc = "load_path" => guards = {"self"}
    /\ pc = "load_built" => guards = {"device"}
    /\ pc \in {"configure_set", "cleanup_clear"} => guards = {"child"}

CurrentByLabel ==
    /\ pc \in LoadLabels => Fresh(attempt)
    /\ pc \in {"configure", "configure_set", "lease", "start", "cleanup_clear",
              "cleanup_unload"} => image[attempt] = "loaded"
    /\ pc = "child" => image[attempt] = "running"
    /\ pc = "exit_data" => image[attempt] = "gone"
    /\ pc \in {"release", "cleanup", "resident"} => image[attempt] \in {"loaded", "gone"}
    /\ pc \in ChildLabels \cup {"resident"} => Backed(attempt)
    /\ pc \in {"configure", "configure_set", "cleanup_unload"} =>
          loadOptions[attempt] = "null"
    /\ pc = "lease" => ConsoleControl

OtherAttempts ==
    \A a \in Attempts :
        /\ a > attempt => Fresh(a)
        /\ a < attempt => Ended(a)
        /\ a = attempt /\ pc \notin LoadLabels \cup ChildLabels \cup {"resident"}
              => Ended(a)

LeaseByLabel ==
    /\ lease # "none" => pc \in {"start", "child", "exit_data", "release", "resident"}
    /\ exitData = "transferred" => pc = "exit_data"

\* Who owns what at every control point: guards, the current attempt's image
\* and buffer, every other attempt's, the lease and the ExitData buffer.
Ownership == GuardsByLabel /\ CurrentByLabel /\ OtherAttempts /\ LeaseByLabel

\* An image survives its attempt only if the firmware refused to unload it
\* (apfs_driver.rs, "so a rejected image is unloaded instead of leaked").
OnlyRefusedImagesSurvive ==
    pc \in KeyLabels \cup {"done"} => Surviving \subseteq refused

\* A menu is in use only when every byte of a nonempty configuration within
\* the limit was read, however the firmware split the reads (read_config).
MenuFromWholeFile ==
    menu # NoMenu => size \in 1..MaxConfigBytes /\ position = size

\* BOOT_FAILURE_RECOVERY: in picker mode "After a returned load/start failure,
\* display the status and require a key acknowledgment": an attempt whose
\* child was never entered does not end the loader.
FailureIsAcknowledged ==
    [][pc = "returned" /\ menu.show_picker /\ attempt \notin started
         => pc' = "ack"]_vars

\* How far the three findings go.  A pointer into a freed buffer is left only
\* in an image that was never started: one whose lease failed in a
\* console-control build and that the firmware then refused to unload
\* (chainload, Err of Lease::acquire).
DanglesOnlyUnstarted ==
    \A a \in Surviving :
        loadOptions[a] = "options" /\ options[a] \notin {"owned", "retained"} =>
            /\ ConsoleControl
            /\ image[a] = "loaded"
            /\ a \in refused /\ a \notin started

\* An image survives its attempt only if the firmware refused to unload it or
\* had loaded it with SECURITY_VIOLATION; the latter was never configured or
\* started (load_target, boot::load_image).
SurvivorsExplained ==
    pc \in KeyLabels \cup {"done"} =>
        \A a \in Surviving :
            \/ a \in refused
            \/ /\ "SECURITY_VIOLATION" \in FirmwareErrors
               /\ a \notin started /\ loadOptions[a] = "null" /\ options[a] = "none"

\* In picker mode only an attempt at an APFS volume ends the loader without
\* its child having been entered: every other load or start failure is
\* acknowledged by a key (efi_main, acknowledge_failure).
OtherFailuresAcknowledged ==
    [][pc = "returned" /\ menu.show_picker /\ attempt \notin started
         /\ ~(ApfsJumpstart /\ target.apfs_volume)
         => pc' = "ack"]_vars

\* The loader never spins on its own: it always gets to a key wait, the
\* child, its resident loop or its end (no timer-driven or unattended retry).
AlwaysAwaitsSomeone ==
    []<>(pc \in KeyLabels \cup {"child", "resident", "done"})

\* The refinement mapping to the contract with the user.
phase ==
    CASE pc \in ConfigLabels \cup {"entry"} -> "configure"
      [] pc \in {"recovery", "recovery_key"} -> "recover"
      [] pc = "picker" -> "menu"
      [] pc = "ack" -> "failed"
      [] pc \in {"done", "resident"} -> "ended"
      [] OTHER -> "attempt"

outcome ==
    IF pc \in {"recovery", "recovery_key", "ack", "done"} THEN status ELSE Success

Contract == INSTANCE BootContract WITH
    phase <- phase, picker <- menu.show_picker, outcome <- outcome,
    result <- result

\* efi_main keeps the contract: retries only by key, one attempt without the
\* picker, and the status returned is that of the configuration or attempt.
KeepsContract == Contract!Spec

\* The refinement mapping to the contract with console_control.rs: chainload
\* counts on a lease from StartImage until it releases it.
leasePhase ==
    CASE ~ConsoleControl -> "none"
      [] ConsoleControl /\ pc = "lease" -> "acquiring"
      [] ConsoleControl /\ pc \in {"start", "child", "exit_data"} -> "held"
      [] ConsoleControl /\ pc = "release" -> "releasing"
      [] ConsoleControl /\ pc = "resident" -> "stuck"
      [] OTHER -> "none"

Lease == INSTANCE ConsoleLease WITH
    phase <- leasePhase, kind <- lease,
    provider <- IF lease = "owned" THEN "live" ELSE "absent"

\* chainload keeps its side of the lease: one at a time, the child is started
\* only under it, it is released exactly once and before the status is handed
\* on, and a lease that is stuck lets nothing else happen; a build without
\* the feature never has one (chainload, console.release()).
UsesLease == Lease!Spec
=============================================================================
