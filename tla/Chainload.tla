------------------------------ MODULE Chainload ------------------------------
(***************************************************************************)
(* One boot attempt of BOOTX64: load_target, chainload (main.rs) and       *)
(* start_image (exit_data.rs).  The firmware and the child image are       *)
(* nondeterministic; what is deterministic is who owns what.  Each attempt *)
(* has its own child image, LoadedImage.LoadOptions field and UTF-16       *)
(* options buffer, so that an image that survives a failed attempt is      *)
(* still there, with whatever its LoadOptions points at, during the next.  *)
(*                                                                         *)
(* An action is one firmware call together with all the code that runs     *)
(* up to the next call whose outcome matters.  Local values are dropped in *)
(* the action that returns from the function that owns them.               *)
(***************************************************************************)
EXTENDS EfiStatus, Naturals

CONSTANTS
    MaxAttempts,  \* bound on the number of boot attempts of one run
    Builds        \* the builds: sets of cargo features

ASSUME ChainloadAssumption ==
    /\ MaxAttempts \in Nat \ {0}
    /\ Builds \subseteq SUBSET {"console-control", "apfs-jumpstart"}

Attempts == 1..MaxAttempts

\* What of a BootTarget the control flow depends on: whether it names an APFS
\* volume and whether its argument string is nonempty.
Targets == [apfs_volume : BOOLEAN, arguments : BOOLEAN]

VARIABLES
    build,        \* the cargo features the loader was built with
    pc,           \* where efi_main is
    status,       \* the local `status` of the function that runs
    attempt,      \* number of the current (or last) attempt, 0 before the first
    target,       \* the BootTarget passed to chainload
    guards,       \* protocol guards and file handles the loader holds open
    image,        \* attempt -> the child image, as the firmware knows it
    loadOptions,  \* attempt -> LoadedImage.LoadOptions of that image
    options,      \* attempt -> the Vec<u16> the pointer is taken from
    refused,      \* history: attempts whose UnloadImage the firmware refused
    started,      \* history: attempts whose child was entered
    exitData,     \* the ExitData pool buffer of the current attempt
    lease         \* the Console Control lease of the current attempt

chainVars == <<attempt, target, guards, image, loadOptions, options, refused,
               started, exitData, lease>>

ConsoleControl == "console-control" \in build
ApfsJumpstart == "apfs-jumpstart" \in build

Guards == {"fs", "root", "file", "self", "device", "child"}
ImageStates == {"absent", "loaded", "running", "gone"}
Surviving == {a \in Attempts : image[a] \in {"loaded", "running"}}

ChainTypeOK ==
    /\ status \in Statuses
    /\ attempt \in 0..MaxAttempts
    /\ target \in Targets
    /\ guards \subseteq Guards
    /\ image \in [Attempts -> ImageStates]
    /\ loadOptions \in [Attempts -> {"null", "options"}]
    /\ options \in [Attempts -> {"none", "owned", "freed", "retained"}]
    /\ refused \subseteq Attempts
    /\ started \subseteq Attempts
    /\ exitData \in {"none", "transferred", "freed"}
    /\ lease \in {"none", "reused", "owned"}

ChainInit ==
    /\ attempt = 0
    /\ target = [apfs_volume |-> FALSE, arguments |-> FALSE]
    /\ guards = {}
    /\ image = [a \in Attempts |-> "absent"]
    /\ loadOptions = [a \in Attempts |-> "null"]
    /\ options = [a \in Attempts |-> "none"]
    /\ refused = {}
    /\ started = {}
    /\ exitData = "none"
    /\ lease = "none"

Goto(from, to) == pc = from /\ pc' = to

-----------------------------------------------------------------------------
(* Helpers shared by the actions.                                          *)

\* The options Vec goes out of scope when chainload returns.
DropOptions ==
    options' = [options EXCEPT ![attempt] = IF @ = "owned" THEN "freed" ELSE @]

\* Mutant: the buffer of an image that cannot be unloaded is dropped.
ForgetOptionsDropped == DropOptions

\* core::mem::forget(options): the buffer is kept until reboot.
ForgetOptions ==
    options' = [options EXCEPT ![attempt] = IF @ = "owned" THEN "retained" ELSE @]

\* UnloadImage (firmware): it unloads the image or refuses to.
UnloadImage(ok) ==
    /\ image' = [image EXCEPT ![attempt] = IF ok THEN "gone" ELSE @]
    /\ refused' = IF ok THEN refused ELSE refused \cup {attempt}

\* chainload hands its status to efi_main; its locals are dropped.
Return(s) ==
    /\ pc' = "returned"
    /\ status' = s
    /\ DropOptions

\* load_target returns Err: no options exist yet, all guards are dropped.
LoadFailed(s) ==
    /\ pc' = "returned"
    /\ status' = s
    /\ guards' = {}
    /\ UNCHANGED <<attempt, target, loadOptions, options, started, exitData,
                   lease>>

\* The call chainload(entry.target.clone()) in efi_main.
BeginChainload(t) ==
    /\ attempt < MaxAttempts
    /\ attempt' = attempt + 1
    /\ target' = t
    /\ exitData' = "none"
    /\ UNCHANGED <<guards, image, loadOptions, options, refused, started, lease>>

-----------------------------------------------------------------------------
(* load_target                                                             *)

\* apfs_target::load.  The driver it starts may return any status, and a
\* status other than SUCCESS, a warning included, becomes Err(status).
\* A handle that comes back with an error is unloaded here, not leaked.
LoadApfsTarget ==
    /\ pc = "load"
    /\ target.apfs_volume
    /\ ApfsJumpstart
    /\ \/ /\ pc' = "configure"
          /\ image' = [image EXCEPT ![attempt] = "loaded"]
          /\ UNCHANGED <<status, attempt, target, guards, loadOptions, options,
                         refused, started, exitData, lease>>
       \/ \E s \in Errors \cup {Warn} :
             LoadFailed(s) /\ UNCHANGED <<image, refused>>
       \/ \E s \in FirmwareErrors, ok \in BOOLEAN :
             /\ LoadFailed(s)
             /\ image' = [image EXCEPT ![attempt] = IF ok THEN "gone" ELSE "loaded"]
             /\ refused' = IF ok THEN refused ELSE refused \cup {attempt}

\* An apfs_volume target in a build without the feature.
RejectApfsTarget ==
    /\ pc = "load"
    /\ target.apfs_volume
    /\ ~ApfsJumpstart
    /\ LoadFailed("UNSUPPORTED")
    /\ UNCHANGED <<image, refused>>

\* Open our own LoadedImage.
OpenSelf ==
    /\ pc = "load"
    /\ ~target.apfs_volume
    /\ \/ /\ pc' = "load_path"
          /\ guards' = guards \cup {"self"}
          /\ UNCHANGED <<status, attempt, target, loadOptions, options, started,
                         exitData, lease>>
       \/ \E e \in FirmwareErrors : LoadFailed(e)
    /\ UNCHANGED <<image, refused>>

\* Device, own path and self-reference checks; drop(current) on success, the
\* guard is dropped with the frame on every early return.
CheckOwnPath ==
    /\ pc = "load_path"
    /\ \/ /\ pc' = "load_device"
          /\ guards' = guards \ {"self"}
          /\ UNCHANGED <<status, attempt, target, loadOptions, options, started,
                         exitData, lease>>
       \/ \E e \in {"NOT_FOUND", "UNSUPPORTED", "INVALID_PARAMETER"} : LoadFailed(e)
    /\ UNCHANGED <<image, refused>>

\* Open the device path and append the file path node.  A path that is not
\* UCS-2 fails before the open, a builder failure after it.
BuildPath ==
    /\ pc = "load_device"
    /\ \/ /\ pc' = "load_built"
          /\ guards' = guards \cup {"device"}
          /\ UNCHANGED <<status, attempt, target, loadOptions, options, started,
                         exitData, lease>>
       \/ \E e \in FirmwareErrors \cup {"INVALID_PARAMETER"} : LoadFailed(e)
    /\ UNCHANGED <<image, refused>>

FinishPath ==
    /\ pc = "load_built"
    /\ \/ /\ pc' = "load_image"
          /\ guards' = guards \ {"device"}
          /\ UNCHANGED <<status, attempt, target, loadOptions, options, started,
                         exitData, lease>>
       \/ LoadFailed("OUT_OF_RESOURCES")
    /\ UNCHANGED <<image, refused>>

\* boot::load_image.  The uefi crate's wrapper returns Err(status) for every
\* failure and drops the handle; with SECURITY_VIOLATION the firmware has
\* nevertheless loaded the image (apfs_driver.rs, above load_driver).
LoadImage ==
    /\ pc = "load_image"
    /\ \/ /\ pc' = "configure"
          /\ image' = [image EXCEPT ![attempt] = "loaded"]
          /\ UNCHANGED <<status, attempt, target, guards, loadOptions, options,
                         started, exitData, lease>>
       \/ \E e \in FirmwareErrors : LoadFailed(e) /\ UNCHANGED image
       \/ /\ "SECURITY_VIOLATION" \in FirmwareErrors
          /\ LoadFailed("SECURITY_VIOLATION")
          /\ image' = [image EXCEPT ![attempt] = "loaded"]
    /\ UNCHANGED refused

-----------------------------------------------------------------------------
(* chainload                                                               *)

\* The UTF-16 buffer is collected, then the `configured` closure opens the
\* child's LoadedImage; Err unloads the child and returns.
OpenChild ==
    /\ pc = "configure"
    /\ \/ /\ pc' = "configure_set"
          /\ guards' = guards \cup {"child"}
          /\ options' = [options EXCEPT ![attempt] =
                           IF target.arguments THEN "owned" ELSE "none"]
          /\ UNCHANGED <<status, image, refused>>
       \/ /\ pc' = "returned"
          /\ status' \in FirmwareErrors
          /\ \E ok \in BOOLEAN : UnloadImage(ok)
          /\ options' = [options EXCEPT ![attempt] =
                           IF target.arguments THEN "freed" ELSE "none"]
          /\ UNCHANGED guards
    /\ UNCHANGED <<attempt, target, loadOptions, started, exitData, lease>>

\* Mutant: the buffer is moved into the closure and dies with it.
SetLoadOptionsMoved ==
    /\ Goto("configure_set", IF ConsoleControl THEN "lease" ELSE "start")
    /\ loadOptions' = [loadOptions EXCEPT ![attempt] =
                         IF options[attempt] = "none" THEN "null" ELSE "options"]
    /\ DropOptions
    /\ guards' = guards \ {"child"}
    /\ UNCHANGED <<status, attempt, target, image, refused, started, exitData, lease>>

\* The closure stores the pointer; the guard is dropped with the closure.
SetLoadOptions ==
    /\ Goto("configure_set", IF ConsoleControl THEN "lease" ELSE "start")
    /\ loadOptions' = [loadOptions EXCEPT ![attempt] =
                         IF options[attempt] = "none" THEN "null" ELSE "options"]
    /\ guards' = guards \ {"child"}
    /\ UNCHANGED <<status, attempt, target, image, options, refused, started,
                   exitData, lease>>

\* Not LOADER_CODE/LOADER_DATA: Err(UNSUPPORTED) before the pointer is stored.
RejectDriver ==
    /\ pc = "configure_set"
    /\ guards' = guards \ {"child"}
    /\ \E ok \in BOOLEAN : UnloadImage(ok)
    /\ Return("UNSUPPORTED")
    /\ UNCHANGED <<attempt, target, loadOptions, started, exitData, lease>>

\* console_control::Lease::acquire succeeded.
AcquireLease ==
    /\ Goto("lease", "start")
    /\ lease' \in {"reused", "owned"}
    /\ UNCHANGED <<status, attempt, target, guards, image, loadOptions, options,
                   refused, started, exitData>>

\* Lease::acquire returned Err (its own Drop has run): the result of the
\* unload is ignored and the options are dropped with the frame.
LeaseFailed ==
    /\ pc = "lease"
    /\ \E s \in FirmwareErrors \cup {"NOT_READY", "DEVICE_ERROR"}, ok \in BOOLEAN :
         UnloadImage(ok) /\ Return(s)
    /\ UNCHANGED <<attempt, target, guards, loadOptions, started, exitData, lease>>

\* The lease's Drop inside acquire could not uninstall and never returns.
LeaseStuck ==
    /\ Goto("lease", "resident")
    /\ lease' = "owned"
    /\ UNCHANGED <<status, attempt, target, guards, image, loadOptions, options,
                   refused, started, exitData>>

\* StartImage enters the child.
StartImage ==
    /\ Goto("start", "child")
    /\ image' = [image EXCEPT ![attempt] = "running"]
    /\ started' = started \cup {attempt}
    /\ UNCHANGED <<status, attempt, target, guards, loadOptions, options, refused,
                   exitData, lease>>

\* StartImage fails before entry and leaves the image loaded; NOT_READY also
\* stands for the missing system table or boot services.
StartRejected ==
    /\ Goto("start", "release")
    /\ status' \in FirmwareErrors \cup {"NOT_READY"}
    /\ UNCHANGED chainVars

\* The application returns or calls Exit: the firmware unloads it and may
\* pass an ExitData pool buffer to the caller.
ChildExits ==
    /\ Goto("child", "exit_data")
    /\ image' = [image EXCEPT ![attempt] = "gone"]
    /\ status' \in Statuses
    /\ exitData' \in {"none", "transferred"}
    /\ UNCHANGED <<attempt, target, guards, loadOptions, options, refused, started,
                   lease>>

\* Mutant: the buffer is not freed when the child failed.
FreeExitDataOnSuccess ==
    /\ Goto("exit_data", "release")
    /\ exitData' = IF exitData = "transferred" /\ ~IsError(status)
                   THEN "freed" ELSE exitData
    /\ UNCHANGED <<status, attempt, target, guards, image, loadOptions, options,
                   refused, started, lease>>

\* start_image after StartImage: a bounded prefix is copied and the buffer is
\* freed once, whatever the copy did and before anything is reported.
FreeExitData ==
    /\ Goto("exit_data", "release")
    /\ exitData' = IF exitData = "transferred" THEN "freed" ELSE exitData
    /\ UNCHANGED <<status, attempt, target, guards, image, loadOptions, options,
                   refused, started, lease>>

\* Mutant: the lease is forgotten when the child could not be started.
ReleaseLeaseSkipped ==
    /\ pc = "release"
    /\ \/ pc' = "cleanup" /\ lease' = IF attempt \in started THEN "none" ELSE lease
       \/ lease = "owned" /\ pc' = "resident" /\ UNCHANGED lease
    /\ UNCHANGED <<status, attempt, target, guards, image, loadOptions, options,
                   refused, started, exitData>>

\* console.release(): the owned interface is uninstalled, or the loader stays.
ReleaseLease ==
    /\ pc = "release"
    /\ \/ pc' = "cleanup" /\ lease' = "none"
       \/ lease = "owned" /\ pc' = "resident" /\ UNCHANGED lease
    /\ UNCHANGED <<status, attempt, target, guards, image, loadOptions, options,
                   refused, started, exitData>>

\* The image is gone: its handle is invalid or has no LoadedImage, and
\* open_protocol_exclusive says INVALID_PARAMETER or UNSUPPORTED.
CleanupGone ==
    /\ pc = "cleanup"
    /\ image[attempt] = "gone"
    /\ Return(status)
    /\ UNCHANGED <<attempt, target, guards, image, loadOptions, refused, started,
                   exitData, lease>>

\* The image is still loaded and its protocol opens.
CleanupOpen ==
    /\ Goto("cleanup", "cleanup_clear")
    /\ image[attempt] # "gone"
    /\ guards' = guards \cup {"child"}
    /\ UNCHANGED <<status, attempt, target, image, loadOptions, options, refused,
                   started, exitData, lease>>

\* Mutant: the guard is still held when the image is unloaded.
CleanupClearGuarded ==
    /\ Goto("cleanup_clear", "cleanup_unload")
    /\ loadOptions' = [loadOptions EXCEPT ![attempt] = "null"]
    /\ UNCHANGED <<status, attempt, target, guards, image, options, refused, started,
                   exitData, lease>>

\* set_load_options(null) and drop(image).
CleanupClear ==
    /\ Goto("cleanup_clear", "cleanup_unload")
    /\ loadOptions' = [loadOptions EXCEPT ![attempt] = "null"]
    /\ guards' = guards \ {"child"}
    /\ UNCHANGED <<status, attempt, target, image, options, refused, started,
                   exitData, lease>>

\* A refused unload is only reported.
CleanupUnload ==
    /\ pc = "cleanup_unload"
    /\ \E ok \in BOOLEAN : UnloadImage(ok)
    /\ Return(status)
    /\ UNCHANGED <<attempt, target, guards, loadOptions, started, exitData, lease>>

\* The image is still loaded and its protocol does not open (any other
\* error): if it cannot be unloaded either, the buffer is forgotten.
CleanupUnopened ==
    /\ pc = "cleanup"
    /\ image[attempt] # "gone"
    /\ FirmwareErrors \ {"UNSUPPORTED", "INVALID_PARAMETER"} # {}
    /\ \E ok \in BOOLEAN :
         /\ UnloadImage(ok)
         /\ IF ok THEN DropOptions ELSE ForgetOptions
    /\ pc' = "returned"
    /\ UNCHANGED <<status, attempt, target, guards, loadOptions, started, exitData,
                   lease>>

ChainNext ==
    \/ LoadApfsTarget \/ RejectApfsTarget
    \/ OpenSelf \/ CheckOwnPath \/ BuildPath \/ FinishPath \/ LoadImage
    \/ OpenChild \/ SetLoadOptions \/ RejectDriver
    \/ AcquireLease \/ LeaseFailed \/ LeaseStuck
    \/ StartImage \/ StartRejected
    \/ ChildExits \/ FreeExitData \/ ReleaseLease
    \/ CleanupGone \/ CleanupOpen \/ CleanupClear \/ CleanupUnload \/ CleanupUnopened
=============================================================================
