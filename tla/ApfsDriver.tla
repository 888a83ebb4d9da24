------------------------------ MODULE ApfsDriver ------------------------------
(***************************************************************************)
(* apfs_driver.rs and apfs_target.rs: one APFS partition is found, its     *)
(* Jumpstart driver is read twice, loaded, started and connected, and the  *)
(* selected application is loaded from the volume that appears.            *)
(*                                                                         *)
(* The medium may be rewritten or exchanged while it is read.  A run is    *)
(* one call of inspect or of apfs_target::load; BOOTX64 may make several,  *)
(* and what an earlier run left loaded is still there during the next.     *)
(***************************************************************************)
EXTENDS EfiStatus, Naturals, Sequences, FiniteSets

CONSTANTS
    Handles,       \* the partition handles of the platform
    NoHandle,      \* Option::None of a handle
    MaxHandles,    \* MAX_PARTITION_HANDLES, scaled down
    DriverBlocks,  \* reads one extraction takes
    MaxChanges,    \* bound on rewrites and exchanges of the medium in a run
    MaxRuns        \* bound on the number of runs

ASSUME ApfsDriverAssumption ==
    /\ NoHandle \notin Handles
    /\ IsFiniteSet(Handles)
    /\ MaxHandles \in Nat
    /\ DriverBlocks \in Nat \ {0}
    /\ MaxChanges \in Nat
    /\ MaxRuns \in Nat \ {0}

Runs == 1..MaxRuns

\* Error codes of this component that EfiStatus does not name.
MediaErrors == {"MEDIA_CHANGED", "NO_MAPPING", "NO_MEDIA", "LOAD_ERROR", "VOLUME_CORRUPTED"}

VARIABLES
    pc,         \* the next step of the run, "idle" between runs
    mode,       \* Mode, or "target" for apfs_target::load
    run,        \* number of the current or last run
    status,     \* what it returned
    apfs,       \* handles whose GPT entry has the APFS type
    listed,     \* candidate(): the handles find_handles returned
    pending,    \* candidate(): those not looked at yet
    found,      \* candidate(): the APFS partition
    guards,     \* protocol guards held
    content,    \* version of the driver on the medium
    mediaId,    \* media_id reported by BlockIO
    changes,    \* changes of the medium in this run
    geometry,   \* media_geometry() at the start of read_driver
    first,      \* blocks of the first extraction
    second,     \* blocks of the second
    driver,     \* run -> the driver image
    app,        \* run -> the application image
    refused     \* history: <<kind, run>> whose UnloadImage was refused

scan == <<listed, pending, found>>
medium == <<content, mediaId, changes>>
reader == <<geometry, first, second>>
images == <<driver, app, refused>>
vars == <<pc, mode, run, status, apfs, scan, guards, medium, reader, images>>

Modes == {"extract", "start", "filesystems", "target"}
Labels == {"idle", "scan", "open", "read", "compare", "extracted", "load", "accept",
           "start", "running", "connect", "volumes", "self", "self_path", "load_app"}

TypeOK ==
    /\ pc \in Labels
    /\ mode \in Modes
    /\ run \in 0..MaxRuns
    /\ status \in Statuses \cup MediaErrors
    /\ apfs \subseteq Handles /\ listed \subseteq Handles /\ pending \subseteq listed
    /\ found \in Handles \cup {NoHandle}
    /\ pc \notin {"idle", "scan"} => found # NoHandle
    /\ guards \subseteq {"info", "block", "disk", "self"}
    /\ content \in {0, 1} /\ mediaId \in 0..MaxChanges /\ changes \in 0..MaxChanges
    /\ geometry \in 0..MaxChanges
    /\ first \in Seq({0, 1}) /\ Len(first) <= DriverBlocks
    /\ second \in Seq({0, 1}) /\ Len(second) <= DriverBlocks
    /\ driver \in [Runs -> {"absent", "loaded", "running", "resident", "gone"}]
    /\ app \in [Runs -> {"absent", "loaded", "gone"}]
    /\ refused \subseteq {"driver", "app"} \X Runs

Init ==
    /\ pc = "idle"
    /\ mode \in Modes
    /\ run = 0
    /\ status = Success
    /\ apfs \in SUBSET Handles
    /\ listed = {} /\ pending = {} /\ found = NoHandle
    /\ guards = {}
    /\ content = 0 /\ mediaId = 0 /\ changes = 0
    /\ geometry = 0 /\ first = <<>> /\ second = <<>>
    /\ driver = [r \in Runs |-> "absent"]
    /\ app = [r \in Runs |-> "absent"]
    /\ refused = {}

-----------------------------------------------------------------------------
(* Helpers                                                                 *)

\* The run returns s; every guard of the frames it leaves is dropped.
Finish(s) ==
    /\ pc' = "idle"
    /\ status' = s
    /\ guards' = {}

FailWith(errors) == \E e \in errors : Finish(e)

\* The run goes on to label `to` with the guards `held`.
Continue(to, held) ==
    /\ pc' = to
    /\ guards' = held
    /\ UNCHANGED status

\* UnloadImage (firmware) of this run's image: unloaded, or refused and left.
UnloadDriver(ok) ==
    /\ driver' = [driver EXCEPT ![run] = IF ok THEN "gone" ELSE @]
    /\ refused' = IF ok THEN refused ELSE refused \cup {<<"driver", run>>}

-----------------------------------------------------------------------------
(* candidate                                                               *)

\* A call of inspect or load: find_handles, and the bound on their number.
Begin ==
    /\ pc = "idle"
    /\ run < MaxRuns
    /\ run' = run + 1
    /\ listed' \in SUBSET Handles
    /\ pending' = listed'
    /\ found' = NoHandle
    /\ first' = <<>> /\ second' = <<>>
    /\ mediaId' = 0 /\ changes' = 0 /\ geometry' = 0
    /\ IF Cardinality(listed') > MaxHandles
       THEN Finish("BAD_BUFFER_SIZE")
       ELSE Continue("scan", {}) \/ FailWith(FirmwareErrors)
    /\ UNCHANGED <<mode, apfs, content, images>>

\* Mutant: the scan stops at the first APFS partition.
ScanHandleFirst ==
    /\ pc = "scan"
    /\ \E h \in pending :
         /\ found' = IF h \in apfs THEN h ELSE found
         /\ pending' = IF h \in apfs THEN {} ELSE pending \ {h}
    /\ UNCHANGED <<pc, mode, run, status, apfs, listed, guards, medium, reader, images>>

\* One handle: its PartitionInfo may not open; a second APFS type is an error.
ScanHandle ==
    /\ pc = "scan"
    /\ \E h \in pending :
         IF h \in apfs /\ found # NoHandle
         THEN Finish("NO_MAPPING") /\ UNCHANGED <<pending, found>>
         ELSE \/ /\ found' = IF h \in apfs THEN h ELSE found
                 /\ pending' = pending \ {h}
                 /\ UNCHANGED <<pc, status, guards>>
              \/ FailWith(FirmwareErrors \cup {"UNSUPPORTED"}) /\ UNCHANGED <<pending, found>>
    /\ UNCHANGED <<mode, run, apfs, listed, medium, reader, images>>

ScanDone ==
    /\ pc = "scan"
    /\ pending = {}
    /\ IF found = NoHandle THEN Finish("NOT_FOUND") ELSE Continue("open", {})
    /\ UNCHANGED <<mode, run, apfs, scan, medium, reader, images>>

-----------------------------------------------------------------------------
(* read_driver                                                             *)

\* The three protocols are opened and the geometry is taken and checked.
OpenReader ==
    /\ pc = "open"
    /\ \/ Continue("read", {"info", "block", "disk"}) /\ geometry' = mediaId
       \/ /\ FailWith(FirmwareErrors \cup {"UNSUPPORTED", "BAD_BUFFER_SIZE", "NO_MEDIA"})
          /\ UNCHANGED geometry
    /\ UNCHANGED <<mode, run, apfs, scan, medium, first, second, images>>

\* The medium's driver is replaced in one write, possibly by an older one,
\* or the medium is exchanged.
Rewrite ==
    /\ pc \in {"open", "read", "compare"}
    /\ changes < MaxChanges
    /\ changes' = changes + 1
    /\ content' = 1 - content
    /\ UNCHANGED <<pc, mode, run, status, apfs, scan, guards, mediaId, reader, images>>

Exchange ==
    /\ pc \in {"open", "read", "compare"}
    /\ changes < MaxChanges
    /\ changes' = changes + 1
    /\ mediaId' = mediaId + 1
    /\ content' \in {0, 1}
    /\ UNCHANGED <<pc, mode, run, status, apfs, scan, guards, reader, images>>

\* One read of either extraction.  The firmware refuses a stale media_id, and
\* extract_jumpstart refuses damaged metadata.
ReadBlock ==
    /\ pc = "read"
    /\ \/ /\ mediaId = geometry
          /\ IF Len(first) < DriverBlocks
             THEN first' = Append(first, content) /\ UNCHANGED second
             ELSE second' = Append(second, content) /\ UNCHANGED first
          /\ Continue(IF Len(second') = DriverBlocks THEN "compare" ELSE "read", guards)
       \/ /\ FailWith(FirmwareErrors \cup {"MEDIA_CHANGED", "VOLUME_CORRUPTED", "END_OF_FILE"})
          /\ UNCHANGED <<first, second>>
    /\ UNCHANGED <<mode, run, apfs, scan, medium, geometry, images>>

\* Mutant: the two extractions are not compared.
CompareSkipped ==
    /\ pc = "compare"
    /\ Continue("extracted", {})
    /\ UNCHANGED <<mode, run, apfs, scan, medium, reader, images>>

\* Both extractions and the geometry must agree; the guards are dropped with
\* read_driver's frame, before the result is reported.
Compare ==
    /\ pc = "compare"
    /\ IF first # second \/ mediaId # geometry
       THEN Finish("MEDIA_CHANGED")
       ELSE Continue("extracted", {})
    /\ UNCHANGED <<mode, run, apfs, scan, medium, reader, images>>

\* Mode::Extract stops here.
Extracted ==
    /\ pc = "extracted"
    /\ IF mode = "extract" THEN Finish(Success) ELSE Continue("load", {})
    /\ UNCHANGED <<mode, run, apfs, scan, medium, reader, images>>

-----------------------------------------------------------------------------
(* load_driver and start_driver                                            *)

\* Mutant: the handle of a rejected image is discarded.
LoadDriverLeaks ==
    /\ pc = "load"
    /\ \/ Continue("accept", {}) /\ driver' = [driver EXCEPT ![run] = "loaded"]
       \/ FailWith(FirmwareErrors) /\ driver' = [driver EXCEPT ![run] = "loaded"]
    /\ UNCHANGED <<mode, run, apfs, scan, medium, reader, app, refused>>

\* LoadImage: loaded, not loaded, or loaded and rejected; the last is
\* unloaded here.  The device path is copied and its guard dropped before.
LoadDriver ==
    /\ pc = "load"
    /\ \/ /\ Continue("accept", {})
          /\ driver' = [driver EXCEPT ![run] = "loaded"]
          /\ UNCHANGED refused
       \/ /\ FailWith(FirmwareErrors \cup {"UNSUPPORTED", "NOT_READY", "LOAD_ERROR"})
          /\ UNCHANGED <<driver, refused>>
       \/ /\ FailWith(FirmwareErrors)
          /\ \E ok \in BOOLEAN :
               /\ driver' = [driver EXCEPT ![run] = IF ok THEN "gone" ELSE "loaded"]
               /\ refused' = IF ok THEN refused ELSE refused \cup {<<"driver", run>>}
    /\ UNCHANGED <<mode, run, apfs, scan, medium, reader, app>>

\* Only a boot-services driver is started; the guard is dropped with the
\* closure in both cases.
AcceptDriver ==
    /\ pc = "accept"
    /\ \/ Continue("start", {}) /\ UNCHANGED <<driver, refused>>
       \/ /\ FailWith(FirmwareErrors \cup {"UNSUPPORTED"})
          /\ \E ok \in BOOLEAN : UnloadDriver(ok)
    /\ UNCHANGED <<mode, run, apfs, scan, medium, reader, app>>

\* StartImage enters the driver, or fails before; the image is then unloaded.
StartDriver ==
    /\ pc = "start"
    /\ \/ /\ Continue("running", {})
          /\ driver' = [driver EXCEPT ![run] = "running"]
          /\ UNCHANGED refused
       \/ /\ FailWith(FirmwareErrors \cup {"NOT_READY"})
          /\ \E ok \in BOOLEAN : UnloadDriver(ok)
    /\ UNCHANGED <<mode, run, apfs, scan, medium, reader, app>>

\* The driver returns.  With an error the firmware has unloaded it; with a
\* warning it is installed, and any status but SUCCESS unloads it and fails.
DriverReturns ==
    /\ pc = "running"
    /\ \/ /\ Continue("connect", {})
          /\ driver' = [driver EXCEPT ![run] = "resident"]
          /\ UNCHANGED refused
       \/ /\ FailWith(Errors)
          /\ driver' = [driver EXCEPT ![run] = "gone"]
          /\ UNCHANGED refused
       \/ /\ Finish(Warn)
          /\ \E ok \in BOOLEAN :
               /\ driver' = [driver EXCEPT ![run] = IF ok THEN "gone" ELSE "loaded"]
               /\ refused' = IF ok THEN refused ELSE refused \cup {<<"driver", run>>}
    /\ UNCHANGED <<mode, run, apfs, scan, medium, reader, app>>

\* ConnectController; the driver stays resident whatever it returns.
Connect ==
    /\ pc = "connect"
    /\ \/ IF mode = "start" THEN Finish(Success) ELSE Continue("volumes", {})
       \/ FailWith(FirmwareErrors)
    /\ UNCHANGED <<mode, run, apfs, scan, medium, reader, images>>

-----------------------------------------------------------------------------
(* apfs_target::load after the driver is connected                         *)

\* apfs_filesystems::inspect or select_volume, by their outcomes.
Volumes ==
    /\ pc = "volumes"
    /\ \/ IF mode = "filesystems" THEN Finish(Success) ELSE Continue("self", {})
       \/ FailWith(FirmwareErrors \cup MediaErrors
                   \cup {"BAD_BUFFER_SIZE", "NOT_FOUND", "INVALID_PARAMETER"})
    /\ UNCHANGED <<mode, run, apfs, scan, medium, reader, images>>

OpenSelf ==
    /\ pc = "self"
    /\ Continue("self_path", {"self"}) \/ FailWith(FirmwareErrors)
    /\ UNCHANGED <<mode, run, apfs, scan, medium, reader, images>>

\* The device, the self-reference test and the new path; drop(current) comes
\* before the path is built.
CheckSelf ==
    /\ pc = "self_path"
    /\ \/ Continue("load_app", {})
       \/ FailWith(FirmwareErrors \cup {"NOT_FOUND", "UNSUPPORTED", "INVALID_PARAMETER"})
    /\ UNCHANGED <<mode, run, apfs, scan, medium, reader, images>>

\* LoadImage of the application, with the same care for a rejected one.
LoadApp ==
    /\ pc = "load_app"
    /\ \/ /\ Finish(Success)
          /\ app' = [app EXCEPT ![run] = "loaded"]
          /\ UNCHANGED refused
       \/ /\ FailWith(FirmwareErrors \cup {"NOT_READY", "LOAD_ERROR"})
          /\ UNCHANGED <<app, refused>>
       \/ /\ FailWith(FirmwareErrors)
          /\ \E ok \in BOOLEAN :
               /\ app' = [app EXCEPT ![run] = IF ok THEN "gone" ELSE "loaded"]
               /\ refused' = IF ok THEN refused ELSE refused \cup {<<"app", run>>}
    /\ UNCHANGED <<mode, run, apfs, scan, medium, reader, driver>>

\* No more runs.
Finished == pc = "idle" /\ run = MaxRuns /\ UNCHANGED vars

Next ==
    \/ Begin \/ ScanHandle \/ ScanDone
    \/ OpenReader \/ Rewrite \/ Exchange \/ ReadBlock \/ Compare \/ Extracted
    \/ LoadDriver \/ AcceptDriver \/ StartDriver \/ DriverReturns \/ Connect
    \/ Volumes \/ OpenSelf \/ CheckSelf \/ LoadApp \/ Finished

Spec == Init /\ [][Next]_vars

-----------------------------------------------------------------------------
(* Properties                                                              *)

\* The two extractions differ or fail unless every block is of one version of
\* the driver, as long as the medium changes at most twice while it is read
\* (read_driver): no mixture of versions is ever loaded.
NoTornDriver ==
    pc \notin {"idle", "scan", "open", "read", "compare"} =>
        \A i \in 1..DriverBlocks : first[i] = first[1]

\* The partition used is the only APFS partition among all handles the
\* firmware listed, in whatever order they were examined (candidate).
OnlyApfsPartition ==
    pc \notin {"idle", "scan"} => listed \cap apfs = {found}

\* "every guard is dropped before transferring control to a driver", and
\* before reporting, LoadImage, ConnectController and the volume scan.
NoGuardAcrossDriver ==
    pc \in {"idle", "scan", "extracted", "load", "start", "running", "connect", "volumes",
           "load_app"} => guards = {}

\* After a run its driver is resident only if it was accepted, started with
\* SUCCESS and never unloaded; an image that is merely loaded was refused by
\* UnloadImage, or is the application that load returned.
NothingRejectedIsLeft ==
    pc = "idle" =>
        \A r \in 1..run :
            /\ driver[r] # "running"
            /\ driver[r] = "loaded" => <<"driver", r>> \in refused
            /\ app[r] = "loaded" /\ r = run => status = Success \/ <<"app", r>> \in refused
            /\ app[r] = "loaded" => driver[r] = "resident"

\* Neither a run of the driver nor a retry leaves anything behind: no guard is
\* held while another image runs, no rejected image stays, and each retry adds
\* a resident driver only by its own accepted and successful start
\* (start_driver, load).
CleanDriver == NoGuardAcrossDriver /\ NothingRejectedIsLeft
=============================================================================
