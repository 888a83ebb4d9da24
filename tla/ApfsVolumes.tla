----------------------------- MODULE ApfsVolumes -----------------------------
(***************************************************************************)
(* apfs_filesystems.rs and the Budget of apfs_observation.rs: the file     *)
(* systems below a partition are found, opened and observed one by one,    *)
(* either to select the one with a label (select_volume, BOOTX64) or to    *)
(* list their root directories (inspect, NXAPFS).                          *)
(*                                                                         *)
(* The firmware decides what every call returns: a directory may never     *)
(* end, a record may claim any size, any call and any close may fail.      *)
(***************************************************************************)
EXTENDS EfiStatus, Integers, Sequences, FiniteSets

CONSTANTS
    HandleCount,   \* number of SimpleFileSystem handles
    Paths,         \* device paths strictly below the partition's
    OtherPath,     \* any other device path
    Names,         \* directory entry names
    MaxVolumes,    \* MAX_VOLUMES = 32, scaled down
    MaxRecord,     \* MAX_RECORD = 4096 bytes, scaled down
    MinRecord,     \* the 82 bytes of a directory record with an empty name
    MaxMetadata,   \* MAX_METADATA = 1 MiB, scaled down
    MaxEntries,    \* MAX_ENTRIES = 128, scaled down
    MaxTotal       \* MAX_TOTAL_ENTRIES = 512, scaled down

ASSUME ApfsVolumesAssumption ==
    /\ OtherPath \notin Paths
    /\ {HandleCount, MaxVolumes, MaxRecord, MinRecord, MaxMetadata, MaxEntries,
        MaxTotal} \subseteq Nat
    /\ {"UNSUPPORTED", "NOT_FOUND"} \cap FirmwareErrors = {}
    /\ 0 < MinRecord /\ MinRecord <= MaxRecord

Indices == 1..HandleCount

VARIABLES
    caller,      \* "select_volume" or "inspect"
    scanStep,    \* the next step
    path,        \* handle -> its device path
    labelled,    \* handles of volumes with the wanted label
    next,        \* the handle (candidates) or the candidate in work
    skipped,     \* handles without a usable device path
    candidates,  \* the handles observe_volume is called for, in order
    held,        \* resource -> opens minus closes so far
    names,       \* Volume.entries of this volume, by name
    records,     \* Volume.records of this volume
    bytes,       \* Budget.bytes
    entries,     \* Budget.entries
    complete,    \* candidates observed without an error
    outcome,     \* result of the closure whose resources are being closed
    result       \* the status returned, NoStatus until then

platform == <<caller, path, labelled>>
volume == <<names, records>>
budget == <<bytes, entries>>
volumesVars == <<scanStep, platform, next, skipped, candidates, held, volume, budget, complete,
                 outcome, result>>

Enumerate == caller = "inspect"
Resources == {"path", "protocol", "root"}
ScanErrors == {"NO_MAPPING", "VOLUME_CORRUPTED"}
\* descendant: the path extends the partition's by at least one node.
Below(i) == path[i] \in Paths
Current == candidates[next]

VolumesTypeOK ==
    /\ caller \in {"select_volume", "inspect"}
    /\ scanStep \in {"list", "path", "path_close", "open", "volume", "info", "root_info", "read",
              "close_root", "close", "done"}
    /\ path \in [Indices -> Paths \cup {OtherPath}]
    /\ labelled \subseteq Indices
    /\ next \in 1..(HandleCount + 1)
    /\ skipped \subseteq Indices
    /\ candidates \in Seq(Indices) /\ Len(candidates) <= MaxVolumes
    /\ held \in [Resources -> Int]
    /\ names \subseteq Names
    /\ records \in 0..MaxEntries
    /\ bytes \in 0..MaxMetadata
    /\ entries \in 0..MaxTotal
    /\ complete \subseteq Indices
    /\ outcome \in Statuses \cup ScanErrors
    /\ result \in Statuses \cup ScanErrors \cup {NoStatus}

VolumesInit ==
    /\ scanStep = "list"
    /\ path \in [Indices -> Paths \cup {OtherPath}]
    /\ caller \in {"select_volume", "inspect"}
    /\ labelled \in SUBSET (IF Enumerate THEN {} ELSE Indices)
    /\ next = 1
    /\ skipped = {} /\ candidates = <<>>
    /\ held = [r \in Resources |-> 0]
    /\ names = {} /\ records = 0
    /\ bytes = 0 /\ entries = 0
    /\ complete = {}
    /\ outcome = Success
    /\ result = NoStatus

-----------------------------------------------------------------------------
(* Helpers                                                                 *)

Return(s) == scanStep' = "done" /\ result' = s
Goto(to) == scanStep' = to /\ UNCHANGED result

\* An open succeeded, or close was called: Protocol::close and Root::close
\* mark the resource inactive first, so Drop does not close it again,
\* whatever the firmware returned.
Opened(r) == held' = [held EXCEPT ![r] = @ + 1]
Closed(r) == held' = [held EXCEPT ![r] = @ - 1]

-----------------------------------------------------------------------------
(* candidates                                                              *)

\* The partition's own path and find_handles: either may fail, and more than
\* MAX_HANDLES handles are refused.
List ==
    /\ scanStep = "list"
    /\ \/ Goto("path")
       \/ \E e \in FirmwareErrors \cup {"UNSUPPORTED", "BAD_BUFFER_SIZE"} : Return(e)
    /\ UNCHANGED <<platform, next, skipped, candidates, held, volume, budget, complete, outcome>>

\* device_path(handle): the open fails, or it succeeds with a null interface,
\* which is closed again; then the path is copied and checked.
PathOpen ==
    /\ scanStep = "path" /\ next <= HandleCount
    /\ \/ /\ Opened("path") /\ Goto("path_close")
          /\ outcome' \in {Success, "BAD_BUFFER_SIZE", "VOLUME_CORRUPTED"}
          /\ UNCHANGED <<next, skipped>>
       \/ /\ skipped' = skipped \cup {next} /\ next' = next + 1
          /\ UNCHANGED <<scanStep, result, held, outcome>>
       \/ /\ \E e \in FirmwareErrors : Return(e)
          /\ UNCHANGED <<next, skipped, held, outcome>>
    /\ UNCHANGED <<platform, candidates, volume, budget, complete>>

\* Mutant: equal paths are not refused.
ClassifyDuplicates ==
    /\ IF Below(next) /\ Len(candidates) = MaxVolumes
       THEN Return("BAD_BUFFER_SIZE") /\ UNCHANGED <<next, candidates>>
       ELSE /\ Goto("path") /\ next' = next + 1
            /\ candidates' = IF Below(next) THEN Append(candidates, next) ELSE candidates

\* The handle with a path: ignored, refused, or a new candidate.
Classify ==
    \/ ~Below(next) /\ Goto("path") /\ next' = next + 1 /\ UNCHANGED candidates
    \/ /\ Below(next) /\ Len(candidates) = MaxVolumes
       /\ Return("BAD_BUFFER_SIZE") /\ UNCHANGED <<next, candidates>>
    \/ /\ Below(next) /\ Len(candidates) < MaxVolumes
       /\ IF \E i \in 1..Len(candidates) : path[candidates[i]] = path[next]
          THEN Return("NO_MAPPING") /\ UNCHANGED <<next, candidates>>
          ELSE /\ Goto("path") /\ next' = next + 1
               /\ candidates' = Append(candidates, next)

\* CloseProtocol: its error replaces the result, and an UNSUPPORTED or
\* NOT_FOUND of either kind skips the handle.
PathClose ==
    /\ scanStep = "path_close"
    /\ Closed("path")
    /\ \/ outcome = Success /\ Classify /\ UNCHANGED skipped
       \/ outcome # Success /\ Return(outcome) /\ UNCHANGED <<next, skipped, candidates>>
       \/ /\ \E e \in FirmwareErrors : Return(e)
          /\ UNCHANGED <<next, skipped, candidates>>
       \/ /\ skipped' = skipped \cup {next} /\ next' = next + 1 /\ Goto("path")
          /\ UNCHANGED candidates
    /\ UNCHANGED <<platform, volume, budget, complete, outcome>>

ListDone ==
    /\ scanStep = "path" /\ next > HandleCount
    /\ IF candidates = <<>> THEN Return("NOT_FOUND") ELSE Goto("open")
    /\ next' = 1
    /\ UNCHANGED <<platform, skipped, candidates, held, volume, budget, complete, outcome>>

-----------------------------------------------------------------------------
(* observe_volume                                                          *)

\* OpenProtocol of the candidate; a null interface is closed again.
Open ==
    /\ scanStep = "open" /\ next <= Len(candidates)
    /\ names' = {} /\ records' = 0
    /\ \/ Opened("protocol") /\ Goto("volume")
       \/ (\E e \in FirmwareErrors \cup {"UNSUPPORTED"} : Return(e)) /\ UNCHANGED held
    /\ UNCHANGED <<platform, next, skipped, candidates, budget, complete, outcome>>

\* OpenVolume; on failure only the protocol is closed.
OpenVolume ==
    /\ scanStep = "volume"
    /\ \/ Opened("root") /\ Goto("info") /\ UNCHANGED outcome
       \/ /\ outcome' \in FirmwareErrors \cup {"UNSUPPORTED"}
          /\ Goto("close") /\ UNCHANGED held
    /\ UNCHANGED <<platform, next, skipped, candidates, volume, budget, complete>>

Remaining == MaxMetadata - bytes

\* Budget::capacity: the room the next response gets.
Capacity == IF Remaining < MaxRecord THEN Remaining ELSE MaxRecord

\* The inner closure ends with s and root.close() follows.
Inner(s) == Goto("close_root") /\ outcome' = s

\* Root::response without a result: no room is left, the firmware fails, or
\* it reports more than the room it was given.
ResponseFailed ==
    /\ scanStep \in {"info", "root_info", "read"}
    /\ IF Remaining < MinRecord
       THEN Inner("BAD_BUFFER_SIZE")
       ELSE \E e \in FirmwareErrors \cup {"VOLUME_CORRUPTED"} : Inner(e)
    /\ UNCHANGED <<platform, next, skipped, candidates, held, volume, budget, complete>>

\* Root::response: room for a record, and the size is charged.
Response(size) ==
    /\ Remaining >= MinRecord
    /\ size <= Capacity
    /\ bytes' = bytes + size

\* sized: the record holds its fixed part and a name.
Sized(size) == size >= MinRecord

\* FileSystemInfo: volume_info rejects it, or the label is known.
Info ==
    /\ scanStep = "info"
    /\ \E size \in 0..MaxRecord :
         /\ Response(size)
         /\ \/ Inner("VOLUME_CORRUPTED")
            \/ size > 0 /\ Enumerate /\ Goto("root_info") /\ UNCHANGED outcome
            \/ size > 0 /\ ~Enumerate /\ Inner(Success)
    /\ UNCHANGED <<platform, next, skipped, candidates, held, volume, entries, complete>>

\* FileInfo of the root directory.
RootInfo ==
    /\ scanStep = "root_info"
    /\ \E size \in 0..MaxRecord :
         /\ Response(size)
         /\ \/ Inner("VOLUME_CORRUPTED")
            \/ Sized(size) /\ Goto("read") /\ UNCHANGED outcome
    /\ UNCHANGED <<platform, next, skipped, candidates, held, volume, entries, complete>>

\* Read returns no bytes: the end of the directory.
ReadEnd ==
    /\ scanStep = "read"
    /\ Response(0)
    /\ Inner(Success)
    /\ UNCHANGED <<platform, next, skipped, candidates, held, volume, entries, complete>>

\* Budget::record: both limits are tested before the record counts.
MayRecord == records < MaxEntries /\ entries < MaxTotal

\* One record: charged, then refused at a limit; then it is counted, and an
\* invalid one or a repeated name is refused.  "." and ".." are not stored.
ReadRecord ==
    /\ scanStep = "read"
    /\ \E size \in 1..MaxRecord :
         /\ Response(size)
         /\ \/ ~MayRecord /\ Inner("BAD_BUFFER_SIZE") /\ UNCHANGED <<names, records, entries>>
            \/ /\ MayRecord
               /\ records' = records + 1 /\ entries' = entries + 1
               /\ \/ Inner("VOLUME_CORRUPTED") /\ UNCHANGED names
                  \/ /\ Sized(size)
                     /\ UNCHANGED <<scanStep, outcome, result, names>>
                  \/ /\ Sized(size)
                     /\ \E n \in Names :
                          IF n \in names
                          THEN Inner("VOLUME_CORRUPTED") /\ UNCHANGED names
                          ELSE names' = names \cup {n} /\ UNCHANGED <<scanStep, outcome, result>>
    /\ UNCHANGED <<platform, next, skipped, candidates, held, complete>>

\* Mutant: an error returns before root.close() and leaves the root open.
CloseRootOnSuccess ==
    /\ scanStep = "close_root"
    /\ IF outcome = Success THEN Closed("root") ELSE UNCHANGED held
    /\ outcome' = outcome
    /\ Goto("close")
    /\ UNCHANGED <<platform, next, skipped, candidates, volume, budget, complete>>

\* root.close(): its error replaces the inner result.
CloseRoot ==
    /\ scanStep = "close_root"
    /\ Closed("root")
    /\ outcome' \in {outcome} \cup FirmwareErrors
    /\ Goto("close")
    /\ UNCHANGED <<platform, next, skipped, candidates, volume, budget, complete>>

\* Mutant: a volume that fails is tried again.
CloseRetries ==
    /\ scanStep = "close"
    /\ Closed("protocol")
    /\ outcome' = Success /\ Goto("open")
    /\ IF outcome = Success
       THEN complete' = complete \cup {Current} /\ next' = next + 1
       ELSE UNCHANGED <<complete, next>>
    /\ UNCHANGED <<platform, skipped, candidates, volume, budget>>

\* lease.close(): likewise; a failed volume ends the scan.
Close ==
    /\ scanStep = "close"
    /\ Closed("protocol")
    /\ \/ /\ outcome = Success
          /\ complete' = complete \cup {Current}
          /\ next' = next + 1
          /\ Goto("open")
       \/ /\ \E e \in ({outcome} \cup FirmwareErrors) \ {Success} : Return(e)
          /\ UNCHANGED <<next, complete>>
    /\ UNCHANGED <<platform, skipped, candidates, volume, budget, outcome>>

\* select_volume counts the candidates with the label; inspect is finished.
Pick ==
    /\ scanStep = "open" /\ next > Len(candidates)
    /\ LET matches == Cardinality(complete \cap labelled)
       IN  Return(IF Enumerate \/ matches = 1 THEN Success
                  ELSE IF matches = 0 THEN "NOT_FOUND" ELSE "NO_MAPPING")
    /\ UNCHANGED <<platform, next, skipped, candidates, held, volume, budget, complete, outcome>>

\* The result has been returned.
Done == scanStep = "done" /\ UNCHANGED volumesVars

Step ==
    \/ List \/ PathOpen \/ PathClose \/ ListDone
    \/ Open \/ OpenVolume \/ ResponseFailed \/ Info \/ RootInfo \/ ReadEnd \/ ReadRecord
    \/ CloseRoot \/ Close \/ Pick

VolumesNext == Step \/ Done

\* Every firmware call returns, and the code never waits for anything else.
VolumesSpec == VolumesInit /\ [][VolumesNext]_volumesVars /\ WF_volumesVars(Step)

-----------------------------------------------------------------------------
(* Properties                                                              *)

\* Every OpenProtocol and OpenVolume is closed exactly once, the root before
\* the protocol it came from, and nothing is held when the result is
\* reported, on every error path (Protocol, Root, observe_volume).
ClosedExactlyOnce ==
    /\ \A r \in Resources : held[r] \in {0, 1}
    /\ held["root"] = 1 => held["protocol"] = 1
    /\ scanStep \in {"path", "open", "done"} => \A r \in Resources : held[r] = 0

\* A selected volume is the only one with the label among all handles below
\* the partition that have a path, and each of them was observed without an
\* error under a path of its own (candidates, select_volume).
SelectedIsUnique ==
    result = Success =>
        LET visible == {i \in Indices \ skipped : Below(i)}
        IN  /\ visible # {} /\ complete = visible
            /\ ~Enumerate => Cardinality(visible \cap labelled) = 1
            /\ \A i, j \in visible : path[i] = path[j] => i = j

\* Whatever a file system driver answers, a directory without an end or
\* records of any size included, the scan returns (observe_volume, Budget).
ScanReturns == <>(scanStep = "done")
=============================================================================
