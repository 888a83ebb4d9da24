--------------------------- MODULE SelectedInputs ---------------------------
(***************************************************************************)
(* The files NXARMJIT reads before it prepares a guest: run of arm_jit.rs  *)
(* with selected_boot_efi.rs, selected_startup_efi.rs and                  *)
(* selected_bootkc_efi.rs.  A selected run reads twelve files in a fixed   *)
(* order and checks each against a record read earlier or against a digest *)
(* sealed into the binary; any other run reads the collection alone.       *)
(*                                                                         *)
(* The content of a file is the release it was prepared from, or "torn".   *)
(* Every read may return another content: the partition may hold files of  *)
(* several releases, and it may be written to between two reads.           *)
(***************************************************************************)
EXTENDS Naturals, Sequences

CONSTANTS
    Releases,   \* the releases the files were prepared from
    Builds      \* sets of features the binary may have been built with

Torn == "torn"
Nothing == "nothing"
Contents == Releases \cup {Torn}

ASSUME InputsAssumption == Releases # {} /\ Torn \notin Releases /\ Nothing \notin Releases

VARIABLES
    build,    \* the features of this binary
    seals,    \* the digests build.rs put into it
    target,   \* the profile and path config.plist asks for
    pc,       \* the next step
    status,   \* what efi_main is going to return
    todo,     \* the files still to be read
    got,      \* the content accepted for each file
    payload   \* the pages of SelectedBootPayload: "none", "owned" or "freed"

inputVars == <<build, seals, target, pc, status, todo, got, payload>>

Has(feature) == feature \in build

\* selected_boot_efi::load and load_payload, selected_startup_efi::load and
\* selected_bootkc_efi::load, in the order run calls them.
Chain == <<"record", "image", "payload_record", "payload",
           "startup_record", "sptm_signed", "sptm", "txm_signed", "txm",
           "bootkc_record", "kc_signed", "kc">>
Inputs == {Chain[i] : i \in 1..Len(Chain)}
Sealed == {"startup_record", "bootkc_record"}
Records == {"record", "payload_record"} \cup Sealed

\* Whose digest verify_selected_image compares a file with.
RecordOf == [image |-> "record", payload |-> "payload_record",
             sptm_signed |-> "startup_record", sptm |-> "startup_record",
             txm_signed |-> "startup_record", txm |-> "startup_record",
             kc_signed |-> "bootkc_record", kc |-> "bootkc_record"]

SelectedRequired(profile) ==
    \/ profile = "xnu"
    \/ Has("selected") /\ profile = "trace"
Selected == SelectedRequired(target.profile)

InputsInit ==
    /\ build \in Builds
    /\ seals \in [Sealed -> Releases \cup {Nothing}]
    /\ target = [profile |-> "none", path |-> "none"]
    /\ pc = "config"
    /\ status = "none"
    /\ todo = <<>>
    /\ got = [f \in Inputs |-> Nothing]
    /\ payload = "none"

\* An error or the final result; the owners are dropped by Unwind.
Fail(s) ==
    /\ pc' = "unwind"
    /\ status' = s

-----------------------------------------------------------------------------
\* helpers::init, config.plist and parse_arm64_kernel_target.
ReadConfig ==
    /\ pc = "config"
    /\ \/ /\ \E t \in [profile : {"xnu", "trace", "probe", "other"}, path : {"selected", "other"}] :
                /\ target' = t
                /\ todo' = IF SelectedRequired(t.profile) THEN Chain ELSE <<"kc">>
          /\ pc' = "inputs"
          /\ UNCHANGED status
       \/ \E s \in {"NOT_READY", "READ_ERROR", "INVALID_PARAMETER"} :
             Fail(s) /\ UNCHANGED <<target, todo>>
    /\ UNCHANGED <<build, seals, got, payload>>

\* Mutant: a sealed record is not bound to the selected image's record.
AcceptsUnbound(f, c) ==
    ~Selected \/ f \in {"record", "payload_record"}
    \/ /\ c # Torn
       /\ f \in DOMAIN RecordOf => c = got[RecordOf[f]]
       /\ f = "payload" => c = got["record"]
       /\ f \in Sealed => c = seals[f]

\* A file that is checked has the content its record or seal names.  The two
\* sealed records must also name the selected record (binds_selected,
\* matches_selected_path), and copy_selected_payload ties the payload to the
\* record and to the image.
Accepts(f, c) ==
    ~Selected \/ f \in {"record", "payload_record"}
    \/ /\ c # Torn
       /\ f \in DOMAIN RecordOf => c = got[RecordOf[f]]
       /\ f = "payload" => c = got["record"]
       /\ f \in Sealed => c = seals[f] /\ c = got["record"]
       /\ f = "bootkc_record" => target.path = "selected"

Unsealed(f) == Selected /\ f \in Sealed /\ seals[f] = Nothing

\* A file is read and accepted.  The pages of the payload are allocated
\* between the read and the check of its content.
ReadInput ==
    /\ pc = "inputs" /\ todo # <<>>
    /\ LET f == Head(todo)
       IN  /\ ~Unsealed(f)
           /\ \E c \in Contents : Accepts(f, c) /\ got' = [got EXCEPT ![f] = c]
           /\ payload' = IF f = "payload" THEN "owned" ELSE payload
    /\ todo' = Tail(todo)
    /\ UNCHANGED <<build, seals, target, pc, status>>

\* The file is read, but it is not what its record names, or a record does
\* not parse or names overlapping paths.
InputRejected ==
    /\ pc = "inputs" /\ todo # <<>>
    /\ LET f == Head(todo)
       IN  /\ ~Unsealed(f)
           /\ Selected /\ (f \in Records \/ \E c \in Contents : ~Accepts(f, c))
           /\ payload' = IF f = "payload" THEN "freed" ELSE payload
    /\ Fail("COMPROMISED_DATA")
    /\ UNCHANGED <<build, seals, target, todo, got>>

\* The build has no seal, read_file fails (its path or the file may also be an
\* INVALID_PARAMETER), or the payload's pages cannot be allocated.
InputMissing ==
    /\ pc = "inputs" /\ todo # <<>>
    /\ LET f == Head(todo)
       IN  \E s \in IF Unsealed(f) \/ (Selected /\ f = "record") THEN {"NOT_READY"}
                    ELSE {"READ_ERROR", "INVALID_PARAMETER"} :
               Fail(s)
    /\ UNCHANGED <<build, seals, target, todo, got, payload>>

\* KcStagingPlan::new_arm64.
PlanCollection ==
    /\ pc = "inputs" /\ todo = <<>>
    /\ \/ pc' = "dispatch" /\ UNCHANGED status
       \/ Fail("LOAD_ERROR")
    /\ UNCHANGED <<build, seals, target, todo, got, payload>>

InputsStep == ReadConfig \/ ReadInput \/ InputRejected \/ InputMissing \/ PlanCollection
=============================================================================
