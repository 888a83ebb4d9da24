---------------------------- MODULE ConsoleControl ----------------------------
(***************************************************************************)
(* console_control.rs: the lease on a Console Control protocol that is     *)
(* published while the child runs, its callbacks and their bounded,        *)
(* non-recursive serial log.                                               *)
(*                                                                         *)
(* The protocol database may hold a foreign interface (a firmware one, or  *)
(* one a driver installs while ours is being installed or the child runs)  *)
(* and ours.  LocateProtocol may return either.  The callbacks may be      *)
(* re-entered from the serial driver they write to.                        *)
(***************************************************************************)
EXTENDS EfiStatus, Naturals

CONSTANTS
    EventLimit,   \* 64 log lines per provider, scaled down
    MaxEvents,    \* bound on the callbacks of one lease
    MaxLeases     \* bound on the number of leases (boot attempts)

ASSUME ConsoleControlAssumption ==
    /\ EventLimit \in Nat
    /\ MaxEvents \in Nat
    /\ MaxLeases \in Nat

VARIABLES
    pc,         \* "idle", "boxed", "verify", "child", "drop", "resident"
    owned,      \* Lease.owned: "None" or "Some"
    published,  \* interfaces in the protocol database: "own", "foreign"
    storage,    \* the boxed Provider: "none", "live", "freed"
    serial,     \* Provider.serial: "null" or "port"
    events,     \* Provider.events
    logging,    \* Provider.logging: "clear" or "set"
    writing,    \* serial writes in progress (nested ones included)
    written,    \* history: log lines written for this provider
    leases,     \* leases acquired or attempted
    reply       \* status of the last acquire or callback

vars == <<pc, owned, published, storage, serial, events, logging, writing, written,
          leases, reply>>

logVars == <<serial, events, logging, writing, written>>

TypeOK ==
    /\ pc \in {"idle", "boxed", "verify", "child", "drop", "drop_failed", "resident"}
    /\ owned \in {"None", "Some"}
    /\ published \subseteq {"own", "foreign"}
    /\ storage \in {"none", "live", "freed"}
    /\ serial \in {"null", "port"}
    /\ events \in 0..MaxEvents
    /\ logging \in {"clear", "set"}
    /\ writing \in 0..MaxEvents
    /\ written \in 0..MaxEvents
    /\ leases \in 0..MaxLeases
    /\ reply \in Statuses

Init ==
    /\ pc = "idle"
    /\ owned = "None"
    /\ published \in {{}, {"foreign"}}
    /\ storage = "none"
    /\ serial = "null"
    /\ events = 0
    /\ logging = "clear"
    /\ writing = 0
    /\ written = 0
    /\ leases = 0
    /\ reply = Success

\* LocateProtocol through classify_lookup: Ok(Some) is a published interface,
\* Ok(None) only when there is none; a null interface is DEVICE_ERROR.
LocateErrors == FirmwareErrors \cup {"DEVICE_ERROR"}

-----------------------------------------------------------------------------
(* Lease::acquire                                                          *)

\* A published interface is reused and never owned.
AcquireReuse ==
    /\ pc = "idle"
    /\ leases < MaxLeases
    /\ published # {}
    /\ pc' = "child"
    /\ leases' = leases + 1
    /\ reply' = Success
    /\ UNCHANGED <<owned, published, storage, logVars>>

\* The provider is boxed; a missing serial port only silences the log.
AcquireBox ==
    /\ pc = "idle"
    /\ leases < MaxLeases
    /\ published = {}
    /\ pc' = "boxed"
    /\ leases' = leases + 1
    /\ storage' = "live"
    /\ serial' \in {"null", "port"}
    /\ events' = 0
    /\ logging' = "clear"
    /\ writing' = 0
    /\ written' = 0
    /\ UNCHANGED <<owned, published, reply>>

\* The first lookup fails: Err before anything is allocated.
AcquireLookupFailed ==
    /\ pc = "idle"
    /\ leases < MaxLeases
    /\ leases' = leases + 1
    /\ reply' \in LocateErrors \cup {"NOT_READY"}
    /\ UNCHANGED <<pc, owned, published, storage, logVars>>

\* text_state, graphics_exists or InstallProtocolInterface fails: the box is
\* dropped with the frame.
InstallFailed ==
    /\ pc = "boxed"
    /\ pc' = "idle"
    /\ storage' = "freed"
    /\ reply' \in LocateErrors \cup {"NOT_READY"}
    /\ UNCHANGED <<owned, published, logVars, leases>>

\* The interface is published and owned by the lease from here on.
Install ==
    /\ pc = "boxed"
    /\ pc' = "verify"
    /\ published' = published \cup {"own"}
    /\ owned' = "Some"
    /\ UNCHANGED <<storage, logVars, leases, reply>>

\* The second lookup finds exactly our interface.
Verify ==
    /\ pc = "verify"
    /\ "own" \in published
    /\ pc' = "child"
    /\ reply' = Success
    /\ UNCHANGED <<owned, published, storage, logVars, leases>>

\* It fails or finds another interface: the lease is dropped, then Err.
VerifyFailed ==
    /\ pc = "verify"
    /\ pc' = "drop_failed"
    /\ \/ reply' \in LocateErrors
       \/ "foreign" \in published /\ reply' = "DEVICE_ERROR"
    /\ UNCHANGED <<owned, published, storage, logVars, leases>>

-----------------------------------------------------------------------------
(* the child and the callbacks                                             *)

\* A driver publishes its own Console Control while we query the console,
\* install and verify, or while the child runs.
ForeignAppears ==
    /\ pc \in {"boxed", "verify", "child"}
    /\ published' = published \cup {"foreign"}
    /\ UNCHANGED <<pc, owned, storage, logVars, leases, reply>>

\* The status of get_mode, set_mode and lock_stdin: text only, no graphics
\* mode, no locked input; text_state and SetMode may fail in the firmware.
CallbackStatus(op) ==
    CASE op = "get_mode" -> Errors \cup {Success}
      [] op = "set_text" -> Errors \cup {Success}
      [] op = "set_graphics" -> {"UNSUPPORTED"}
      [] op = "set_other" -> {"INVALID_PARAMETER"}
      [] op = "unlock_stdin" -> {Success}
      [] op = "lock_stdin" -> {"DEVICE_ERROR"}
      [] op = "null_this" -> {"INVALID_PARAMETER"}

Callbacks == {"get_mode", "set_text", "set_graphics", "set_other", "unlock_stdin",
              "lock_stdin"}

\* Mutant: the recursion flag is not tested.
MayLogUnguarded == serial = "port" /\ events < EventLimit

\* event(): the short-circuit chain that decides whether a line is written.
MayLog == serial = "port" /\ events < EventLimit /\ logging = "clear"

\* A call into our interface, by the child or from inside a serial write.
\* The counter advances whenever there is a serial port.
Callback(op) ==
    /\ pc = "child"
    /\ "own" \in published
    /\ events < MaxEvents
    /\ reply' \in CallbackStatus(op)
    /\ events' = IF serial = "port" THEN events + 1 ELSE events
    /\ logging' = IF MayLog THEN "set" ELSE logging
    /\ writing' = IF MayLog THEN writing + 1 ELSE writing
    /\ written' = IF MayLog THEN written + 1 ELSE written
    /\ UNCHANGED <<pc, owned, published, storage, serial, leases>>

\* context(null) refuses before the provider is touched.
CallbackNull ==
    /\ pc = "child"
    /\ "own" \in published
    /\ reply' \in CallbackStatus("null_this")
    /\ UNCHANGED <<pc, owned, published, storage, logVars, leases>>

\* The innermost serial write returns and the flag is cleared.
EndWrite ==
    /\ writing > 0
    /\ writing' = writing - 1
    /\ logging' = "clear"
    /\ UNCHANGED <<pc, owned, published, storage, serial, events, written, leases, reply>>

\* StartImage returns: every call the child made has returned.
ChildReturns ==
    /\ pc = "child"
    /\ writing = 0
    /\ pc' = "drop"
    /\ UNCHANGED <<owned, published, storage, logVars, leases, reply>>

-----------------------------------------------------------------------------
(* Drop for Lease                                                          *)

\* Mutant: whatever interface the lease found is removed.
DropReusedRemoves ==
    /\ pc = "drop"
    /\ owned = "None"
    /\ pc' = "idle"
    /\ published' = {}
    /\ UNCHANGED <<owned, storage, logVars, leases, reply>>

\* A reused interface is not removed.
DropReused ==
    /\ pc = "drop"
    /\ owned = "None"
    /\ pc' = "idle"
    /\ UNCHANGED <<owned, published, storage, logVars, leases, reply>>

\* Mutant: self.owned.take() is missing.
DropOwnedKeepsBox ==
    /\ pc \in {"drop", "drop_failed"}
    /\ owned = "Some"
    /\ pc' = "idle"
    /\ published' = published \ {"own"}
    /\ owned' = "None"
    /\ UNCHANGED <<storage, logVars, leases, reply>>

\* The exact pair is uninstalled, then the box is freed.
DropOwned ==
    /\ pc \in {"drop", "drop_failed"}
    /\ owned = "Some"
    /\ pc' = "idle"
    /\ published' = published \ {"own"}
    /\ owned' = "None"
    /\ storage' = "freed"
    /\ UNCHANGED <<logVars, leases, reply>>

\* Mutant: the box is leaked and the loader returns into its unload.
DropRefusedReturns ==
    /\ pc \in {"drop", "drop_failed"}
    /\ owned = "Some"
    /\ pc' = "idle"
    /\ owned' = "None"
    /\ storage' = "freed"
    /\ UNCHANGED <<published, logVars, leases, reply>>

\* UninstallProtocolInterface fails: spin, with storage and code in place.
DropRefused ==
    /\ pc \in {"drop", "drop_failed"}
    /\ owned = "Some"
    /\ pc' = "resident"
    /\ UNCHANGED <<owned, published, storage, logVars, leases, reply>>

\* The loader is resident, or makes no more attempts.
Finished ==
    /\ pc = "resident" \/ (pc = "idle" /\ leases = MaxLeases)
    /\ UNCHANGED vars

Next ==
    \/ AcquireReuse \/ AcquireBox \/ AcquireLookupFailed
    \/ InstallFailed \/ Install \/ Verify \/ VerifyFailed
    \/ ForeignAppears
    \/ \E op \in Callbacks : Callback(op)
    \/ CallbackNull \/ EndWrite \/ ChildReturns
    \/ DropReused \/ DropOwned \/ DropRefused \/ Finished

Spec == Init /\ [][Next]_vars

-----------------------------------------------------------------------------
(* Properties                                                              *)

\* The inductive strengthening: what the lease owns at each control point.
LeaseInv ==
    /\ owned \in {"None", "Some"}
    /\ owned = "Some" => "own" \in published /\ storage = "live"
    /\ owned = "None" => "own" \notin published
    /\ pc \in {"verify", "drop_failed", "resident"} => owned = "Some"
    /\ pc = "boxed" => storage = "live"
    /\ pc \in {"idle", "boxed"} => owned = "None"
    /\ pc \in {"idle", "child", "drop"} /\ owned = "None" => storage # "live"

\* Whoever finds our interface in the protocol database finds live storage,
\* and the loader has not gone back to a point where it may return and be
\* unloaded ("Storage and the containing EFI image must outlive the published
\* callbacks").
PublishedIsCallable ==
    "own" \in published => storage = "live" /\ owned = "Some" /\ pc # "idle"

\* The refinement mapping to the lease the loader sees.  What acquire has
\* installed but not handed out yet is not a lease.
leasePhase ==
    CASE pc = "idle" -> "none"
      [] pc \in {"boxed", "verify", "drop_failed"} -> "acquiring"
      [] pc = "child" -> "held"
      [] pc = "drop" -> "releasing"
      [] pc = "resident" -> "stuck"

leaseKind ==
    IF leasePhase \in {"none", "acquiring"} THEN "none"
    ELSE IF owned = "Some" THEN "owned" ELSE "reused"

Lease == INSTANCE ConsoleLease WITH
    phase <- leasePhase, kind <- leaseKind,
    provider <- IF storage = "live" THEN "live" ELSE "absent"

\* Lease implements its contract with chainload: every acquire answers with a
\* lease or leaves no provider behind, an owned provider lives until its
\* lease is released, and storage that cannot be withdrawn is never freed
\* (Lease::acquire, Drop).
KeepsLease == Lease!Spec

\* A failing or finished lease never takes a foreign interface away.
ForeignSurvives == [][published \ {"own"} \subseteq published']_vars

\* "nested logging cannot recursively issue writes": at most one serial write
\* is in progress, the flag says exactly when, and one provider writes at most
\* EventLimit lines however its callbacks nest.
LogIsBounded ==
    /\ logging = "set" => writing = 1
    /\ logging = "clear" => writing = 0
    /\ written <= EventLimit /\ written <= events
=============================================================================
