------------------------- MODULE ConsoleControlProofs -------------------------
(***************************************************************************)
(* Proofs about ConsoleControl for any log limit, number of callbacks and  *)
(* number of leases.                                                       *)
(***************************************************************************)
EXTENDS ConsoleControl, TLAPS

\* The counters and flags the log's bound rests on keep their types.
LogTypes ==
    /\ logging \in {"clear", "set"}
    /\ events \in Nat /\ writing \in Nat /\ written \in Nat

\* The log invariant is inductive: every callback, nested or not, either
\* writes under the flag or not at all.
LEMMA LogStep ==
    ASSUME LogTypes, LogIsBounded, [Next]_vars
    PROVE  (LogTypes /\ LogIsBounded)'
<1> USE ConsoleControlAssumption DEF LogTypes, LogIsBounded, logVars
<1>1. CASE AcquireBox
  BY <1>1 DEF AcquireBox
<1>2. ASSUME NEW op \in Callbacks, Callback(op)
      PROVE  (LogTypes /\ LogIsBounded)'
  <2>1. CASE MayLog
    <3>1. serial = "port" /\ logging = "clear" /\ events < EventLimit
      BY <2>1 DEF MayLog
    <3>2. writing' = 1 /\ written' = written + 1 /\ logging' = "set" /\ events' = events + 1
      BY <1>2, <2>1, <3>1 DEF Callback
    <3> QED
      BY <1>2, <3>1, <3>2 DEF Callback
  <2>2. CASE ~MayLog
    <3>1. writing' = writing /\ written' = written /\ logging' = logging
      BY <1>2, <2>2 DEF Callback
    <3>2. events' \in Nat /\ events' >= events
      BY <1>2 DEF Callback
    <3> QED
      BY <3>1, <3>2
  <2> QED
    BY <2>1, <2>2
<1>3. CASE EndWrite
  BY <1>3 DEF EndWrite
<1>4. CASE UNCHANGED logVars
  BY <1>4
<1> QED
  BY <1>1, <1>2, <1>3, <1>4
     DEF Next, vars, AcquireReuse, AcquireLookupFailed, InstallFailed, Install, Verify,
         VerifyFailed, ForeignAppears, CallbackNull, ChildReturns, DropReused, DropOwned,
         DropRefused, Finished

\* At most one serial write is in progress and at most EventLimit lines are
\* written per provider, however deeply the callbacks nest.
THEOREM LogBounded == Spec => []LogIsBounded
<1>1. Init => LogTypes /\ LogIsBounded
  BY ConsoleControlAssumption DEF Init, LogTypes, LogIsBounded
<1>2. LogTypes /\ LogIsBounded /\ [Next]_vars => (LogTypes /\ LogIsBounded)'
  BY LogStep
<1> QED
  BY <1>1, <1>2, PTL DEF Spec

-----------------------------------------------------------------------------

\* One step of the lease keeps what is owned where it belongs.
LEMMA LeaseStep ==
    ASSUME LeaseInv, [Next]_vars
    PROVE  LeaseInv'
<1> USE DEF LeaseInv
<1>1. CASE AcquireReuse \/ AcquireBox \/ AcquireLookupFailed
  BY <1>1 DEF AcquireReuse, AcquireBox, AcquireLookupFailed
<1>2. CASE InstallFailed \/ Install
  BY <1>2 DEF InstallFailed, Install
<1>3. CASE Verify \/ VerifyFailed \/ ForeignAppears
  BY <1>3 DEF Verify, VerifyFailed, ForeignAppears
<1>4. CASE CallbackNull \/ EndWrite \/ ChildReturns \/ \E op \in Callbacks : Callback(op)
  BY <1>4 DEF CallbackNull, EndWrite, ChildReturns, Callback
<1>5. CASE DropReused \/ DropOwned \/ DropRefused
  BY <1>5 DEF DropReused, DropOwned, DropRefused
<1>6. CASE UNCHANGED vars
  BY <1>6 DEF vars
<1> QED
  BY <1>1, <1>2, <1>3, <1>4, <1>5, <1>6 DEF Next, Finished

\* The lease's ownership is an invariant.
LEMMA LeaseInvariant == Spec => []LeaseInv
<1>1. Init => LeaseInv
  BY DEF Init, LeaseInv
<1>2. LeaseInv /\ [Next]_vars => LeaseInv'
  BY LeaseStep
<1> QED
  BY <1>1, <1>2, PTL DEF Spec

\* A published interface always has live storage behind it and a loader that
\* has not returned.
THEOREM PublishedCallable == Spec => []PublishedIsCallable
<1>1. LeaseInv => PublishedIsCallable
  BY DEF LeaseInv, PublishedIsCallable
<1> QED
  BY <1>1, LeaseInvariant, PTL

\* Every step of the provider's lease is a step of the contract or none.  The
\* control point gives the phase; LeaseInv adds that a lease in its last steps
\* has a provider exactly if it owns one.
LEMMA LeaseStepKept ==
    ASSUME LeaseInv, [Next]_vars
    PROVE  [Lease!Next]_(Lease!vars)
<1> USE DEF LeaseInv, leasePhase, leaseKind
<1>1. CASE AcquireReuse
  <2>1. Lease!Reuse
    BY <1>1 DEF AcquireReuse, Lease!Reuse
  <2> QED
    BY <2>1 DEF Lease!Next
<1>2. CASE AcquireBox \/ Install \/ VerifyFailed
  <2>1. Lease!Acquire
    BY <1>2 DEF AcquireBox, Install, VerifyFailed, Lease!Acquire
  <2> QED
    BY <2>1 DEF Lease!Next
<1>3. CASE InstallFailed
  <2>1. Lease!Refuse
    BY <1>3 DEF InstallFailed, Lease!Refuse
  <2> QED
    BY <2>1 DEF Lease!Next
<1>4. CASE Verify
  <2>1. Lease!Own
    BY <1>4 DEF Verify, Lease!Own
  <2> QED
    BY <2>1 DEF Lease!Next
<1>5. CASE ChildReturns
  <2>1. Lease!Return
    BY <1>5 DEF ChildReturns, Lease!Return
  <2> QED
    BY <2>1 DEF Lease!Next
<1>6. CASE DropReused \/ (pc = "drop" /\ DropOwned)
  <2>1. Lease!Release
    BY <1>6 DEF DropReused, DropOwned, Lease!Release
  <2> QED
    BY <2>1 DEF Lease!Next
<1>7. CASE pc = "drop_failed" /\ DropOwned
  <2>1. Lease!Refuse
    BY <1>7 DEF DropOwned, Lease!Refuse
  <2> QED
    BY <2>1 DEF Lease!Next
<1>8. CASE DropRefused
  <2>1. Lease!Stick
    BY <1>8 DEF DropRefused, Lease!Stick
  <2> QED
    BY <2>1 DEF Lease!Next
<1>9. CASE UNCHANGED <<pc, owned, storage>>
  BY <1>9 DEF Lease!vars
<1> QED
  BY <1>1, <1>2, <1>3, <1>4, <1>5, <1>6, <1>7, <1>8, <1>9
     DEF Next, vars, AcquireLookupFailed, ForeignAppears, Callback, CallbackNull, EndWrite,
         DropOwned, Finished

\* console_control.rs implements the lease chainload relies on.
THEOREM LeaseKept == Spec => KeepsLease
<1>1. Init => Lease!Init
  BY DEF Init, Lease!Init, leasePhase, leaseKind
<1>2. LeaseInv /\ [Next]_vars => [Lease!Next]_(Lease!vars)
  BY LeaseStepKept
<1> QED
  BY <1>1, <1>2, LeaseInvariant, PTL DEF Spec, KeepsLease, Lease!Spec

\* The contract says what it is meant to say: whoever keeps it has live
\* callbacks exactly while a lease that owns them is held or stuck.
LEMMA ContractIsSafe == Lease!Spec => []Lease!LeaseSafe
<1> DEFINE LInv == Lease!LeaseTypes /\ Lease!LeaseSafe
<1>1. Lease!Init => LInv
  BY DEF Lease!Init, Lease!LeaseTypes, Lease!LeaseSafe
<1>2. LInv /\ [Lease!Next]_(Lease!vars) => LInv'
  BY DEF Lease!Next, Lease!vars, Lease!LeaseTypes, Lease!LeaseSafe, Lease!Acquire, Lease!Reuse,
         Lease!Own, Lease!Refuse, Lease!Return, Lease!Release, Lease!Stick
<1>3. LInv => Lease!LeaseSafe
  OBVIOUS
<1> QED
  BY <1>1, <1>2, <1>3, PTL DEF Lease!Spec

\* Between leases no provider is alive, and during one it is alive exactly if
\* the lease owns it.
THEOREM StorageReleased == Spec => []Lease!LeaseSafe
  BY LeaseKept, ContractIsSafe, PTL DEF KeepsLease

\* No step of the lease removes an interface it does not own.
THEOREM ForeignKept == Spec => ForeignSurvives
<1>1. [Next]_vars => [published \ {"own"} \subseteq published']_vars
  BY DEF Next, vars, AcquireReuse, AcquireBox, AcquireLookupFailed, InstallFailed, Install,
         Verify, VerifyFailed, ForeignAppears, Callback, CallbackNull, EndWrite, ChildReturns,
         DropReused, DropOwned, DropRefused, Finished
<1> QED
  BY <1>1, PTL DEF Spec, ForeignSurvives
=============================================================================
