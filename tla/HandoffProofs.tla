---------------------------- MODULE HandoffProofs ----------------------------
(***************************************************************************)
(* The handoff for any number of map changes and of attempts to exit.  The *)
(* inductive invariant ties each phase of run_probe to who owns the pages  *)
(* and to whether the boot services are left.                              *)
(***************************************************************************)
EXTENDS Handoff, TLAPS

Starting == {"start", "plan", "data", "allocate", "place"}
Rehearsing == {"stage_data", "copy", "verify", "marker", "prepare", "preview", "check_preview", "forget"}
Leaving == {"get_key", "exit", "reset"}
Left == {"check_final", "write", "entered", "halted"}

\* Who owns the pages, phase by phase.
OwnerInv ==
    /\ pc \in Starting => owner = "none" /\ pages = "none"
    /\ pc \in Rehearsing => owner = "raii" /\ pages = "owned"
    /\ pc \in Leaving \cup Left => owner = "manual" /\ pages = "owned"
    /\ pc = "returned" => owner # "manual" /\ pages # "owned"

\* Which map is in force, phase by phase.
MapInv ==
    /\ services = "exited" <=> pc \in Left
    /\ pc \in Left => final = current
    /\ pc \in {"write", "entered"} => Fit(final)
    /\ pc = "write" => ~Arm
    /\ pc = "entered" /\ ~Arm => args = final /\ copied = final

\* ExitBootServices is only called while attempts are left.
TriesInv ==
    /\ pc \in Rehearsing \cup Starting => tries = 0
    /\ pc \in {"get_key", "exit"} => tries < MaxTries

\* What the pages hold, phase by phase.
Verified == {"preview", "check_preview", "forget", "get_key", "exit", "reset", "check_final",
             "write", "entered", "halted"}
ImageInv ==
    /\ pc \in {"place", "copy", "verify", "marker"} => ~Arm
    /\ pc \in Verified \cup {"marker"} => image = "copied"
    /\ pc = "prepare" /\ ~Arm => image = "copied"

HandoffInv == TypeOK /\ ImageInv /\ TriesInv /\ OwnerInv /\ MapInv /\ late = {}

\* Every step of the handoff keeps the four parts of the invariant.
LEMMA HandoffStep == HandoffInv /\ [Next]_vars => HandoffInv'
<1> SUFFICES ASSUME HandoffInv, [Next]_vars
             PROVE  HandoffInv'
  OBVIOUS
<1>0. source' = source
  BY DEF Next, vars
<1> USE <1>0, HandoffAssumption DEF HandoffInv, Arm, Fit, TriesInv, OwnerInv, MapInv, ImageInv,
       Verified,
     Starting, Rehearsing, Leaving, Left, maps,
     arena
<1>r. ASSUME Return, pc \in Rehearsing PROVE HandoffInv'
  BY <1>r DEF Return, TypeOK
<1>f. CASE ReadArm \/ PlanArm \/ ReadKernel
  BY <1>f DEF ReadArm, PlanArm, ReadKernel, Decide, TypeOK
<1>g. CASE AllocateData
  BY <1>g DEF AllocateData, TypeOK
<1>h. CASE StageData
  BY <1>h, <1>r DEF StageData
<1>1. CASE Allocate
  BY <1>1 DEF Allocate, TypeOK
<1>i. CASE StageArm
  BY <1>i, <1>r DEF StageArm, TypeOK
<1>a. CASE CheckPlan
  BY <1>a DEF CheckPlan, Decide, TypeOK
<1>b. CASE Place
  BY <1>b DEF Place, TypeOK
<1>c. CASE CopyImage
  BY <1>c DEF CopyImage, TypeOK
<1>d. CASE VerifyImage
  BY <1>d, <1>r DEF VerifyImage, ReadBack, TypeOK
<1>e. CASE CheckMarker
  BY <1>e, <1>r DEF CheckMarker, TypeOK
<1>2. CASE Prepare
  BY <1>2, <1>r DEF Prepare, TypeOK
<1>3. CASE Preview
  <2>1. CASE Return
    BY <1>3, <2>1, <1>r DEF Preview
  <2>2. CASE ~Return
    BY <1>3, <2>2 DEF Preview, TypeOK
  <2> QED
    BY <2>1, <2>2
<1>4. CASE CheckPreview
  BY <1>4, <1>r DEF CheckPreview, TypeOK
<1>5. CASE Forget
  BY <1>5 DEF Forget, TypeOK
<1>6. CASE GetKey
  BY <1>6 DEF GetKey, TypeOK
<1>7. CASE Exited
  BY <1>7 DEF Exited, TypeOK
<1>8. CASE ExitRefused
  BY <1>8 DEF ExitRefused, TypeOK
<1>9. CASE CheckFinal
  BY <1>9 DEF CheckFinal, Halt, TypeOK
<1>10. CASE WriteArena
  BY <1>10 DEF WriteArena, TypeOK
<1>11. CASE MapChanges
  <2>1. PICK v \in Verdicts : current' = [version |-> current.version + 1, verdict |-> v]
    BY <1>11 DEF MapChanges
  <2>2. current' \in Maps
    BY <1>11, <2>1 DEF MapChanges, TypeOK, Maps
  <2> QED
    BY <1>11, <2>2 DEF MapChanges, TypeOK
<1>12. CASE UNCHANGED vars
  BY <1>12 DEF vars, TypeOK
<1> QED
  BY <1>f, <1>g, <1>h, <1>i, <1>1, <1>a, <1>b, <1>c, <1>d, <1>e, <1>2, <1>3, <1>4, <1>5, <1>6,
     <1>7, <1>8, <1>9,
     <1>10, <1>11, <1>12
  DEF Next, Stopped

\* The phases, the owner and the maps always agree.
THEOREM HandoffInvariant == Spec => []HandoffInv
<1>1. Init => HandoffInv
  BY HandoffAssumption DEF Init, HandoffInv, TypeOK, TriesInv, OwnerInv, MapInv, ImageInv,
     Verified, Starting, Rehearsing, Leaving, Left, Maps, Verdicts
<1> QED
  BY <1>1, HandoffStep, PTL DEF Spec

\* Once the boot services are left neither a return nor a panic is reached.
THEOREM SilentAfterExit == Spec => []NoFirmwareAfterExit
<1>1. HandoffInv => NoFirmwareAfterExit
  BY DEF HandoffInv, NoFirmwareAfterExit
<1> QED
  BY <1>1, HandoffInvariant, PTL

\* The kernel is entered with its pages, and with the map of the exit.
THEOREM EntrySafe == Spec => []EntersWithFinalMap
<1>1. HandoffInv => EntersWithFinalMap
  BY DEF HandoffInv, OwnerInv, MapInv, ImageInv, Verified, Leaving, Left, EntersWithFinalMap
<1> QED
  BY <1>1, HandoffInvariant, PTL

\* A step of the handoff is a step of the contract of its page range.
LEMMA LifetimeStep == HandoffInv /\ [Next]_vars => [Lifetime!Next]_Lifetime!vars
<1> SUFFICES ASSUME HandoffInv, [Next]_vars
             PROVE  [Lifetime!Next]_Lifetime!vars
  OBVIOUS
<1> USE DEF HandoffInv, OwnerInv, Starting, Rehearsing, Leaving, Left
<1> DEFINE Terminal == {"entered", "halted", "returned", "reset"}
<1>t. /\ pc \in Starting \cup Rehearsing \cup Leaving \cup Left \cup {"returned"}
      /\ owner \in {"none", "raii", "manual"} /\ pages \in {"none", "owned", "freed"}
  BY DEF TypeOK
\* The pages are left alone.
<1>l. ASSUME UNCHANGED <<pages, owner>>, pc \notin Terminal,
             pc' \in Terminal => pages = "none" \/ owner = "manual"
      PROVE  Lifetime!Next
  BY <1>l DEF Lifetime!Next, Lifetime!Leave, Lifetime!Settled
\* An error with pages that have their first owner.
<1>r. ASSUME Return, pc \in Rehearsing PROVE Lifetime!Next
  <2>1. pages = "owned" /\ owner = "raii" /\ pages' = "freed" /\ owner' = "raii"
    BY <1>r DEF Return
  <2>2. pc \notin Terminal
    BY <1>r
  <2> QED
    BY <2>1, <2>2 DEF Lifetime!Next, Lifetime!Free, Lifetime!Settled
\* The three outcomes of an allocation.
<1>a. ASSUME pc \in Starting,
             \/ pc' = "returned" /\ UNCHANGED <<pages, owner>>
             \/ pc' = "returned" /\ pages' = "freed" /\ owner' = "raii"
             \/ pc' \in Rehearsing /\ pages' = "owned" /\ owner' = "raii"
      PROVE  Lifetime!Next
  <2>0. pages = "none" /\ owner = "none" /\ pc \notin Terminal
    BY <1>a
  <2>1. CASE pc' = "returned" /\ UNCHANGED <<pages, owner>>
    BY <2>0, <2>1, <1>l
  <2>2. CASE pc' = "returned" /\ pages' = "freed" /\ owner' = "raii"
    BY <2>0, <2>2 DEF Lifetime!Next, Lifetime!Reject, Lifetime!Settled
  <2>3. CASE pc' \in Rehearsing /\ pages' = "owned" /\ owner' = "raii"
    BY <2>0, <2>3 DEF Lifetime!Next, Lifetime!Allocate, Lifetime!Settled
  <2> QED
    BY <1>a, <2>1, <2>2, <2>3
<1>1. CASE ReadArm \/ PlanArm \/ ReadKernel \/ CheckPlan
  BY <1>1, <1>l DEF ReadArm, PlanArm, ReadKernel, CheckPlan, Decide
<1>2. CASE AllocateData
  BY <1>2, <1>a DEF AllocateData
<1>3. CASE StageData
  BY <1>3, <1>r DEF StageData
<1>4. CASE Allocate
  BY <1>4, <1>a DEF Allocate
<1>5. CASE Place
  BY <1>5, <1>a DEF Place
<1>6. CASE CopyImage
  BY <1>6, <1>l DEF CopyImage
<1>7. CASE VerifyImage \/ CheckMarker \/ StageArm \/ Prepare \/ Preview \/ CheckPreview
  BY <1>7, <1>l, <1>r DEF VerifyImage, CheckMarker, StageArm, Prepare, Preview, CheckPreview
<1>8. CASE Forget
  <2>1. /\ pages = "owned" /\ owner = "raii" /\ UNCHANGED pages /\ owner' = "manual"
        /\ pc = "forget" /\ pc' = "get_key"
    BY <1>8 DEF Forget
  <2> QED
    BY <2>1 DEF Lifetime!Next, Lifetime!Keep, Lifetime!Settled
<1>9. CASE GetKey \/ Exited \/ ExitRefused \/ WriteArena
  BY <1>9, <1>l DEF GetKey, Exited, ExitRefused, WriteArena
<1>10. CASE CheckFinal
  BY <1>10, <1>l DEF CheckFinal, Halt
<1>11. CASE MapChanges
  BY <1>11 DEF MapChanges, Lifetime!vars
<1>12. CASE UNCHANGED vars
  BY <1>12 DEF vars, Lifetime!vars
<1> QED
  BY <1>1, <1>2, <1>3, <1>4, <1>5, <1>6, <1>7, <1>8, <1>9, <1>10, <1>11, <1>12
  DEF Next, Stopped

\* Both loaders keep the contract of a page range for any number of map
\* changes and attempts: the pages are freed once on every error, and never
\* once they must survive the exit.
THEOREM PagesHandedOver == Spec => HandsOverPages
<1>1. Init => Lifetime!Init
  BY DEF Init, Lifetime!Init
<1>2. HandoffInv /\ [Next]_vars => [Lifetime!Next]_Lifetime!vars
  BY LifetimeStep
<1> QED
  BY <1>1, <1>2, HandoffInvariant, PTL DEF Spec, HandsOverPages, Lifetime!Spec
=============================================================================
