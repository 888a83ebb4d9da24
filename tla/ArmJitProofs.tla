---------------------------- MODULE ArmJitProofs ----------------------------
(***************************************************************************)
(* NXARMJIT for every set of releases and builds, any number of protect    *)
(* calls and any number of display modes.                                  *)
(*                                                                         *)
(* The inductive invariant says, file by file, that what was read was      *)
(* accepted and that nothing it was compared with has changed since        *)
(* (ReadWasAccepted); which profile each step of run_trace and run_probe   *)
(* belongs to (Profiles); what the protection of the code pages is around  *)
(* the guest (Protections); and what the screen shows between Blt and the  *)
(* readback (Screens).                                                     *)
(***************************************************************************)
EXTENDS ArmJit, Integers, SequenceTheorems, TLAPS

-----------------------------------------------------------------------------
(* The inductive invariant                                                 *)

Ended == {"unwind", "returned"}

\* The steps up to the entry of the guest.
BeforeGuest ==
    {"config", "inputs", "dispatch", "stage", "trace_config", "display", "plan", "load",
     "companions", "code", "enter"}

\* The steps after the code pages were restored.
AfterRestore == {"examine", "present", "blt", "readback", "capture", "report", "finish"}

Labels == BeforeGuest \cup {"guest", "restore"} \cup AfterRestore \cup {"halted"} \cup Ended

Target == [profile : {"none", "xnu", "trace", "probe", "other"}, path : {"none", "selected", "other"}]
Trace == [video : {"on", "off"}, memory : {"none", "mapped"}, fixture : {"none"} \cup Fixtures]
Calls == [writable : Nat, executable : Nat, failures : Nat]

\* The types of the variables the argument needs.
Types ==
    /\ seals \in [Sealed -> Releases \cup {Nothing}]
    /\ target \in Target
    /\ pc \in Labels
    /\ todo \in Seq(Inputs)
    /\ got \in [Inputs -> Contents \cup {Nothing}]
    /\ trace \in Trace
    /\ code \in {"none", "owned", "freed"}
    /\ protection \in {"writable", "executable"}
    /\ restore \in {"none", "done", "refused"}
    /\ calls \in Calls

\* The place of a file in the order they are read in.
Position ==
    [record |-> 1, image |-> 2, payload_record |-> 3, payload |-> 4, startup_record |-> 5,
     sptm_signed |-> 6, sptm |-> 7, txm_signed |-> 8, txm |-> 9, bootkc_record |-> 10,
     kc_signed |-> 11, kc |-> 12]

\* The files still to be read are the last ones of the chain, and what was
\* read before them was accepted and still would be.
ReadWasAccepted ==
    Selected /\ pc \notin Ended =>
        /\ Len(todo) <= 12
        /\ \A i \in 1..Len(todo) : todo[i] = Chain[(12 - Len(todo)) + i]
        /\ \A f \in Inputs :
              Position[f] <= 12 - Len(todo) =>
                  /\ got[f] \in Contents
                  /\ Accepts(f, got[f])
                  /\ f = "payload" => payload = "owned"

\* Which profile a step belongs to, and that a selected guest is mapped.
Profiles ==
    /\ pc \in {"trace_config", "display", "companions", "code", "present", "readback", "report",
               "finish"} => target.profile = "trace"
    /\ pc \in {"plan", "load", "enter", "guest", "restore", "examine", "blt", "capture"} =>
          target.profile \in {"trace", "probe"}
    /\ pc \notin Ended \cup {"config", "inputs"} => todo = <<>>
    /\ pc = "config" => ~Selected
    /\ Selected /\ pc \in {"display", "plan", "load", "companions", "code", "enter", "guest"} => Mapped

\* The protection of the code pages before, around and after the guest.
Protections ==
    /\ pc \in BeforeGuest => restore = "none" /\ protection = "writable" /\ code # "freed"
    /\ code = "freed" => pc = "returned"
    /\ pc \in AfterRestore => restore # "none" /\ (Probe => restore = "done")
    /\ pc \notin {"guest", "restore"} =>
          /\ restore = "done" => protection = "writable"
          /\ protection = "executable" => restore = "refused"
          /\ restore = "refused" /\ Observing => reported \in Nat /\ reported > 0

\* What the screen shows between Blt and the readback.
Screens ==
    /\ captured \in {"none", "frame", "cleared"}
    /\ pc = "readback" =>
          /\ screen \in {"frame", "skewed", "cleared"}
          /\ screen = "skewed" => mode # planned
    /\ pc = "capture" => screen \in {"frame", "cleared"}

\* What a result stands for.
Results ==
    /\ pc \notin Ended => status = "none"
    /\ pc \in {"blt", "capture"} /\ Probe => Needed \subseteq produced
    /\ OutcomeIsEarned

JitInv == Types /\ ReadWasAccepted /\ Profiles /\ Protections /\ Screens /\ Results

-----------------------------------------------------------------------------
(* Types                                                                   *)

\* The observer's counters stay numbers, and a refused call is counted.
LEMMA CountedIs ==
    ASSUME calls \in Calls, NEW wanted \in {"writable", "executable"}, NEW answer
    PROVE  /\ Counted(wanted, answer) \in Calls
           /\ Observing /\ answer = "refused" => Counted(wanted, answer).failures > 0
<1> DEFINE f == IF answer = "refused" THEN calls.failures + 1 ELSE calls.failures
<1>0. f \in Nat /\ (answer = "refused" => f > 0) /\ calls.writable \in Nat /\ calls.executable \in Nat
  BY DEF Calls
<1>1. CASE wanted = "writable" /\ Observing
  <2>1. Counted(wanted, answer) =
            [writable |-> calls.writable + 1, executable |-> calls.executable, failures |-> f]
    BY <1>1 DEF Calls, Counted
  <2> QED
    BY <1>0, <2>1 DEF Calls
<1>2. CASE wanted = "executable" /\ Observing
  <2>1. Counted(wanted, answer) =
            [writable |-> calls.writable, executable |-> calls.executable + 1, failures |-> f]
    BY <1>2 DEF Calls, Counted
  <2> QED
    BY <1>0, <2>1 DEF Calls
<1>3. CASE ~Observing
  BY <1>3 DEF Counted
<1> QED
  BY <1>1, <1>2, <1>3

\* The chain is a sequence of its files.
LEMMA ChainTypes ==
    Chain \in Seq(Inputs) /\ Len(Chain) = 12 /\ <<"kc">> \in Seq(Inputs)
<1>1. Len(Chain) = 12
  BY DEF Chain
<1>2. \A i \in 1..12 : Chain[i] \in Inputs /\ Position[Chain[i]] = i
  BY <1>1 DEF Chain, Inputs, Position
<1>5. Chain \in Seq(Inputs)
  BY <1>1, <1>2 DEF Chain
<1>6. <<"kc">> \in Seq(Inputs)
  BY <1>1, <1>2 DEF Chain
<1> QED
  BY <1>1, <1>5, <1>6

\* Every file has one place in it.
LEMMA Positions ==
    /\ \A i \in 1..12 : Chain[i] \in Inputs /\ Position[Chain[i]] = i
    /\ \A f \in Inputs : Position[f] \in 1..12 /\ Chain[Position[f]] = f
<1>1. Len(Chain) = 12
  BY DEF Chain
<1>2. \A i \in 1..12 : Chain[i] \in Inputs /\ Position[Chain[i]] = i
  BY <1>1 DEF Chain, Inputs, Position
<1>3. \A f \in Inputs : Position[f] \in 1..12 /\ Chain[Position[f]] = f
  BY <1>1, <1>2 DEF Inputs
<1> QED
  BY <1>2, <1>3

\* A record comes before the files that are compared with it.
LEMMA RecordsFirst ==
    ASSUME NEW f \in Inputs, f \in DOMAIN RecordOf
    PROVE  RecordOf[f] \in Inputs /\ Position[RecordOf[f]] < Position[f]
<1>1. Len(Chain) = 12
  BY DEF Chain
<1> QED
  BY <1>1 DEF Inputs, Chain, RecordOf, Position

\* The invariant holds before the first step.
LEMMA InitInv == Init => JitInv
BY InputsAssumption DEF Init, InputsInit, JitInv, Types, ReadWasAccepted, Profiles, Protections,
   Screens, Results,
   OutcomeIsEarned, Target, Trace, Calls, Labels, BeforeGuest, AfterRestore, Ended, Selected,
   SelectedRequired, Sealed, Inputs, Contents, Fixtures, Probe

\* Every step keeps the types.
LEMMA TypesStep ==
    ASSUME Types, [Next]_vars
    PROVE  Types'
<1> USE DEF Types, Labels, BeforeGuest, AfterRestore, Ended, Kept, Goto, Fail, display, pages,
       guard
<1>c. ASSUME NEW wanted \in {"writable", "executable"}, Protect(wanted)
      PROVE  /\ protection' \in {"writable", "executable"}
             /\ restore' \in {"done", "refused"}
             /\ calls' \in Calls
  BY <1>c, CountedIs DEF Protect
<1>1. CASE LoadInputs
  <2>1. CASE ReadConfig
    BY <1>1, <2>1, ChainTypes DEF LoadInputs, ReadConfig, Target
  <2>2. CASE ReadInput
    BY <1>1, <2>2 DEF LoadInputs, ReadInput
  <2>3. CASE InputRejected \/ InputMissing \/ PlanCollection
    BY <1>1, <2>3 DEF LoadInputs, InputRejected, InputMissing, PlanCollection
  <2> QED
    BY <1>1, <2>1, <2>2, <2>3 DEF LoadInputs, InputsStep
<1>2. CASE Dispatch
  BY <1>2 DEF Dispatch, Trace, Fixtures
<1>3. CASE StageOnly
  BY <1>3 DEF StageOnly
<1>4. CASE TraceConfig
  BY <1>4 DEF TraceConfig, Trace
<1>5. CASE OpenDisplay
  BY <1>5 DEF OpenDisplay
<1>6. CASE MakePlan
  BY <1>6 DEF MakePlan
<1>7. CASE LoadFixture
  BY <1>7 DEF LoadFixture
<1>8. CASE LoadRam
  BY <1>8 DEF LoadRam
<1>9. CASE StageCompanions
  BY <1>9 DEF StageCompanions
<1>10. CASE LoadCode
  BY <1>10 DEF LoadCode
<1>11. CASE EnterMapped
  BY <1>11 DEF EnterMapped
<1>12. CASE EnterGuest
  BY <1>12 DEF EnterGuest
<1>13. CASE GuestProtects
  BY <1>c, <1>13 DEF GuestProtects
<1>14. CASE GuestReturns
  BY <1>14 DEF GuestReturns
<1>15. CASE Restore
  BY <1>c, <1>15 DEF Restore
<1>16. CASE Examine
  BY <1>16 DEF Examine
<1>17. CASE Present
  BY <1>17 DEF Present, CheckGeometry
<1>18. CASE Blt
  BY <1>18 DEF Blt, BoundsPanic
<1>19. CASE Readback
  BY <1>19 DEF Readback, CheckGeometry
<1>20. CASE Capture
  BY <1>20 DEF Capture, BoundsPanic
<1>21. CASE Report
  BY <1>21 DEF Report
<1>22. CASE Finish
  BY <1>22 DEF Finish
<1>23. CASE Unwind
  BY <1>23 DEF Unwind
<1>24. CASE ModeChanges
  BY <1>24 DEF ModeChanges
<1>25. CASE Returned
  BY <1>25 DEF Returned, vars, inputVars
<1>26. CASE UNCHANGED vars
  BY <1>26 DEF vars, inputVars
<1> QED
  BY <1>1, <1>2, <1>3, <1>4, <1>5, <1>6, <1>7, <1>8, <1>9, <1>10, <1>11, <1>12, <1>13, <1>14,
     <1>15, <1>16, <1>17, <1>18, <1>19, <1>20, <1>21, <1>22, <1>23, <1>24, <1>25, <1>26 DEF Next

-----------------------------------------------------------------------------
(* The files                                                               *)

\* Reading a file leaves what was accepted before it accepted: it is neither
\* one of the files read before nor a record they were compared with.
LEMMA ReadAccepted ==
    ASSUME Types, ReadWasAccepted, Selected, ReadInput
    PROVE  ReadWasAccepted'
<1> DEFINE f0 == Head(todo)
<1>1. /\ pc = "inputs" /\ todo # <<>> /\ todo' = Tail(todo)
      /\ UNCHANGED <<build, seals, target>>
      /\ payload' = IF f0 = "payload" THEN "owned" ELSE payload
  BY DEF ReadInput
<1>2. PICK c \in Contents : Accepts(f0, c) /\ got' = [got EXCEPT ![f0] = c]
  BY DEF ReadInput
<1>a. todo \in Seq(Inputs) /\ todo # <<>> /\ Len(todo) <= 12
  BY <1>1 DEF Types, ReadWasAccepted, Ended
<1>b. PICK n \in 1..12 : n = Len(todo)
  <2>1. Len(todo) \in Nat \ {0}
    BY <1>a, EmptySeq
  <2>2. PICK k \in Nat \ {0} : k = Len(todo)
    BY <2>1
  <2>3. k <= 12
    BY <1>a, <2>2
  <2>4. k \in 1..12
    BY <2>3
  <2> QED
    BY <2>2, <2>4
<1>3. /\ f0 = todo[1]
      /\ Len(todo') = n - 1
      /\ \A i \in 1..(n - 1) : todo'[i] = todo[i + 1]
  BY <1>1, <1>a, <1>b
<1>4. /\ \A i \in 1..n : todo[i] = Chain[(12 - n) + i]
      /\ \A f \in Inputs : Position[f] <= 12 - n =>
            got[f] \in Contents /\ Accepts(f, got[f]) /\ (f = "payload" => payload = "owned")
  BY <1>1, <1>b DEF ReadWasAccepted, Ended
<1>5. f0 \in Inputs /\ Position[f0] = 13 - n
  <2>0. 1 \in 1..n /\ (12 - n) + 1 = 13 - n /\ 13 - n \in 1..12
    OBVIOUS
  <2>1. f0 = Chain[13 - n]
    BY <1>3, <1>4, <2>0
  <2> QED
    BY <2>0, <2>1, Positions
<1>6. \A i \in 1..(n - 1) : todo'[i] = Chain[(12 - (n - 1)) + i]
  <2> SUFFICES ASSUME NEW i \in 1..(n - 1)
               PROVE  todo'[i] = Chain[(13 - n) + i]
    BY <1>3
  <2>1. i + 1 \in 1..n /\ (12 - n) + (i + 1) = (13 - n) + i
    BY <1>3
  <2>2. todo[i + 1] = Chain[(12 - n) + (i + 1)]
    BY <1>4, <2>1
  <2> QED
    BY <1>3, <2>1, <2>2
<1>7. Selected'
  BY <1>1 DEF Selected, SelectedRequired, Has
<1>8. ASSUME NEW f \in Inputs, Position[f] <= 13 - n
      PROVE  /\ got'[f] \in Contents
             /\ Accepts(f, got[f])'
             /\ f = "payload" => payload' = "owned"
  <2>1. f \in DOMAIN RecordOf => got'[RecordOf[f]] = got[RecordOf[f]]
    <3> SUFFICES ASSUME f \in DOMAIN RecordOf
                 PROVE  got'[RecordOf[f]] = got[RecordOf[f]]
      OBVIOUS
    <3>1. RecordOf[f] \in Inputs /\ Position[RecordOf[f]] < Position[f]
      BY RecordsFirst
    <3>2. Position[RecordOf[f]] \in 1..12 /\ Position[f] \in 1..12
      BY <3>1, Positions
    <3>3. RecordOf[f] # f0
      BY <1>3, <1>5, <1>8, <3>1, <3>2
    <3> QED
      BY <1>2, <3>1, <3>3 DEF Types
  <2>2. f # "record" => got'["record"] = got["record"]
    <3> SUFFICES ASSUME f # "record"
                 PROVE  got'["record"] = got["record"]
      OBVIOUS
    <3>1. "record" \in Inputs /\ Position["record"] = 1
      BY Positions DEF Chain
    <3>2. Position[f] \in 1..12 /\ Position[f] # 1
      BY <3>1, Positions
    <3>3. f0 # "record"
      BY <1>3, <1>5, <1>8, <3>1, <3>2
    <3> QED
      BY <3>1, <3>3, <1>2 DEF Types
  <2>3. ASSUME NEW d, Accepts(f, d), got'[f] = d
        PROVE  Accepts(f, got[f])'
    <3> USE <1>1, <2>1, <2>2, <2>3
    <3> QED
      BY <1>7 DEF Accepts, Selected, SelectedRequired, Has, Sealed
  <2>4. CASE f = f0
    BY <2>4, <2>3, <1>1, <1>2 DEF Types
  <2>5. CASE f # f0
    <3>1. Position[f] <= 12 - n
      <4>1. Position[f] # Position[f0]
        BY <1>5, <2>5, Positions
      <4> QED
        BY <4>1, <1>3, <1>5, <1>8, Positions
    <3>2. got[f] \in Contents /\ Accepts(f, got[f]) /\ (f = "payload" => payload = "owned")
      BY <3>1, <1>4
    <3>3. got'[f] = got[f]
      BY <2>5, <1>2 DEF Types
    <3> QED
      BY <3>2, <3>3, <2>3, <1>1
  <2> QED
    BY <2>4, <2>5
<1>9. Len(todo') = n - 1 /\ n - 1 <= 12 /\ 12 - (n - 1) = 13 - n
  BY <1>3
<1>10. \A i \in 1..Len(todo') : todo'[i] = Chain[(12 - Len(todo')) + i]
  BY <1>6, <1>9
<1>11. \A f \in Inputs :
         Position[f] <= 12 - Len(todo') =>
             /\ got'[f] \in Contents
             /\ Accepts(f, got[f])'
             /\ f = "payload" => payload' = "owned"
  BY <1>8, <1>9
<1> QED
  BY <1>9, <1>10, <1>11 DEF ReadWasAccepted

\* An image is read only after its inputs were accepted.
LEMMA AcceptedStep ==
    ASSUME Types, Profiles, ReadWasAccepted, [Next]_vars
    PROVE  ReadWasAccepted'
<1>k. ASSUME UNCHANGED <<build, seals, target, todo, got, payload>>, pc \notin Ended
      PROVE  ReadWasAccepted'
  BY <1>k DEF ReadWasAccepted, Accepts, Selected, SelectedRequired, Has
<1>e. ASSUME pc' \in Ended
      PROVE  ReadWasAccepted'
  BY <1>e DEF ReadWasAccepted
<1> USE DEF Kept, Goto, Fail, Ended
<1>1. CASE LoadInputs
  <2>1. CASE ReadConfig
    <3>1. CASE pc' = "unwind"
      BY <3>1, <1>e
    <3>2. CASE pc' # "unwind"
      <4>1. pc' = "inputs" /\ todo' = IF Selected' THEN Chain ELSE <<"kc">>
        BY <2>1, <3>2 DEF ReadConfig, Selected, SelectedRequired, Has
      <4>2. Selected' => todo' = Chain /\ Len(todo') = 12
        BY <4>1, ChainTypes
      <4>3. \A f \in Inputs : ~(Position[f] <= 12 - 12)
        BY Positions
      <4>4. \A i \in 1..12 : Chain[i] = Chain[(12 - 12) + i]
        <5>1. \A i \in 1..12 : (12 - 12) + i = i
          OBVIOUS
        <5> QED
          BY <5>1, Zenon
      <4>5. CASE Selected'
        <5> DEFINE k == 12
        <5>1. todo' = Chain /\ Len(todo') = k /\ k <= 12
          BY <4>2, <4>5
        <5>2. \A i \in 1..k : Chain[i] = Chain[(12 - k) + i]
          BY <4>4
        <5>3. \A f \in Inputs : ~(Position[f] <= 12 - k)
          BY <4>3
        <5> HIDE DEF k
        <5> QED
          BY <5>1, <5>2, <5>3 DEF ReadWasAccepted
      <4> QED
        BY <4>5 DEF ReadWasAccepted
    <3> QED
      BY <3>1, <3>2
  <2>2. CASE ReadInput
    <3>1. Selected' = Selected
      BY <2>2 DEF ReadInput, Selected, SelectedRequired, Has
    <3>2. CASE Selected
      BY <2>2, <3>2, ReadAccepted
    <3>3. CASE ~Selected
      BY <3>1, <3>3 DEF ReadWasAccepted
    <3> QED
      BY <3>2, <3>3
  <2>3. CASE InputRejected \/ InputMissing
    BY <1>e, <2>3 DEF InputRejected, InputMissing
  <2>4. CASE PlanCollection
    BY <1>e, <1>k, <2>4 DEF PlanCollection
  <2> QED
    BY <1>1, <2>1, <2>2, <2>3, <2>4 DEF LoadInputs, InputsStep
<1>2. CASE Dispatch
  BY <1>k, <1>2 DEF Dispatch
<1>3. CASE StageOnly
  BY <1>k, <1>3 DEF StageOnly
<1>4. CASE TraceConfig
  BY <1>k, <1>4 DEF TraceConfig
<1>5. CASE OpenDisplay
  BY <1>k, <1>5 DEF OpenDisplay
<1>6. CASE MakePlan
  BY <1>k, <1>6 DEF MakePlan
<1>7. CASE LoadFixture
  BY <1>k, <1>7 DEF LoadFixture
<1>8. CASE LoadRam
  BY <1>k, <1>8 DEF LoadRam
<1>9. CASE StageCompanions
  BY <1>k, <1>9 DEF StageCompanions
<1>10. CASE LoadCode
  BY <1>k, <1>10 DEF LoadCode
<1>11. CASE EnterMapped
  BY <1>k, <1>11 DEF EnterMapped
<1>12. CASE EnterGuest
  BY <1>k, <1>12 DEF EnterGuest
<1>13. CASE GuestProtects
  BY <1>k, <1>13 DEF GuestProtects
<1>14. CASE GuestReturns
  BY <1>k, <1>14 DEF GuestReturns
<1>15. CASE Restore
  BY <1>k, <1>15 DEF Restore
<1>16. CASE Examine
  BY <1>k, <1>16 DEF Examine
<1>17. CASE Present
  BY <1>k, <1>17 DEF Present
<1>18. CASE Blt
  BY <1>k, <1>18 DEF Blt, BoundsPanic
<1>19. CASE Readback
  BY <1>k, <1>19 DEF Readback
<1>20. CASE Capture
  BY <1>k, <1>20 DEF Capture, BoundsPanic
<1>21. CASE Report
  BY <1>k, <1>21 DEF Report
<1>22. CASE Finish
  BY <1>k, <1>22 DEF Finish
<1>23. CASE Unwind
  BY <1>e, <1>23 DEF Unwind
<1>24. CASE ModeChanges
  BY <1>k, <1>24 DEF ModeChanges
<1>25. CASE Returned
  BY <1>e, <1>k, <1>25 DEF Returned, vars, inputVars
<1>26. CASE UNCHANGED vars
  BY <1>26, <1>k, <1>e DEF vars, inputVars
<1> QED
  BY <1>1, <1>2, <1>3, <1>4, <1>5, <1>6, <1>7, <1>8, <1>9, <1>10, <1>11, <1>12, <1>13, <1>14,
     <1>15, <1>16, <1>17, <1>18, <1>19, <1>20, <1>21, <1>22, <1>23, <1>24, <1>25, <1>26 DEF Next

-----------------------------------------------------------------------------
(* The steps                                                               *)

\* The profile, the mapping and the build agree at every step.
LEMMA ProfilesStep ==
    ASSUME Types, Profiles, [Next]_vars
    PROVE  Profiles'
<1> USE DEF Profiles, Ended, Kept, Goto, Fail, Selected, SelectedRequired, Has, Probe, Mapped
<1>1. CASE LoadInputs
  BY <1>1 DEF LoadInputs, InputsStep, ReadConfig, ReadInput, InputRejected, InputMissing,
     PlanCollection
<1>2. CASE Dispatch
  BY <1>2 DEF Dispatch
<1>3. CASE StageOnly
  BY <1>3 DEF StageOnly
<1>4. CASE TraceConfig
  BY <1>4 DEF TraceConfig, Types, Trace
<1>5. CASE OpenDisplay
  BY <1>5 DEF OpenDisplay
<1>6. CASE MakePlan
  BY <1>6 DEF MakePlan
<1>7. CASE LoadFixture
  BY <1>7 DEF LoadFixture
<1>8. CASE LoadRam
  BY <1>8 DEF LoadRam
<1>9. CASE StageCompanions
  BY <1>9 DEF StageCompanions
<1>10. CASE LoadCode
  BY <1>10 DEF LoadCode
<1>11. CASE EnterMapped
  BY <1>11 DEF EnterMapped
<1>12. CASE EnterGuest
  BY <1>12 DEF EnterGuest
<1>13. CASE GuestProtects
  BY <1>13 DEF GuestProtects
<1>14. CASE GuestReturns
  BY <1>14 DEF GuestReturns
<1>15. CASE Restore
  BY <1>15 DEF Restore
<1>16. CASE Examine
  BY <1>16 DEF Examine
<1>17. CASE Present
  BY <1>17 DEF Present, CheckGeometry
<1>18. CASE Blt
  BY <1>18 DEF Blt, BoundsPanic
<1>19. CASE Readback
  BY <1>19 DEF Readback, CheckGeometry
<1>20. CASE Capture
  BY <1>20 DEF Capture, BoundsPanic
<1>21. CASE Report
  BY <1>21 DEF Report
<1>22. CASE Finish
  BY <1>22 DEF Finish
<1>23. CASE Unwind
  BY <1>23 DEF Unwind
<1>24. CASE ModeChanges
  BY <1>24 DEF ModeChanges
<1>25. CASE Returned
  BY <1>25 DEF Returned, vars, inputVars
<1>26. CASE UNCHANGED vars
  BY <1>26 DEF vars, inputVars
<1> QED
  BY <1>1, <1>2, <1>3, <1>4, <1>5, <1>6, <1>7, <1>8, <1>9, <1>10, <1>11, <1>12, <1>13, <1>14,
     <1>15, <1>16, <1>17, <1>18, <1>19, <1>20, <1>21, <1>22, <1>23, <1>24, <1>25, <1>26 DEF Next

\* The protection of the code pages and the calls that changed it agree.
LEMMA ProtectionsStep ==
    ASSUME Types, Profiles, Protections, [Next]_vars
    PROVE  Protections'
<1> USE DEF Protections, BeforeGuest, AfterRestore, Ended, Kept, Goto, Fail, pages, guard,
       Probe, Observing, Has
<1>c. ASSUME Protect("writable")
      PROVE  /\ restore' \in {"done", "refused"}
             /\ restore' = "done" => protection' = "writable"
             /\ Observing /\ restore' = "refused" => calls'.failures \in Nat /\ calls'.failures > 0
  <2>1. calls' \in Calls /\ (Observing /\ restore' = "refused" => calls'.failures > 0)
    BY <1>c, CountedIs DEF Protect, Types
  <2> QED
    BY <1>c, <2>1 DEF Protect, Calls
<1>1. CASE LoadInputs
  BY <1>1 DEF LoadInputs, InputsStep, ReadConfig, ReadInput, InputRejected, InputMissing,
     PlanCollection
<1>2. CASE Dispatch
  BY <1>2 DEF Dispatch
<1>3. CASE StageOnly
  BY <1>3 DEF StageOnly
<1>4. CASE TraceConfig
  BY <1>4 DEF TraceConfig
<1>5. CASE OpenDisplay
  BY <1>5 DEF OpenDisplay
<1>6. CASE MakePlan
  BY <1>6 DEF MakePlan
<1>7. CASE LoadFixture
  BY <1>7 DEF LoadFixture
<1>8. CASE LoadRam
  BY <1>8 DEF LoadRam
<1>9. CASE StageCompanions
  BY <1>9 DEF StageCompanions
<1>10. CASE LoadCode
  BY <1>10 DEF LoadCode
<1>11. CASE EnterMapped
  BY <1>11 DEF EnterMapped
<1>12. CASE EnterGuest
  BY <1>12 DEF EnterGuest
<1>13. CASE GuestProtects
  BY <1>13 DEF GuestProtects, Types
<1>14. CASE GuestReturns
  BY <1>14 DEF GuestReturns
<1>15. CASE Restore
  BY <1>c, <1>15 DEF Restore
<1>16. CASE Examine
  BY <1>16 DEF Examine
<1>17. CASE Present
  BY <1>17 DEF Present, CheckGeometry
<1>18. CASE Blt
  BY <1>18 DEF Blt, BoundsPanic
<1>19. CASE Readback
  BY <1>19 DEF Readback, CheckGeometry
<1>20. CASE Capture
  BY <1>20 DEF Capture, BoundsPanic
<1>21. CASE Report
  BY <1>21 DEF Report
<1>22. CASE Finish
  BY <1>22 DEF Finish
<1>23. CASE Unwind
  BY <1>23 DEF Unwind
<1>24. CASE ModeChanges
  BY <1>24 DEF ModeChanges
<1>25. CASE Returned
  BY <1>25 DEF Returned, vars, inputVars
<1>26. CASE UNCHANGED vars
  BY <1>26 DEF vars, inputVars
<1> QED
  BY <1>1, <1>2, <1>3, <1>4, <1>5, <1>6, <1>7, <1>8, <1>9, <1>10, <1>11, <1>12, <1>13, <1>14,
     <1>15, <1>16, <1>17, <1>18, <1>19, <1>20, <1>21, <1>22, <1>23, <1>24, <1>25, <1>26 DEF Next

\* What the screen shows follows from the mode Blt was called in.
LEMMA ScreensStep ==
    ASSUME Types, Profiles, Screens, [Next]_vars
    PROVE  Screens'
<1> USE DEF Screens, Kept, Goto, Fail, display, Probe
<1>1. CASE LoadInputs
  BY <1>1 DEF LoadInputs, InputsStep, ReadConfig, ReadInput, InputRejected, InputMissing,
     PlanCollection
<1>2. CASE Dispatch
  BY <1>2 DEF Dispatch
<1>3. CASE StageOnly
  BY <1>3 DEF StageOnly
<1>4. CASE TraceConfig
  BY <1>4 DEF TraceConfig
<1>5. CASE OpenDisplay
  BY <1>5 DEF OpenDisplay
<1>6. CASE MakePlan
  BY <1>6 DEF MakePlan
<1>7. CASE LoadFixture
  BY <1>7 DEF LoadFixture
<1>8. CASE LoadRam
  BY <1>8 DEF LoadRam
<1>9. CASE StageCompanions
  BY <1>9 DEF StageCompanions
<1>10. CASE LoadCode
  BY <1>10 DEF LoadCode
<1>11. CASE EnterMapped
  BY <1>11 DEF EnterMapped
<1>12. CASE EnterGuest
  BY <1>12 DEF EnterGuest
<1>13. CASE GuestProtects
  BY <1>13 DEF GuestProtects
<1>14. CASE GuestReturns
  BY <1>14 DEF GuestReturns
<1>15. CASE Restore
  BY <1>15 DEF Restore
<1>16. CASE Examine
  BY <1>16 DEF Examine
<1>17. CASE Present
  BY <1>17 DEF Present, CheckGeometry
<1>18. CASE Blt
  BY <1>18 DEF Blt, BoundsPanic, Profiles
<1>19. CASE Readback
  BY <1>19 DEF Readback, CheckGeometry
<1>20. CASE Capture
  BY <1>20 DEF Capture, BoundsPanic
<1>21. CASE Report
  BY <1>21 DEF Report
<1>22. CASE Finish
  BY <1>22 DEF Finish
<1>23. CASE Unwind
  BY <1>23 DEF Unwind
<1>24. CASE ModeChanges
  BY <1>24 DEF ModeChanges
<1>25. CASE Returned
  BY <1>25 DEF Returned, vars, inputVars
<1>26. CASE UNCHANGED vars
  BY <1>26 DEF vars, inputVars
<1> QED
  BY <1>1, <1>2, <1>3, <1>4, <1>5, <1>6, <1>7, <1>8, <1>9, <1>10, <1>11, <1>12, <1>13, <1>14,
     <1>15, <1>16, <1>17, <1>18, <1>19, <1>20, <1>21, <1>22, <1>23, <1>24, <1>25, <1>26 DEF Next

\* A result is set at the end only, and is earned.
LEMMA ResultsStep ==
    ASSUME Types, Profiles, Protections, Screens, Results, [Next]_vars
    PROVE  Results'
<1> USE DEF Results, OutcomeIsEarned, Needed, Ended, Kept, Goto, Fail, display, guard, Probe
<1>1. CASE LoadInputs
  BY <1>1 DEF LoadInputs, InputsStep, ReadConfig, ReadInput, InputRejected, InputMissing,
     PlanCollection
<1>2. CASE Dispatch
  BY <1>2 DEF Dispatch
<1>3. CASE StageOnly
  BY <1>3 DEF StageOnly
<1>4. CASE TraceConfig
  BY <1>4 DEF TraceConfig
<1>5. CASE OpenDisplay
  BY <1>5 DEF OpenDisplay
<1>6. CASE MakePlan
  BY <1>6 DEF MakePlan
<1>7. CASE LoadFixture
  BY <1>7 DEF LoadFixture
<1>8. CASE LoadRam
  BY <1>8 DEF LoadRam
<1>9. CASE StageCompanions
  BY <1>9 DEF StageCompanions
<1>10. CASE LoadCode
  BY <1>10 DEF LoadCode
<1>11. CASE EnterMapped
  BY <1>11 DEF EnterMapped
<1>12. CASE EnterGuest
  BY <1>12 DEF EnterGuest
<1>13. CASE GuestProtects
  BY <1>13 DEF GuestProtects
<1>14. CASE GuestReturns
  BY <1>14 DEF GuestReturns
<1>15. CASE Restore
  BY <1>15 DEF Restore
<1>16. CASE Examine
  BY <1>16 DEF Examine
<1>17. CASE Present
  BY <1>17 DEF Present, CheckGeometry, Profiles
<1>18. CASE Blt
  BY <1>18 DEF Blt, BoundsPanic
<1>19. CASE Readback
  BY <1>19 DEF Readback, CheckGeometry, Profiles
<1>20. CASE Capture
  BY <1>20 DEF Capture, BoundsPanic, Protections, AfterRestore
<1>21. CASE Report
  BY <1>21 DEF Report
<1>22. CASE Finish
  BY <1>22 DEF Finish, Types, Profiles, Protections, AfterRestore
<1>23. CASE Unwind
  BY <1>23 DEF Unwind
<1>24. CASE ModeChanges
  BY <1>24 DEF ModeChanges
<1>25. CASE Returned
  BY <1>25 DEF Returned, vars, inputVars
<1>26. CASE UNCHANGED vars
  BY <1>26 DEF vars, inputVars
<1> QED
  BY <1>1, <1>2, <1>3, <1>4, <1>5, <1>6, <1>7, <1>8, <1>9, <1>10, <1>11, <1>12, <1>13, <1>14,
     <1>15, <1>16, <1>17, <1>18, <1>19, <1>20, <1>21, <1>22, <1>23, <1>24, <1>25, <1>26 DEF Next

-----------------------------------------------------------------------------
(* The page ranges                                                         *)

\* The steps before the guest's RAM is allocated.
NoRam == {"config", "inputs", "dispatch", "stage", "trace_config", "display", "plan", "load"}

\* Which of the three ranges exist at each step: a step that allocates one
\* finds none, and the payload is read once.
Ranges ==
    /\ {ram, code, payload} \subseteq {"none", "owned", "freed"}
    /\ pc \in NoRam => ram = "none"
    /\ pc \in NoRam \cup {"companions", "code"} => code = "none"
    /\ pc # "returned" => ram # "freed" /\ code # "freed"
    /\ pc \notin Ended => payload # "freed"
    /\ pc = "returned" => "owned" \notin {ram, code, payload}
    /\ pc = "config" => payload = "none"
    /\ pc = "inputs" /\ (\E i \in 1..Len(todo) : todo[i] = "payload") => payload = "none" /\ Selected

\* How a step may change a range.
Moves(old, new) ==
    \/ new = old
    \/ old = "none" /\ new \in {"owned", "freed"}
    \/ old = "owned" /\ new = "freed"

\* After the payload no later file of the chain is the payload again.
LEMMA PayloadOnce ==
    ASSUME Types, ReadWasAccepted, Selected, pc = "inputs", todo # <<>>, Head(todo) = "payload"
    PROVE  \A i \in 1..Len(Tail(todo)) : Tail(todo)[i] # "payload"
<1>a. todo \in Seq(Inputs) /\ todo # <<>> /\ Len(todo) <= 12
  BY DEF Types, ReadWasAccepted, Ended
<1>b. PICK n \in 1..12 : n = Len(todo)
  <2>1. Len(todo) \in Nat \ {0}
    BY <1>a, EmptySeq
  <2>2. PICK k \in Nat \ {0} : k = Len(todo)
    BY <2>1
  <2>3. k <= 12
    BY <1>a, <2>2
  <2>4. k \in 1..12
    BY <2>3
  <2> QED
    BY <2>2, <2>4
<1>1. /\ todo[1] = "payload" /\ Len(Tail(todo)) = n - 1
      /\ \A i \in 1..(n - 1) : Tail(todo)[i] = todo[i + 1]
  BY <1>a, <1>b
<1>2. \A i \in 1..n : todo[i] = Chain[(12 - n) + i]
  BY <1>b DEF ReadWasAccepted, Ended
<1>3. ASSUME NEW i \in 1..(n - 1) PROVE Tail(todo)[i] # "payload"
  <2> DEFINE p == (12 - n) + 1
             q == (12 - n) + (i + 1)
  <2>1. 1 \in 1..n /\ i + 1 \in 1..n
    OBVIOUS
  <2>2. p \in 1..12 /\ q \in 1..12 /\ p # q
    BY <2>1
  <2>3. todo[1] = Chain[p] /\ todo[i + 1] = Chain[q]
    BY <1>2, <2>1
  <2> HIDE DEF p, q
  <2>4. Position[Chain[p]] = p /\ Position[Chain[q]] = q
    BY <2>2, Positions
  <2> QED
    BY <1>1, <2>2, <2>3, <2>4
<1> QED
  BY <1>1, <1>3

\* Every step keeps the ranges where they belong, allocates what is not
\* there and frees what is.
LEMMA RangesStep ==
    ASSUME Types, ReadWasAccepted, Ranges, [Next]_vars
    PROVE  /\ Ranges'
           /\ \/ UNCHANGED <<pc, ram, code, payload>>
              \/ /\ pc # "returned"
                 /\ Moves(ram, ram') /\ Moves(code, code') /\ Moves(payload, payload')
<1> USE DEF Moves, NoRam, Ended, Kept, Goto, Fail, pages
<1>1. CASE LoadInputs
  <2>1. CASE ReadConfig
    <3>1. pc' = "inputs" => todo' = IF Selected' THEN Chain ELSE <<"kc">>
      BY <2>1 DEF ReadConfig, Selected, SelectedRequired, Has, Fail
    <3>2. pc' = "inputs" /\ ~Selected' => \A i \in 1..Len(todo') : todo'[i] # "payload"
      <4>1. \A i \in 1..Len(<<"kc">>) : <<"kc">>[i] # "payload"
        OBVIOUS
      <4>2. pc' = "inputs" /\ ~Selected' => todo' = <<"kc">>
        BY <3>1
      <4> QED
        BY <4>1, <4>2, Zenon
    <3>3. UNCHANGED <<ram, code, payload>> /\ pc = "config" /\ pc' \in {"inputs", "unwind"}
      BY <1>1, <2>1 DEF LoadInputs, ReadConfig
    <3> QED
      BY <3>2, <3>3 DEF Ranges
  <2>2. CASE ReadInput
    <3>0. /\ UNCHANGED <<ram, code>> /\ pc = "inputs" /\ pc' = "inputs" /\ todo # <<>>
          /\ todo' = Tail(todo) /\ Selected' = Selected
          /\ payload' = IF Head(todo) = "payload" THEN "owned" ELSE payload
      BY <1>1, <2>2 DEF LoadInputs, ReadInput, Selected, SelectedRequired, Has
    <3>1. /\ Len(todo) \in Nat \ {0} /\ Head(todo) = todo[1] /\ Len(Tail(todo)) = Len(todo) - 1
          /\ \A i \in 1..Len(Tail(todo)) : i + 1 \in 1..Len(todo) /\ Tail(todo)[i] = todo[i + 1]
      BY <3>0 DEF Types
    <3>2. CASE Head(todo) = "payload"
      <4>1. 1 \in 1..Len(todo) /\ todo[1] = "payload"
        BY <3>1, <3>2
      <4>2. payload = "none" /\ Selected
        BY <3>0, <4>1 DEF Ranges
      <4>3. \A i \in 1..Len(todo') : todo'[i] # "payload"
        BY <3>0, <3>2, <4>2, PayloadOnce
      <4> QED
        BY <3>0, <3>2, <4>2, <4>3 DEF Ranges
    <3>3. CASE Head(todo) # "payload"
      <4>1. (\E i \in 1..Len(todo') : todo'[i] = "payload")
                => \E i \in 1..Len(todo) : todo[i] = "payload"
        BY <3>0, <3>1
      <4> QED
        BY <3>0, <3>3, <4>1 DEF Ranges
    <3> QED
      BY <3>2, <3>3
  <2>3. CASE InputRejected
    <3>0. /\ UNCHANGED <<ram, code>> /\ pc = "inputs" /\ pc' = "unwind" /\ todo # <<>>
          /\ payload' = IF Head(todo) = "payload" THEN "freed" ELSE payload
      BY <1>1, <2>3 DEF LoadInputs, InputRejected
    <3>1. Head(todo) = "payload" => 1 \in 1..Len(todo) /\ todo[1] = "payload"
      BY <3>0 DEF Types
    <3>2. Head(todo) = "payload" => payload = "none"
      BY <3>0, <3>1 DEF Ranges
    <3> QED
      BY <3>0, <3>2 DEF Ranges
  <2>4. CASE InputMissing \/ PlanCollection
    BY <1>1, <2>4 DEF LoadInputs, InputMissing, PlanCollection, Ranges
  <2> QED
    BY <1>1, <2>1, <2>2, <2>3, <2>4 DEF LoadInputs, InputsStep
<1> USE DEF Ranges
<1>2. CASE Dispatch
  BY <1>2 DEF Dispatch
<1>3. CASE StageOnly
  BY <1>3 DEF StageOnly
<1>4. CASE TraceConfig
  BY <1>4 DEF TraceConfig
<1>5. CASE OpenDisplay
  BY <1>5 DEF OpenDisplay
<1>6. CASE MakePlan
  BY <1>6 DEF MakePlan
<1>7. CASE LoadFixture
  BY <1>7 DEF LoadFixture
<1>8. CASE LoadRam
  BY <1>8 DEF LoadRam
<1>9. CASE StageCompanions
  BY <1>9 DEF StageCompanions
<1>10. CASE LoadCode
  BY <1>10 DEF LoadCode
<1>11. CASE EnterMapped
  BY <1>11 DEF EnterMapped
<1>12. CASE EnterGuest
  BY <1>12 DEF EnterGuest
<1>13. CASE GuestProtects
  BY <1>13 DEF GuestProtects
<1>14. CASE GuestReturns
  BY <1>14 DEF GuestReturns
<1>15. CASE Restore
  BY <1>15 DEF Restore
<1>16. CASE Examine
  BY <1>16 DEF Examine
<1>17. CASE Present
  BY <1>17 DEF Present, CheckGeometry
<1>18. CASE Blt
  BY <1>18 DEF Blt, BoundsPanic
<1>19. CASE Readback
  BY <1>19 DEF Readback, CheckGeometry
<1>20. CASE Capture
  BY <1>20 DEF Capture, BoundsPanic
<1>21. CASE Report
  BY <1>21 DEF Report
<1>22. CASE Finish
  BY <1>22 DEF Finish
<1>23. CASE Unwind
  BY <1>23 DEF Unwind
<1>24. CASE ModeChanges
  BY <1>24 DEF ModeChanges
<1>25. CASE UNCHANGED vars
  BY <1>25 DEF vars, inputVars, Selected, SelectedRequired, Has
<1> QED
  BY <1>1, <1>2, <1>3, <1>4, <1>5, <1>6, <1>7, <1>8, <1>9, <1>10, <1>11, <1>12, <1>13, <1>14,
     <1>15, <1>16, <1>17, <1>18, <1>19, <1>20, <1>21, <1>22, <1>23, <1>24, <1>25 DEF Next, Returned

-----------------------------------------------------------------------------
(* The theorems                                                            *)

\* The inductive invariant holds: nothing that was read and compared changes
\* afterwards, and the pages, the screen and the result are at each step of
\* run_trace and run_probe where the code left them.
THEOREM JitInvariant == Spec => []JitInv
<1>1. Init => JitInv
  BY InitInv
<1>2. JitInv /\ [Next]_vars => JitInv'
  BY TypesStep, AcceptedStep, ProfilesStep, ProtectionsStep, ScreensStep, ResultsStep DEF JitInv
<1> QED
  BY <1>1, <1>2, PTL DEF Spec

\* For any releases and any state of the partition, a selected run goes on
\* only with an image, a payload, two companions and a collection of the one
\* release both seals name, and its guest is mapped.
THEOREM SelectionIsOne == Spec => []OneSelection
<1>1. ASSUME JitInv
      PROVE  OneSelection
  <2>1. ASSUME Selected, Prepared
        PROVE  /\ payload = "owned"
               /\ \E r \in Releases : \A f \in Used, s \in Sealed : got[f] = r /\ seals[s] = r
    <3>1. pc \notin Ended /\ Len(todo) = 0
      BY <1>1, <2>1 DEF JitInv, Profiles, Prepared, Ended
    <3>2. ASSUME NEW f \in Inputs
          PROVE  /\ got[f] \in Contents
                 /\ Accepts(f, got[f])
                 /\ f = "payload" => payload = "owned"
      <4>1. Position[f] <= 12 - Len(todo)
        BY <3>1, Positions
      <4> QED
        BY <1>1, <2>1, <3>1, <4>1 DEF JitInv, ReadWasAccepted
    <3>3. {"record", "payload_record"} \cup Used \cup Sealed \subseteq Inputs
      BY Positions DEF Chain, Used, Sealed
    <3>4. payload = "owned"
      BY <3>2, <3>3 DEF Used
    <3> DEFINE r == got["record"]
    <3>5. got["startup_record"] = r /\ got["bootkc_record"] = r /\ got["startup_record"] # Torn
      BY <2>1, <3>2, <3>3 DEF Accepts, Sealed
    <3>6. r \in Releases
      BY <3>2, <3>3, <3>5 DEF Contents
    <3>7. seals["startup_record"] = r /\ seals["bootkc_record"] = r
      BY <2>1, <3>2, <3>3, <3>5 DEF Accepts, Sealed
    <3>8. got["image"] = r /\ got["payload"] = r
      BY <2>1, <3>2, <3>3 DEF Accepts, Used, RecordOf
    <3>9. got["sptm"] = r /\ got["txm"] = r /\ got["kc"] = r
      BY <2>1, <3>2, <3>3, <3>5 DEF Accepts, Used, RecordOf
    <3>10. \A f \in Used, s \in Sealed : got[f] = r /\ seals[s] = r
      BY <3>7, <3>8, <3>9 DEF Used, Sealed
    <3> QED
      BY <3>4, <3>6, <3>10
  <2>2. Selected /\ pc = "guest" => Mapped
    BY <1>1 DEF JitInv, Profiles
  <2> QED
    BY <2>1, <2>2 DEF OneSelection
<1> QED
  BY <1>1, JitInvariant, PTL

\* Code pages are given back executable only after a refused restore, which
\* no build hides behind SUCCESS or ABORTED and an observing one reports.
THEOREM PagesRestored == Spec => []RestoredBeforeFreed
<1>1. JitInv => RestoredBeforeFreed
  BY DEF JitInv, Protections, Results, OutcomeIsEarned, RestoredBeforeFreed, Ended
<1> QED
  BY <1>1, JitInvariant, PTL

\* SUCCESS and ABORTED mean what they stand for on every path.
THEOREM ResultsEarned == Spec => []OutcomeIsEarned
<1>1. JitInv => OutcomeIsEarned
  BY DEF JitInv, Results
<1> QED
  BY <1>1, JitInvariant, PTL

\* However often another agent changes the display mode, the readback sees
\* the guest's frame or a cleared screen.
THEOREM ReadbackSafe == Spec => []ReadbackSeesGuest
<1>1. JitInv => ReadbackSeesGuest
  BY DEF JitInv, Screens, ReadbackSeesGuest
<1> QED
  BY <1>1, JitInvariant, PTL

\* The ranges are where they belong at every step.
LEMMA RangesInvariant == Spec => []Ranges
<1>1. Init => Ranges
  BY DEF Init, InputsInit, Ranges, NoRam, Ended
<1>2. JitInv /\ Ranges /\ [Next]_vars => Ranges'
  BY RangesStep DEF JitInv
<1> QED
  BY <1>1, <1>2, JitInvariant, PTL DEF Spec

\* Whichever step of run fails, the guest's RAM, the code pages and the
\* payload are allocated once, freed once and not held when efi_main returns.
THEOREM EveryRangeFreed == Spec => FreesEveryRange
<1>1. Init => RamLife!Init /\ CodeLife!Init /\ PayloadLife!Init
  BY DEF Init, InputsInit, RamLife!Init, CodeLife!Init, PayloadLife!Init, Attempts, Over
<1>2. ASSUME JitInv, Ranges, [Next]_vars
      PROVE  /\ [RamLife!Next]_RamLife!vars
             /\ [CodeLife!Next]_CodeLife!vars
             /\ [PayloadLife!Next]_PayloadLife!vars
  <2>1. /\ Ranges'
        /\ \/ UNCHANGED <<pc, ram, code, payload>>
           \/ /\ pc # "returned"
              /\ Moves(ram, ram') /\ Moves(code, code') /\ Moves(payload, payload')
    BY <1>2, RangesStep DEF JitInv
  <2>2. CASE UNCHANGED <<pc, ram, code, payload>>
    BY <2>2 DEF RamLife!vars, CodeLife!vars, PayloadLife!vars, Attempts, Over
  <2>3. ASSUME pc # "returned", Moves(ram, ram') PROVE RamLife!Next
    <3>0. pc' = "returned" => ram' \in {"none", "freed"}
      BY <2>1 DEF Ranges
    <3> USE <2>3, <3>0 DEF RamLife!Next, RamLife!Settled, Attempts, Over
    <3>1. CASE ram' = ram
      BY <3>1 DEF RamLife!Leave
    <3>2. CASE ram = "none" /\ ram' = "owned"
      BY <3>2 DEF RamLife!Allocate
    <3>3. CASE ram = "none" /\ ram' = "freed"
      BY <3>3 DEF RamLife!Reject
    <3>4. CASE ram = "owned" /\ ram' = "freed"
      BY <3>4 DEF RamLife!Free
    <3> QED
      BY <3>1, <3>2, <3>3, <3>4 DEF Moves
  <2>4. ASSUME pc # "returned", Moves(code, code') PROVE CodeLife!Next
    <3>0. pc' = "returned" => code' \in {"none", "freed"}
      BY <2>1 DEF Ranges
    <3> USE <2>4, <3>0 DEF CodeLife!Next, CodeLife!Settled, Attempts, Over
    <3>1. CASE code' = code
      BY <3>1 DEF CodeLife!Leave
    <3>2. CASE code = "none" /\ code' = "owned"
      BY <3>2 DEF CodeLife!Allocate
    <3>3. CASE code = "none" /\ code' = "freed"
      BY <3>3 DEF CodeLife!Reject
    <3>4. CASE code = "owned" /\ code' = "freed"
      BY <3>4 DEF CodeLife!Free
    <3> QED
      BY <3>1, <3>2, <3>3, <3>4 DEF Moves
  <2>5. ASSUME pc # "returned", Moves(payload, payload') PROVE PayloadLife!Next
    <3>0. pc' = "returned" => payload' \in {"none", "freed"}
      BY <2>1 DEF Ranges
    <3> USE <2>5, <3>0 DEF PayloadLife!Next, PayloadLife!Settled, Attempts, Over
    <3>1. CASE payload' = payload
      BY <3>1 DEF PayloadLife!Leave
    <3>2. CASE payload = "none" /\ payload' = "owned"
      BY <3>2 DEF PayloadLife!Allocate
    <3>3. CASE payload = "none" /\ payload' = "freed"
      BY <3>3 DEF PayloadLife!Reject
    <3>4. CASE payload = "owned" /\ payload' = "freed"
      BY <3>4 DEF PayloadLife!Free
    <3> QED
      BY <3>1, <3>2, <3>3, <3>4 DEF Moves
  <2> QED
    BY <2>1, <2>2, <2>3, <2>4, <2>5
<1> QED
  BY <1>1, <1>2, JitInvariant, RangesInvariant, PTL
  DEF Spec, FreesEveryRange, RamLife!Spec, CodeLife!Spec, PayloadLife!Spec
=============================================================================
