-------------------------- MODULE BootManagerProofs --------------------------
(***************************************************************************)
(* Proofs about BootManager for every set of menus, every size limit and   *)
(* number of attempts, and every build.                                    *)
(***************************************************************************)
EXTENDS BootManager, TLAPS

USE DEF Success, Warn, NoStatus, Goto, ConsoleControl

\* Every status the loader returns, stores or compares is a known one.
LEMMA StatusFacts ==
    /\ FirmwareErrors \subseteq Errors
    /\ Errors \subseteq Statuses
    /\ \A s \in Statuses : IsError(s) => s \in Errors
    /\ \A s \in Errors : IsError(s)
BY FirmwareErrorsAssumption DEF Errors, Statuses, LoaderErrors, IsError

-----------------------------------------------------------------------------
(* Type correctness                                                        *)

\* Inside chainload there is a current attempt.
CurrentAttempt ==
    pc \in LoadLabels \cup ChildLabels \cup {"returned", "resident"} => attempt \in Attempts

TypeInv == TypeOK /\ CurrentAttempt

\* UnloadImage keeps the types, whether or not the firmware refuses.
LEMMA UnloadType ==
    ASSUME ChainTypeOK, attempt \in Attempts, NEW ok \in BOOLEAN, UnloadImage(ok)
    PROVE  image' \in [Attempts -> ImageStates] /\ refused' \subseteq Attempts
<1>1. CASE ok = TRUE
  BY <1>1 DEF UnloadImage, ChainTypeOK, ImageStates
<1>2. CASE ok = FALSE
  BY <1>2 DEF UnloadImage, ChainTypeOK, ImageStates
<1> QED
  BY <1>1, <1>2

\* Dropping or forgetting the options buffer keeps its type.
LEMMA DropType ==
    ASSUME ChainTypeOK, DropOptions \/ ForgetOptions
    PROVE  options' \in [Attempts -> {"none", "owned", "freed", "retained"}]
BY DEF DropOptions, ForgetOptions, ChainTypeOK

\* The steps of an attempt keep the type invariant.
LEMMA ChainStepType ==
    ASSUME TypeInv, UNCHANGED build, ChainNext, UNCHANGED <<menu, size, position, result>>
    PROVE  TypeInv'
<1> DEFINE Rest == menu \in Menus \cup {NoMenu} /\ size \in 0..MaxConfigBytes
                   /\ position \in 0..MaxConfigBytes
                   /\ result \in Statuses \cup {NoStatus}
<1>0. Rest'
  BY DEF TypeInv, TypeOK
<1> SUFFICES pc' \in Labels /\ ChainTypeOK' /\ CurrentAttempt'
  BY <1>0 DEF TypeInv, TypeOK
<1>a. ChainTypeOK /\ CurrentAttempt /\ pc \in Labels
  BY DEF TypeInv, TypeOK
<1> HIDE DEF Rest
<1> USE <1>a, StatusFacts, ChainloadAssumption
    DEF Labels, ConfigLabels, LoadLabels, ChildLabels, KeyLabels, CurrentAttempt,
        chainVars
<1>1. CASE LoadApfsTarget
  BY <1>1 DEF LoadApfsTarget, ChainTypeOK, ImageStates, Guards, LoadFailed, Errors,
     LoaderErrors, Statuses
<1>2. CASE RejectApfsTarget
  BY <1>2 DEF RejectApfsTarget, ChainTypeOK, ImageStates, Guards, LoadFailed, Errors,
     LoaderErrors, Statuses
<1>3. CASE OpenSelf
  BY <1>3 DEF OpenSelf, ChainTypeOK, ImageStates, Guards, LoadFailed, Errors, LoaderErrors,
     Statuses
<1>4. CASE CheckOwnPath
  BY <1>4 DEF CheckOwnPath, ChainTypeOK, ImageStates, Guards, LoadFailed, Errors, LoaderErrors,
     Statuses
<1>5. CASE BuildPath
  BY <1>5 DEF BuildPath, ChainTypeOK, ImageStates, Guards, LoadFailed, Errors, LoaderErrors,
     Statuses
<1>6. CASE FinishPath
  BY <1>6 DEF FinishPath, ChainTypeOK, ImageStates, Guards, LoadFailed, Errors, LoaderErrors,
     Statuses
<1>7. CASE LoadImage
  BY <1>7 DEF LoadImage, ChainTypeOK, ImageStates, Guards, LoadFailed, Errors, LoaderErrors,
     Statuses
<1>8. CASE OpenChild
  BY <1>8, UnloadType DEF OpenChild, ChainTypeOK, ImageStates, Guards, Errors, LoaderErrors,
     Statuses
<1>9. CASE SetLoadOptions
  BY <1>9 DEF SetLoadOptions, ChainTypeOK, ImageStates, Guards, Errors, LoaderErrors, Statuses
<1>10. CASE RejectDriver
  BY <1>10, UnloadType, DropType DEF RejectDriver, ChainTypeOK, ImageStates, Guards, Return,
     Errors, LoaderErrors, Statuses
<1>11. CASE AcquireLease
  BY <1>11 DEF AcquireLease, ChainTypeOK, ImageStates, Guards, Errors, LoaderErrors, Statuses
<1>12. CASE LeaseFailed
  BY <1>12, UnloadType, DropType DEF LeaseFailed, ChainTypeOK, ImageStates, Guards, Return,
     Errors, LoaderErrors, Statuses
<1>13. CASE LeaseStuck
  BY <1>13 DEF LeaseStuck, ChainTypeOK, ImageStates, Guards, Errors, LoaderErrors, Statuses
<1>14. CASE StartImage
  BY <1>14 DEF StartImage, ChainTypeOK, ImageStates, Guards, Errors, LoaderErrors, Statuses
<1>15. CASE StartRejected
  BY <1>15 DEF StartRejected, ChainTypeOK, ImageStates, Guards, Errors, LoaderErrors, Statuses
<1>16. CASE ChildExits
  BY <1>16 DEF ChildExits, ChainTypeOK, ImageStates, Guards, Errors, LoaderErrors, Statuses
<1>17. CASE FreeExitData
  BY <1>17 DEF FreeExitData, ChainTypeOK, ImageStates, Guards, Errors, LoaderErrors, Statuses
<1>18. CASE ReleaseLease
  BY <1>18 DEF ReleaseLease, ChainTypeOK, ImageStates, Guards, Errors, LoaderErrors, Statuses
<1>19. CASE CleanupGone
  BY <1>19, DropType DEF CleanupGone, ChainTypeOK, ImageStates, Guards, Return, Errors,
     LoaderErrors, Statuses
<1>20. CASE CleanupOpen
  BY <1>20 DEF CleanupOpen, ChainTypeOK, ImageStates, Guards, Errors, LoaderErrors, Statuses
<1>21. CASE CleanupClear
  BY <1>21 DEF CleanupClear, ChainTypeOK, ImageStates, Guards, Errors, LoaderErrors, Statuses
<1>22. CASE CleanupUnload
  BY <1>22, UnloadType, DropType DEF CleanupUnload, ChainTypeOK, ImageStates, Guards, Return,
     Errors, LoaderErrors, Statuses
<1>23. CASE CleanupUnopened
  BY <1>23, UnloadType, DropType DEF CleanupUnopened, ChainTypeOK, ImageStates, Guards, Errors,
     LoaderErrors, Statuses
<1> QED
  BY <1>1, <1>2, <1>3, <1>4, <1>5, <1>6, <1>7, <1>8, <1>9, <1>10, <1>11, <1>12, <1>13, <1>14,
     <1>15, <1>16, <1>17, <1>18, <1>19, <1>20, <1>21, <1>22, <1>23 DEF ChainNext

\* A failed step of read_config keeps the type invariant.
LEMMA ConfigErrorType ==
    ASSUME TypeInv, UNCHANGED build, NEW s \in Errors, ConfigError(s),
           UNCHANGED <<attempt, target, image, loadOptions, options, refused,
                       started, exitData, lease, menu, result>>
    PROVE  TypeInv'
BY StatusFacts DEF ConfigError, TypeInv, TypeOK, ChainTypeOK, CurrentAttempt, Labels,
                   LoadLabels, ChildLabels, Guards

\* The steps of efi_main keep the type invariant.
LEMMA ManagerStepType ==
    ASSUME TypeInv, UNCHANGED build, ManagerNext
    PROVE  TypeInv'
<1> USE StatusFacts, ChainloadAssumption, BootManagerAssumption
    DEF TypeInv, TypeOK, ChainTypeOK, CurrentAttempt, Labels, ConfigLabels,
        LoadLabels, ChildLabels, KeyLabels, Guards, chainVars, Attempts
<1>1. CASE DisableWatchdog
  BY <1>1 DEF DisableWatchdog
<1>2. CASE OpenFileSystem
  <2>1. ASSUME NEW e \in FirmwareErrors, ConfigError(e)
        PROVE  TypeInv'
    <3>1. e \in Errors
      BY <2>1, StatusFacts
    <3> QED
      BY <1>2, <2>1, <3>1, ConfigErrorType DEF OpenFileSystem, OpenStep
  <2>2. ASSUME ~\E e \in FirmwareErrors : ConfigError(e)
        PROVE  TypeInv'
    BY <1>2, <2>2 DEF OpenFileSystem, OpenStep
  <2> QED
    BY <2>1, <2>2
<1>3. CASE OpenVolume
  <2>1. ASSUME NEW e \in FirmwareErrors, ConfigError(e)
        PROVE  TypeInv'
    <3>1. e \in Errors
      BY <2>1, StatusFacts
    <3> QED
      BY <1>3, <2>1, <3>1, ConfigErrorType DEF OpenVolume, OpenStep
  <2>2. ASSUME ~\E e \in FirmwareErrors : ConfigError(e)
        PROVE  TypeInv'
    BY <1>3, <2>2 DEF OpenVolume, OpenStep
  <2> QED
    BY <2>1, <2>2
<1>4. CASE OpenConfig
  <2>1. ASSUME NEW e \in FirmwareErrors \cup {"INVALID_PARAMETER"}, ConfigError(e)
        PROVE  TypeInv'
    <3>1. e \in Errors
      BY <2>1, StatusFacts DEF Errors, LoaderErrors
    <3> QED
      BY <1>4, <2>1, <3>1, ConfigErrorType DEF OpenConfig, OpenStep
  <2>2. CASE pc' = "cfg_info" /\ guards' = guards \cup {"file"} /\ UNCHANGED <<status, size, position>>
    BY <1>4, <2>2 DEF OpenConfig, OpenStep
  <2> QED
    BY <1>4, <2>1, <2>2 DEF OpenConfig, OpenStep
<1>5. CASE ReadConfigInfo
  <2>1. ASSUME NEW e \in FirmwareErrors \cup {"BAD_BUFFER_SIZE"}, ConfigError(e)
        PROVE  TypeInv'
    <3>1. e \in Errors
      BY <2>1, StatusFacts DEF Errors, LoaderErrors
    <3> QED
      BY <1>5, <2>1, <3>1, ConfigErrorType DEF ReadConfigInfo
  <2>2. ASSUME NEW n \in 0..(MaxConfigBytes + 1), ~(n = 0 \/ n > MaxConfigBytes),
               pc' = "cfg_read", size' = n, position' = 0,
               UNCHANGED <<status, guards>>
        PROVE  TypeInv'
    BY <1>5, <2>2 DEF ReadConfigInfo
  <2> QED
    BY <1>5, <2>1, <2>2 DEF ReadConfigInfo
<1>6. CASE ReadConfigBytes
  <2>1. ASSUME NEW e \in FirmwareErrors \cup {"END_OF_FILE"}, ConfigError(e)
        PROVE  TypeInv'
    <3>1. e \in Errors
      BY <2>1, StatusFacts DEF Errors, LoaderErrors
    <3> QED
      BY <1>6, <2>1, <3>1, ConfigErrorType DEF ReadConfigBytes
  <2>2. ASSUME NEW count \in 0..(size - position), position' = position + count,
               UNCHANGED <<pc, status, guards, size>>
        PROVE  TypeInv'
    BY <1>6, <2>2 DEF ReadConfigBytes
  <2> QED
    BY <1>6, <2>1, <2>2 DEF ReadConfigBytes
<1>7. CASE ReadConfigDone
  BY <1>7 DEF ReadConfigDone
<1>8. CASE ParseFailed
  BY <1>8 DEF ParseFailed, Errors, LoaderErrors, Statuses
<1>9. CASE ParseMenu
  <2>1. menu' \in Menus /\ menu'.entries # <<>>
    BY <1>9 DEF ParseMenu
  <2>2. menu'.entries \in Seq(Targets)
    BY <2>1
  <2>3. menu'.entries[1] \in Targets
    BY <2>1, <2>2
  <2>4. CASE menu'.show_picker /\ pc' = "picker" /\ UNCHANGED chainVars
    BY <1>9, <2>1, <2>4 DEF ParseMenu
  <2>5. CASE ~menu'.show_picker /\ pc' = "load" /\ BeginChainload(menu'.entries[1])
    BY <1>9, <2>1, <2>3, <2>5 DEF ParseMenu, BeginChainload
  <2> QED
    BY <1>9, <2>4, <2>5 DEF ParseMenu
<1>10. CASE ShowRecovery
  BY <1>10 DEF ShowRecovery, Exit, Errors, LoaderErrors, Statuses
<1>11. CASE RecoveryRetry
  BY <1>11 DEF RecoveryRetry, Statuses
<1>12. CASE RecoveryExit
  BY <1>12 DEF RecoveryExit, Exit
<1>13. CASE KeyError
  BY <1>13 DEF KeyError, Exit
<1>14. CASE PickerBoot
  BY <1>14 DEF PickerBoot, BeginChainload, NoMenu
<1>15. CASE PickerCancel
  BY <1>15 DEF PickerCancel, Exit, Errors, LoaderErrors, Statuses
<1>16. CASE PickerError
  BY <1>16 DEF PickerError, Exit, Errors, LoaderErrors, Statuses
<1>17. CASE AttemptReturned
  BY <1>17 DEF AttemptReturned, Exit
<1>18. CASE Acknowledge
  BY <1>18 DEF Acknowledge, Statuses
<1> QED
  BY <1>1, <1>2, <1>3, <1>4, <1>5, <1>6, <1>7, <1>8, <1>9, <1>10, <1>11, <1>12, <1>13, <1>14,
     <1>15, <1>16, <1>17, <1>18 DEF ManagerNext

\* Every variable keeps its type: in particular the size read never exceeds
\* MAX_CONFIG_BYTES and every status returned is one the code can produce.
THEOREM TypeCorrect == Spec => []TypeOK
<1>1. Init => TypeInv
  BY ChainloadAssumption, BootManagerAssumption
     DEF Init, TypeInv, TypeOK, ChainInit, ChainTypeOK, CurrentAttempt, Labels,
         LoadLabels, ChildLabels, Attempts, Targets, ImageStates, Guards, Statuses
<1>2. TypeInv /\ [Next]_vars => TypeInv'
  <2> SUFFICES ASSUME TypeInv, [Next]_vars PROVE TypeInv'
    OBVIOUS
  <2>0. UNCHANGED build
    BY DEF Next, vars
  <2>1. CASE ManagerNext
    BY <2>0, <2>1, ManagerStepType
  <2>2. CASE ChainNext /\ UNCHANGED <<menu, size, position, result>>
    BY <2>0, <2>2, ChainStepType
  <2>3. CASE UNCHANGED vars
    BY <2>3 DEF vars, chainVars, TypeInv, TypeOK, ChainTypeOK, CurrentAttempt
  <2> QED
    BY <2>1, <2>2, <2>3 DEF Next, Finished
<1>3. TypeInv => TypeOK
  BY DEF TypeInv
<1> QED
  BY <1>1, <1>2, <1>3, PTL DEF Spec

-----------------------------------------------------------------------------
(* Ownership                                                               *)

USE DEF LoadLabels, ChildLabels, KeyLabels, ConfigLabels

\* A step that ends an attempt or moves inside one, seen from the other
\* attempts: their images, pointers and buffers are not touched.
OthersUntouched ==
    /\ attempt' = attempt
    /\ refused \subseteq refused'
    /\ \A a \in Attempts \ {attempt} :
          image'[a] = image[a] /\ loadOptions'[a] = loadOptions[a] /\ options'[a] = options[a]

\* OtherAttempts is kept if the current attempt, when it is over, is Ended.
LEMMA OthersKept ==
    ASSUME TypeInv, UNCHANGED build, OtherAttempts, OthersUntouched,
           pc' \notin LoadLabels \cup ChildLabels \cup {"resident"} /\ attempt \in Attempts
              => Ended(attempt)'
    PROVE  OtherAttempts'
BY DEF OtherAttempts, OthersUntouched, Fresh, Ended, TypeInv, TypeOK, ChainTypeOK, Attempts

\* The steps of an attempt leave the other attempts alone.
LEMMA ChainStepLocal ==
    ASSUME TypeInv, UNCHANGED build, ChainNext
    PROVE  OthersUntouched
<1> USE DEF OthersUntouched, TypeInv, TypeOK, ChainTypeOK, CurrentAttempt, chainVars
<1>1. CASE LoadApfsTarget
  BY <1>1 DEF LoadApfsTarget, LoadFailed, UnloadImage, Return, DropOptions, ForgetOptions
<1>2. CASE RejectApfsTarget
  BY <1>2 DEF RejectApfsTarget, LoadFailed, UnloadImage, Return, DropOptions, ForgetOptions
<1>3. CASE OpenSelf
  BY <1>3 DEF OpenSelf, LoadFailed, UnloadImage, Return, DropOptions, ForgetOptions
<1>4. CASE CheckOwnPath
  BY <1>4 DEF CheckOwnPath, LoadFailed, UnloadImage, Return, DropOptions, ForgetOptions
<1>5. CASE BuildPath
  BY <1>5 DEF BuildPath, LoadFailed, UnloadImage, Return, DropOptions, ForgetOptions
<1>6. CASE FinishPath
  BY <1>6 DEF FinishPath, LoadFailed, UnloadImage, Return, DropOptions, ForgetOptions
<1>7. CASE LoadImage
  BY <1>7 DEF LoadImage, LoadFailed, UnloadImage, Return, DropOptions, ForgetOptions
<1>8. CASE OpenChild
  BY <1>8 DEF OpenChild, LoadFailed, UnloadImage, Return, DropOptions, ForgetOptions
<1>9. CASE SetLoadOptions
  BY <1>9 DEF SetLoadOptions, LoadFailed, UnloadImage, Return, DropOptions, ForgetOptions
<1>10. CASE RejectDriver
  BY <1>10 DEF RejectDriver, LoadFailed, UnloadImage, Return, DropOptions, ForgetOptions
<1>11. CASE AcquireLease
  BY <1>11 DEF AcquireLease, LoadFailed, UnloadImage, Return, DropOptions, ForgetOptions
<1>12. CASE LeaseFailed
  BY <1>12 DEF LeaseFailed, LoadFailed, UnloadImage, Return, DropOptions, ForgetOptions
<1>13. CASE LeaseStuck
  BY <1>13 DEF LeaseStuck, LoadFailed, UnloadImage, Return, DropOptions, ForgetOptions
<1>14. CASE StartImage
  BY <1>14 DEF StartImage, LoadFailed, UnloadImage, Return, DropOptions, ForgetOptions
<1>15. CASE StartRejected
  BY <1>15 DEF StartRejected, LoadFailed, UnloadImage, Return, DropOptions, ForgetOptions
<1>16. CASE ChildExits
  BY <1>16 DEF ChildExits, LoadFailed, UnloadImage, Return, DropOptions, ForgetOptions
<1>17. CASE FreeExitData
  BY <1>17 DEF FreeExitData, LoadFailed, UnloadImage, Return, DropOptions, ForgetOptions
<1>18. CASE ReleaseLease
  BY <1>18 DEF ReleaseLease, LoadFailed, UnloadImage, Return, DropOptions, ForgetOptions
<1>19. CASE CleanupGone
  BY <1>19 DEF CleanupGone, LoadFailed, UnloadImage, Return, DropOptions, ForgetOptions
<1>20. CASE CleanupOpen
  BY <1>20 DEF CleanupOpen, LoadFailed, UnloadImage, Return, DropOptions, ForgetOptions
<1>21. CASE CleanupClear
  BY <1>21 DEF CleanupClear, LoadFailed, UnloadImage, Return, DropOptions, ForgetOptions
<1>22. CASE CleanupUnload
  BY <1>22 DEF CleanupUnload, LoadFailed, UnloadImage, Return, DropOptions, ForgetOptions
<1>23. CASE CleanupUnopened
  BY <1>23 DEF CleanupUnopened, LoadFailed, UnloadImage, Return, DropOptions, ForgetOptions
<1> QED
  BY <1>1, <1>2, <1>3, <1>4, <1>5, <1>6, <1>7, <1>8, <1>9, <1>10, <1>11, <1>12, <1>13, <1>14,
     <1>15, <1>16, <1>17, <1>18, <1>19, <1>20, <1>21, <1>22, <1>23 DEF ChainNext

\* The steps of an attempt keep the guards where the labels say.
LEMMA ChainStepGuards ==
    ASSUME TypeInv, UNCHANGED build, GuardsByLabel, ChainNext
    PROVE  GuardsByLabel'
<1> USE DEF GuardsByLabel, TypeInv, TypeOK, ChainTypeOK, CurrentAttempt, chainVars, ImageStates
<1>1. CASE LoadApfsTarget
  BY <1>1 DEF LoadApfsTarget, LoadFailed, UnloadImage, Return, DropOptions, ForgetOptions
<1>2. CASE RejectApfsTarget
  BY <1>2 DEF RejectApfsTarget, LoadFailed, UnloadImage, Return, DropOptions, ForgetOptions
<1>3. CASE OpenSelf
  BY <1>3 DEF OpenSelf, LoadFailed, UnloadImage, Return, DropOptions, ForgetOptions
<1>4. CASE CheckOwnPath
  BY <1>4 DEF CheckOwnPath, LoadFailed, UnloadImage, Return, DropOptions, ForgetOptions
<1>5. CASE BuildPath
  BY <1>5 DEF BuildPath, LoadFailed, UnloadImage, Return, DropOptions, ForgetOptions
<1>6. CASE FinishPath
  BY <1>6 DEF FinishPath, LoadFailed, UnloadImage, Return, DropOptions, ForgetOptions
<1>7. CASE LoadImage
  BY <1>7 DEF LoadImage, LoadFailed, UnloadImage, Return, DropOptions, ForgetOptions
<1>8. CASE OpenChild
  BY <1>8 DEF OpenChild, LoadFailed, UnloadImage, Return, DropOptions, ForgetOptions
<1>9. CASE SetLoadOptions
  BY <1>9 DEF SetLoadOptions, LoadFailed, UnloadImage, Return, DropOptions, ForgetOptions
<1>10. CASE RejectDriver
  BY <1>10 DEF RejectDriver, LoadFailed, UnloadImage, Return, DropOptions, ForgetOptions
<1>11. CASE AcquireLease
  BY <1>11 DEF AcquireLease, LoadFailed, UnloadImage, Return, DropOptions, ForgetOptions
<1>12. CASE LeaseFailed
  BY <1>12 DEF LeaseFailed, LoadFailed, UnloadImage, Return, DropOptions, ForgetOptions
<1>13. CASE LeaseStuck
  BY <1>13 DEF LeaseStuck, LoadFailed, UnloadImage, Return, DropOptions, ForgetOptions
<1>14. CASE StartImage
  BY <1>14 DEF StartImage, LoadFailed, UnloadImage, Return, DropOptions, ForgetOptions
<1>15. CASE StartRejected
  BY <1>15 DEF StartRejected, LoadFailed, UnloadImage, Return, DropOptions, ForgetOptions
<1>16. CASE ChildExits
  BY <1>16 DEF ChildExits, LoadFailed, UnloadImage, Return, DropOptions, ForgetOptions
<1>17. CASE FreeExitData
  BY <1>17 DEF FreeExitData, LoadFailed, UnloadImage, Return, DropOptions, ForgetOptions
<1>18. CASE ReleaseLease
  BY <1>18 DEF ReleaseLease, LoadFailed, UnloadImage, Return, DropOptions, ForgetOptions
<1>19. CASE CleanupGone
  BY <1>19 DEF CleanupGone, LoadFailed, UnloadImage, Return, DropOptions, ForgetOptions
<1>20. CASE CleanupOpen
  BY <1>20 DEF CleanupOpen, LoadFailed, UnloadImage, Return, DropOptions, ForgetOptions
<1>21. CASE CleanupClear
  BY <1>21 DEF CleanupClear, LoadFailed, UnloadImage, Return, DropOptions, ForgetOptions
<1>22. CASE CleanupUnload
  BY <1>22 DEF CleanupUnload, LoadFailed, UnloadImage, Return, DropOptions, ForgetOptions
<1>23. CASE CleanupUnopened
  BY <1>23 DEF CleanupUnopened, LoadFailed, UnloadImage, Return, DropOptions, ForgetOptions
<1> QED
  BY <1>1, <1>2, <1>3, <1>4, <1>5, <1>6, <1>7, <1>8, <1>9, <1>10, <1>11, <1>12, <1>13, <1>14,
     <1>15, <1>16, <1>17, <1>18, <1>19, <1>20, <1>21, <1>22, <1>23 DEF ChainNext

\* The steps of an attempt keep the current attempt's ownership.
LEMMA ChainStepCurrent ==
    ASSUME TypeInv, UNCHANGED build, Ownership, ChainNext
    PROVE  CurrentByLabel'
<1> USE DEF Ownership, CurrentByLabel, Fresh, Backed, TypeInv, TypeOK, ChainTypeOK,
       CurrentAttempt, chainVars, ImageStates
<1>1. CASE LoadApfsTarget
  BY <1>1 DEF LoadApfsTarget, LoadFailed, UnloadImage, Return, DropOptions, ForgetOptions
<1>2. CASE RejectApfsTarget
  BY <1>2 DEF RejectApfsTarget, LoadFailed, UnloadImage, Return, DropOptions, ForgetOptions
<1>3. CASE OpenSelf
  BY <1>3 DEF OpenSelf, LoadFailed, UnloadImage, Return, DropOptions, ForgetOptions
<1>4. CASE CheckOwnPath
  BY <1>4 DEF CheckOwnPath, LoadFailed, UnloadImage, Return, DropOptions, ForgetOptions
<1>5. CASE BuildPath
  BY <1>5 DEF BuildPath, LoadFailed, UnloadImage, Return, DropOptions, ForgetOptions
<1>6. CASE FinishPath
  BY <1>6 DEF FinishPath, LoadFailed, UnloadImage, Return, DropOptions, ForgetOptions
<1>7. CASE LoadImage
  BY <1>7 DEF LoadImage, LoadFailed, UnloadImage, Return, DropOptions, ForgetOptions
<1>8. CASE OpenChild
  BY <1>8 DEF OpenChild, LoadFailed, UnloadImage, Return, DropOptions, ForgetOptions
<1>9. CASE SetLoadOptions
  BY <1>9 DEF SetLoadOptions, LoadFailed, UnloadImage, Return, DropOptions, ForgetOptions
<1>10. CASE RejectDriver
  BY <1>10 DEF RejectDriver, LoadFailed, UnloadImage, Return, DropOptions, ForgetOptions
<1>11. CASE AcquireLease
  BY <1>11 DEF AcquireLease, LoadFailed, UnloadImage, Return, DropOptions, ForgetOptions
<1>12. CASE LeaseFailed
  BY <1>12 DEF LeaseFailed, LoadFailed, UnloadImage, Return, DropOptions, ForgetOptions
<1>13. CASE LeaseStuck
  BY <1>13 DEF LeaseStuck, LoadFailed, UnloadImage, Return, DropOptions, ForgetOptions
<1>14. CASE StartImage
  BY <1>14 DEF StartImage, LoadFailed, UnloadImage, Return, DropOptions, ForgetOptions
<1>15. CASE StartRejected
  BY <1>15 DEF StartRejected, LoadFailed, UnloadImage, Return, DropOptions, ForgetOptions
<1>16. CASE ChildExits
  BY <1>16 DEF ChildExits, LoadFailed, UnloadImage, Return, DropOptions, ForgetOptions
<1>17. CASE FreeExitData
  BY <1>17 DEF FreeExitData, LoadFailed, UnloadImage, Return, DropOptions, ForgetOptions
<1>18. CASE ReleaseLease
  BY <1>18 DEF ReleaseLease, LoadFailed, UnloadImage, Return, DropOptions, ForgetOptions
<1>19. CASE CleanupGone
  BY <1>19 DEF CleanupGone, LoadFailed, UnloadImage, Return, DropOptions, ForgetOptions
<1>20. CASE CleanupOpen
  BY <1>20 DEF CleanupOpen, LoadFailed, UnloadImage, Return, DropOptions, ForgetOptions
<1>21. CASE CleanupClear
  BY <1>21 DEF CleanupClear, LoadFailed, UnloadImage, Return, DropOptions, ForgetOptions
<1>22. CASE CleanupUnload
  BY <1>22 DEF CleanupUnload, LoadFailed, UnloadImage, Return, DropOptions, ForgetOptions
<1>23. CASE CleanupUnopened
  BY <1>23 DEF CleanupUnopened, LoadFailed, UnloadImage, Return, DropOptions, ForgetOptions
<1> QED
  BY <1>1, <1>2, <1>3, <1>4, <1>5, <1>6, <1>7, <1>8, <1>9, <1>10, <1>11, <1>12, <1>13, <1>14,
     <1>15, <1>16, <1>17, <1>18, <1>19, <1>20, <1>21, <1>22, <1>23 DEF ChainNext

\* The steps of an attempt keep the lease and the ExitData buffer.
LEMMA ChainStepLease ==
    ASSUME TypeInv, UNCHANGED build, Ownership, ChainNext
    PROVE  LeaseByLabel'
<1> USE DEF Ownership, LeaseByLabel, TypeInv, TypeOK, ChainTypeOK, CurrentAttempt, chainVars,
       ImageStates
<1>1. CASE LoadApfsTarget
  BY <1>1 DEF LoadApfsTarget, LoadFailed, UnloadImage, Return, DropOptions, ForgetOptions
<1>2. CASE RejectApfsTarget
  BY <1>2 DEF RejectApfsTarget, LoadFailed, UnloadImage, Return, DropOptions, ForgetOptions
<1>3. CASE OpenSelf
  BY <1>3 DEF OpenSelf, LoadFailed, UnloadImage, Return, DropOptions, ForgetOptions
<1>4. CASE CheckOwnPath
  BY <1>4 DEF CheckOwnPath, LoadFailed, UnloadImage, Return, DropOptions, ForgetOptions
<1>5. CASE BuildPath
  BY <1>5 DEF BuildPath, LoadFailed, UnloadImage, Return, DropOptions, ForgetOptions
<1>6. CASE FinishPath
  BY <1>6 DEF FinishPath, LoadFailed, UnloadImage, Return, DropOptions, ForgetOptions
<1>7. CASE LoadImage
  BY <1>7 DEF LoadImage, LoadFailed, UnloadImage, Return, DropOptions, ForgetOptions
<1>8. CASE OpenChild
  BY <1>8 DEF OpenChild, LoadFailed, UnloadImage, Return, DropOptions, ForgetOptions
<1>9. CASE SetLoadOptions
  BY <1>9 DEF SetLoadOptions, LoadFailed, UnloadImage, Return, DropOptions, ForgetOptions
<1>10. CASE RejectDriver
  BY <1>10 DEF RejectDriver, LoadFailed, UnloadImage, Return, DropOptions, ForgetOptions
<1>11. CASE AcquireLease
  BY <1>11 DEF AcquireLease, LoadFailed, UnloadImage, Return, DropOptions, ForgetOptions
<1>12. CASE LeaseFailed
  BY <1>12 DEF LeaseFailed, LoadFailed, UnloadImage, Return, DropOptions, ForgetOptions
<1>13. CASE LeaseStuck
  BY <1>13 DEF LeaseStuck, LoadFailed, UnloadImage, Return, DropOptions, ForgetOptions
<1>14. CASE StartImage
  BY <1>14 DEF StartImage, LoadFailed, UnloadImage, Return, DropOptions, ForgetOptions
<1>15. CASE StartRejected
  BY <1>15 DEF StartRejected, LoadFailed, UnloadImage, Return, DropOptions, ForgetOptions
<1>16. CASE ChildExits
  BY <1>16 DEF ChildExits, LoadFailed, UnloadImage, Return, DropOptions, ForgetOptions
<1>17. CASE FreeExitData
  BY <1>17 DEF FreeExitData, LoadFailed, UnloadImage, Return, DropOptions, ForgetOptions
<1>18. CASE ReleaseLease
  BY <1>18 DEF ReleaseLease, LoadFailed, UnloadImage, Return, DropOptions, ForgetOptions
<1>19. CASE CleanupGone
  BY <1>19 DEF CleanupGone, LoadFailed, UnloadImage, Return, DropOptions, ForgetOptions
<1>20. CASE CleanupOpen
  BY <1>20 DEF CleanupOpen, LoadFailed, UnloadImage, Return, DropOptions, ForgetOptions
<1>21. CASE CleanupClear
  BY <1>21 DEF CleanupClear, LoadFailed, UnloadImage, Return, DropOptions, ForgetOptions
<1>22. CASE CleanupUnload
  BY <1>22 DEF CleanupUnload, LoadFailed, UnloadImage, Return, DropOptions, ForgetOptions
<1>23. CASE CleanupUnopened
  BY <1>23 DEF CleanupUnopened, LoadFailed, UnloadImage, Return, DropOptions, ForgetOptions
<1> QED
  BY <1>1, <1>2, <1>3, <1>4, <1>5, <1>6, <1>7, <1>8, <1>9, <1>10, <1>11, <1>12, <1>13, <1>14,
     <1>15, <1>16, <1>17, <1>18, <1>19, <1>20, <1>21, <1>22, <1>23 DEF ChainNext

\* An attempt that returns to efi_main is Ended: nothing is owned, a retained
\* buffer belongs to a refused image and, without console-control, so does
\* every surviving pointer.
LEMMA ChainStepEnded ==
    ASSUME TypeInv, UNCHANGED build, Ownership, ChainNext
    PROVE  IF pc' \in LoadLabels \cup ChildLabels \cup {"resident"} THEN TRUE
           ELSE Ended(attempt)'
<1> USE DEF Ownership, CurrentByLabel, Fresh, Backed, Ended, TypeInv, TypeOK,
            ChainTypeOK, CurrentAttempt, chainVars, ImageStates
<1>1. CASE LoadApfsTarget
  BY <1>1 DEF LoadApfsTarget, LoadFailed, UnloadImage, Return, DropOptions, ForgetOptions
<1>2. CASE RejectApfsTarget
  BY <1>2 DEF RejectApfsTarget, LoadFailed, UnloadImage, Return, DropOptions, ForgetOptions
<1>3. CASE OpenSelf
  BY <1>3 DEF OpenSelf, LoadFailed, UnloadImage, Return, DropOptions, ForgetOptions
<1>4. CASE CheckOwnPath
  BY <1>4 DEF CheckOwnPath, LoadFailed, UnloadImage, Return, DropOptions, ForgetOptions
<1>5. CASE BuildPath
  BY <1>5 DEF BuildPath, LoadFailed, UnloadImage, Return, DropOptions, ForgetOptions
<1>6. CASE FinishPath
  BY <1>6 DEF FinishPath, LoadFailed, UnloadImage, Return, DropOptions, ForgetOptions
<1>7. CASE LoadImage
  BY <1>7 DEF LoadImage, LoadFailed, UnloadImage, Return, DropOptions, ForgetOptions
<1>8. CASE OpenChild
  BY <1>8 DEF OpenChild, LoadFailed, UnloadImage, Return, DropOptions, ForgetOptions
<1>9. CASE SetLoadOptions
  BY <1>9 DEF SetLoadOptions, LoadFailed, UnloadImage, Return, DropOptions, ForgetOptions
<1>10. CASE RejectDriver
  BY <1>10 DEF RejectDriver, LoadFailed, UnloadImage, Return, DropOptions, ForgetOptions
<1>11. CASE AcquireLease
  BY <1>11 DEF AcquireLease, LoadFailed, UnloadImage, Return, DropOptions, ForgetOptions
<1>12. CASE LeaseFailed
  BY <1>12 DEF LeaseFailed, LoadFailed, UnloadImage, Return, DropOptions, ForgetOptions
<1>13. CASE LeaseStuck
  BY <1>13 DEF LeaseStuck, LoadFailed, UnloadImage, Return, DropOptions, ForgetOptions
<1>14. CASE StartImage
  BY <1>14 DEF StartImage, LoadFailed, UnloadImage, Return, DropOptions, ForgetOptions
<1>15. CASE StartRejected
  BY <1>15 DEF StartRejected, LoadFailed, UnloadImage, Return, DropOptions, ForgetOptions
<1>16. CASE ChildExits
  BY <1>16 DEF ChildExits, LoadFailed, UnloadImage, Return, DropOptions, ForgetOptions
<1>17. CASE FreeExitData
  BY <1>17 DEF FreeExitData, LoadFailed, UnloadImage, Return, DropOptions, ForgetOptions
<1>18. CASE ReleaseLease
  BY <1>18 DEF ReleaseLease, LoadFailed, UnloadImage, Return, DropOptions, ForgetOptions
<1>19. CASE CleanupGone
  BY <1>19 DEF CleanupGone, LoadFailed, UnloadImage, Return, DropOptions, ForgetOptions
<1>20. CASE CleanupOpen
  BY <1>20 DEF CleanupOpen, LoadFailed, UnloadImage, Return, DropOptions, ForgetOptions
<1>21. CASE CleanupClear
  BY <1>21 DEF CleanupClear, LoadFailed, UnloadImage, Return, DropOptions, ForgetOptions
<1>22. CASE CleanupUnload
  BY <1>22 DEF CleanupUnload, LoadFailed, UnloadImage, Return, DropOptions, ForgetOptions
<1>23. CASE CleanupUnopened
  BY <1>23 DEF CleanupUnopened, LoadFailed, UnloadImage, Return, DropOptions, ForgetOptions
<1> QED
  BY <1>1, <1>2, <1>3, <1>4, <1>5, <1>6, <1>7, <1>8, <1>9, <1>10, <1>11, <1>12, <1>13, <1>14,
     <1>15, <1>16, <1>17, <1>18, <1>19, <1>20, <1>21, <1>22, <1>23 DEF ChainNext

\* The steps of an attempt keep the ownership invariant.
LEMMA ChainStepOwnership ==
    ASSUME TypeInv, UNCHANGED build, Ownership, ChainNext
    PROVE  Ownership'
<1>1. OthersUntouched
  BY ChainStepLocal
<1>2. GuardsByLabel' /\ CurrentByLabel' /\ LeaseByLabel'
  BY ChainStepGuards, ChainStepCurrent, ChainStepLease DEF Ownership
<1>3. OtherAttempts'
  BY <1>1, ChainStepEnded, OthersKept DEF Ownership
<1> QED
  BY <1>2, <1>3 DEF Ownership

\* chainload is called with the next attempt, which is still Fresh.
LEMMA BeginOwnership ==
    ASSUME TypeInv, UNCHANGED build, Ownership, NEW t, BeginChainload(t), pc' = "load",
           pc \in {"cfg_parse", "picker"}
    PROVE  Ownership'
<1> USE DEF BeginChainload, TypeInv, TypeOK, ChainTypeOK, Attempts
<1>1. GuardsByLabel' /\ LeaseByLabel'
  BY DEF Ownership, GuardsByLabel, LeaseByLabel
<1>2. Fresh(attempt)'
  BY ChainloadAssumption DEF Ownership, OtherAttempts, Fresh
<1>3. CurrentByLabel'
  BY <1>2 DEF CurrentByLabel, Fresh
<1>4. OtherAttempts'
  BY DEF Ownership, OtherAttempts, Fresh, Ended
<1> QED
  BY <1>1, <1>3, <1>4 DEF Ownership

\* A step of efi_main outside chainload touches no attempt.
LEMMA IdleOwnership ==
    ASSUME TypeInv, UNCHANGED build, Ownership,
           pc \notin LoadLabels \cup ChildLabels \cup {"resident"},
           pc' \notin LoadLabels \cup ChildLabels \cup {"resident"},
           UNCHANGED <<attempt, target, image, loadOptions, options, refused,
                       started, exitData, lease>>,
           GuardsByLabel'
    PROVE  Ownership'
<1>1. CurrentByLabel' /\ LeaseByLabel'
  BY DEF Ownership, CurrentByLabel, LeaseByLabel
<1>2. OtherAttempts'
  BY DEF Ownership, OtherAttempts, Fresh, Ended
<1> QED
  BY <1>1, <1>2 DEF Ownership

\* The steps of efi_main keep the ownership invariant.
LEMMA ManagerStepOwnership ==
    ASSUME TypeInv, UNCHANGED build, Ownership, ManagerNext
    PROVE  Ownership'
<1> DEFINE Quiet == UNCHANGED <<attempt, target, image, loadOptions, options, refused,
                                started, exitData, lease>>
<1>1. CASE ParseMenu
  <2>1. CASE BeginChainload(menu'.entries[1]) /\ pc' = "load"
    BY <1>1, <2>1, BeginOwnership DEF ParseMenu
  <2>2. CASE pc' = "picker" /\ UNCHANGED chainVars
    BY <1>1, <2>2, IdleOwnership DEF ParseMenu, chainVars, GuardsByLabel, Ownership
  <2> QED
    BY <1>1, <2>1, <2>2 DEF ParseMenu
<1>2. CASE PickerBoot
  BY <1>2, BeginOwnership DEF PickerBoot
<1>3. CASE DisableWatchdog \/ OpenFileSystem \/ OpenVolume \/ OpenConfig
  BY <1>3, IdleOwnership
     DEF DisableWatchdog, OpenFileSystem, OpenVolume, OpenConfig, OpenStep,
         ConfigError, chainVars, GuardsByLabel, Ownership
<1>4. CASE ReadConfigInfo \/ ReadConfigBytes \/ ReadConfigDone \/ ParseFailed
  BY <1>4, IdleOwnership
     DEF ReadConfigInfo, ReadConfigBytes, ReadConfigDone, ParseFailed, ConfigError,
         chainVars, GuardsByLabel, Ownership
<1>5. CASE ShowRecovery \/ RecoveryRetry \/ RecoveryExit \/ KeyError
  BY <1>5, IdleOwnership
     DEF ShowRecovery, RecoveryRetry, RecoveryExit, KeyError, Exit, chainVars,
         GuardsByLabel, Ownership
<1>6. CASE PickerCancel \/ PickerError \/ AttemptReturned \/ Acknowledge
  BY <1>6, IdleOwnership
     DEF PickerCancel, PickerError, AttemptReturned, Acknowledge, Exit, chainVars,
         GuardsByLabel, Ownership
<1> QED
  BY <1>1, <1>2, <1>3, <1>4, <1>5, <1>6 DEF ManagerNext

\* Guards, images, option buffers, the lease and ExitData are owned as the
\* control point says, for any number of attempts.
THEOREM OwnershipInvariant == Spec => [](TypeInv /\ Ownership)
<1>1. Init => TypeInv /\ Ownership
  BY ChainloadAssumption, BootManagerAssumption
     DEF Init, TypeInv, TypeOK, ChainInit, ChainTypeOK, CurrentAttempt, Labels,
         Attempts, Targets, ImageStates, Guards, Statuses, Ownership, GuardsByLabel,
         CurrentByLabel, OtherAttempts, LeaseByLabel, Fresh, Ended
<1>2. TypeInv /\ Ownership /\ [Next]_vars => (TypeInv /\ Ownership)'
  <2> SUFFICES ASSUME TypeInv, Ownership, [Next]_vars PROVE (TypeInv /\ Ownership)'
    OBVIOUS
  <2>0. UNCHANGED build
    BY DEF Next, vars
  <2>1. CASE ManagerNext
    BY <2>0, <2>1, ManagerStepType, ManagerStepOwnership
  <2>2. CASE ChainNext /\ UNCHANGED <<menu, size, position, result>>
    BY <2>0, <2>2, ChainStepType, ChainStepOwnership
  <2>3. CASE UNCHANGED vars
    BY <2>3 DEF vars, chainVars, TypeInv, TypeOK, ChainTypeOK, CurrentAttempt,
                Ownership, GuardsByLabel, CurrentByLabel, OtherAttempts, LeaseByLabel,
                Fresh, Backed, Ended
  <2> QED
    BY <2>1, <2>2, <2>3 DEF Next, Finished
<1> QED
  BY <1>1, <1>2, PTL DEF Spec

\* In every build the options buffer outlives the child's run and only the
\* current attempt's child runs.
THEOREM ChildOptionsSafe == Spec => []RunningChildOwnsOptions
<1>1. TypeInv /\ Ownership => RunningChildOwnsOptions
  BY DEF TypeInv, TypeOK, ChainTypeOK, Attempts, Labels, Ownership, CurrentByLabel,
         OtherAttempts, Fresh, Backed, Ended, RunningChildOwnsOptions
<1> QED
  BY <1>1, OwnershipInvariant, PTL

\* Without console-control no surviving image ever points at freed memory,
\* across any number of failed attempts.
THEOREM OptionsNeverDangle == Spec => []DefaultNeverDangles
<1>1. TypeInv /\ Ownership => DefaultNeverDangles
  BY DEF TypeInv, TypeOK, ChainTypeOK, Attempts, Labels, Ownership, CurrentByLabel,
         OtherAttempts, Fresh, Backed, Ended, DefaultNeverDangles, LoadOptionsNeverDangle, Surviving
<1> QED
  BY <1>1, OwnershipInvariant, PTL

\* No guard or file handle is held while the child runs or a key is awaited.
THEOREM GuardsReleased == Spec => []NoGuardAcrossTransfer
<1>1. Ownership => NoGuardAcrossTransfer
  BY DEF Ownership, GuardsByLabel, NoGuardAcrossTransfer
<1> QED
  BY <1>1, OwnershipInvariant, PTL

\* A finished attempt leaves no lease, no ExitData and no owned buffer.
THEOREM NothingLeft == Spec => []AttemptLeavesNothing
<1>1. TypeInv /\ Ownership => AttemptLeavesNothing
  BY DEF TypeInv, TypeOK, ChainTypeOK, Attempts, Ownership, OtherAttempts, LeaseByLabel,
         Fresh, Ended, AttemptLeavesNothing
<1> QED
  BY <1>1, OwnershipInvariant, PTL

-----------------------------------------------------------------------------
(* The configuration and the contract with the user                        *)

\* Before a menu is accepted there is none; a configuration is parsed only
\* when it is complete; no failure is on record while reading or in the menu.
ConfigByLabel ==
    /\ pc \in ConfigLabels \cup {"entry", "recovery", "recovery_key"} => menu = NoMenu
    /\ pc \in {"cfg_read", "cfg_parse"} => size >= 1
    /\ pc = "cfg_parse" => position = size
    /\ pc \in ConfigLabels \cup {"entry", "picker"} => status = Success
    /\ MenuFromWholeFile

\* No step of an attempt leads back into the configuration or the menu.
LEMMA ChainStepConfig ==
    ASSUME TypeInv, ConfigByLabel, ChainNext, UNCHANGED <<menu, size, position, result>>
    PROVE  ConfigByLabel'
<1>1. pc' \in LoadLabels \cup ChildLabels \cup {"returned", "resident"}
  BY DEF ChainNext, LoadApfsTarget, RejectApfsTarget, OpenSelf, CheckOwnPath, BuildPath,
         FinishPath, LoadImage, OpenChild, SetLoadOptions, RejectDriver, AcquireLease,
         LeaseFailed, LeaseStuck, StartImage, StartRejected, ChildExits, FreeExitData,
         ReleaseLease, CleanupGone, CleanupOpen, CleanupClear, CleanupUnload,
         CleanupUnopened, LoadFailed, Return
<1> QED
  BY <1>1 DEF ConfigByLabel, MenuFromWholeFile

\* The steps of efi_main keep the configuration invariant.
LEMMA ManagerStepConfig ==
    ASSUME TypeInv, ConfigByLabel, ManagerNext
    PROVE  ConfigByLabel'
<1> USE BootManagerAssumption
    DEF ConfigByLabel, MenuFromWholeFile, TypeInv, TypeOK, ConfigError
<1>1. CASE DisableWatchdog \/ OpenFileSystem \/ OpenVolume \/ OpenConfig
  BY <1>1 DEF DisableWatchdog, OpenFileSystem, OpenVolume, OpenConfig, OpenStep
<1>2. CASE ReadConfigInfo
  BY <1>2 DEF ReadConfigInfo
<1>3. CASE ReadConfigBytes
  BY <1>3 DEF ReadConfigBytes
<1>4. CASE ReadConfigDone \/ ParseFailed
  BY <1>4 DEF ReadConfigDone, ParseFailed
<1>5. CASE ParseMenu
  <2>1. pc' \in {"picker", "load"} /\ UNCHANGED <<size, position>> /\ pc = "cfg_parse"
    BY <1>5 DEF ParseMenu
  <2>2. size \in 1..MaxConfigBytes /\ position = size
    BY <2>1
  <2>3. pc' = "picker" => status' = Success
    BY <1>5 DEF ParseMenu
  <2> QED
    BY <2>1, <2>2, <2>3
<1>6. CASE ShowRecovery \/ RecoveryRetry \/ RecoveryExit \/ KeyError
  BY <1>6 DEF ShowRecovery, RecoveryRetry, RecoveryExit, KeyError, Exit
<1>7. CASE PickerBoot \/ PickerCancel \/ PickerError \/ AttemptReturned \/ Acknowledge
  BY <1>7 DEF PickerBoot, PickerCancel, PickerError, AttemptReturned, Acknowledge, Exit
<1> QED
  BY <1>1, <1>2, <1>3, <1>4, <1>5, <1>6, <1>7 DEF ManagerNext

\* ConfigByLabel is an invariant.
LEMMA ConfigInvariant == Spec => [](TypeInv /\ ConfigByLabel)
<1>1. Init => ConfigByLabel
  BY DEF Init, ConfigByLabel, MenuFromWholeFile
<1>2. TypeInv /\ ConfigByLabel /\ [Next]_vars => ConfigByLabel'
  <2> SUFFICES ASSUME TypeInv, ConfigByLabel, [Next]_vars PROVE ConfigByLabel'
    OBVIOUS
  <2>0. UNCHANGED build
    BY DEF Next, vars
  <2>1. CASE ManagerNext
    BY <2>0, <2>1, ManagerStepConfig
  <2>2. CASE ChainNext /\ UNCHANGED <<menu, size, position, result>>
    BY <2>0, <2>2, ChainStepConfig
  <2>3. CASE UNCHANGED vars
    BY <2>3 DEF vars, ConfigByLabel, MenuFromWholeFile
  <2> QED
    BY <2>1, <2>2, <2>3 DEF Next, Finished
<1> QED
  BY <1>1, <1>2, OwnershipInvariant, PTL DEF Spec

\* A menu is only ever taken from a completely read configuration.
THEOREM WholeConfiguration == Spec => []MenuFromWholeFile
<1>1. ConfigByLabel => MenuFromWholeFile
  BY DEF ConfigByLabel
<1> QED
  BY <1>1, ConfigInvariant, PTL

\* A step of an attempt is invisible in the contract, or the loader stays
\* resident.
LEMMA ChainStepContract ==
    ASSUME TypeInv, ConfigByLabel, ChainNext, UNCHANGED <<menu, size, position, result>>
    PROVE  [Contract!Next]_(Contract!vars)
<1>1. pc \in LoadLabels \cup ChildLabels
  BY DEF ChainNext, LoadApfsTarget, RejectApfsTarget, OpenSelf, CheckOwnPath, BuildPath,
         FinishPath, LoadImage, OpenChild, SetLoadOptions, RejectDriver, AcquireLease,
         LeaseFailed, LeaseStuck, StartImage, StartRejected, ChildExits, FreeExitData,
         ReleaseLease, CleanupGone, CleanupOpen, CleanupClear, CleanupUnload,
         CleanupUnopened
<1>2. pc' \in LoadLabels \cup ChildLabels \cup {"returned", "resident"}
  BY DEF ChainNext, LoadApfsTarget, RejectApfsTarget, OpenSelf, CheckOwnPath, BuildPath,
         FinishPath, LoadImage, OpenChild, SetLoadOptions, RejectDriver, AcquireLease,
         LeaseFailed, LeaseStuck, StartImage, StartRejected, ChildExits, FreeExitData,
         ReleaseLease, CleanupGone, CleanupOpen, CleanupClear, CleanupUnload,
         CleanupUnopened, LoadFailed, Return
<1>3. phase = "attempt" /\ outcome = Success
  BY <1>1 DEF phase, outcome
<1>4. CASE pc' # "resident"
  <2>1. phase' = "attempt" /\ outcome' = Success
    BY <1>2, <1>4 DEF phase, outcome
  <2> QED
    BY <1>3, <2>1 DEF Contract!vars
<1>5. CASE pc' = "resident"
  <2>1. phase' = "ended" /\ outcome' = Success
    BY <1>5 DEF phase, outcome
  <2> QED
    BY <1>3, <2>1 DEF Contract!Next, Contract!StayResident
<1> QED
  BY <1>4, <1>5

\* The contract speaks of the same statuses.
LEMMA SameStatuses ==
    /\ Contract!Errors = Errors
    /\ Contract!Statuses = Statuses
    /\ Contract!Success = Success
    /\ Contract!NoStatus = NoStatus
    /\ \A s : Contract!IsError(s) <=> IsError(s)
BY DEF Errors, LoaderErrors, Statuses, IsError, Contract!Errors, Contract!LoaderErrors,
       Contract!Statuses, Contract!Success, Contract!Warn, Contract!NoStatus,
       Contract!IsError

\* Each step of efi_main is a step of the contract or invisible in it.
LEMMA ManagerStepContract ==
    ASSUME TypeInv, ConfigByLabel, ManagerNext
    PROVE  [Contract!Next]_(Contract!vars)
<1> USE StatusFacts, SameStatuses DEF phase, outcome, Exit
<1>1. CASE DisableWatchdog
  BY <1>1 DEF DisableWatchdog, Contract!vars
<1>2. ASSUME NEW e \in Errors, pc \in ConfigLabels, ConfigError(e), UNCHANGED <<menu, result>>
      PROVE  Contract!ConfigurationRejected
  BY <1>2 DEF ConfigError, Contract!ConfigurationRejected
<1>3. ASSUME pc \in ConfigLabels, pc' \in ConfigLabels, UNCHANGED <<menu, result>>
      PROVE  UNCHANGED Contract!vars
  BY <1>3 DEF Contract!vars
<1>4. CASE OpenFileSystem \/ OpenVolume \/ OpenConfig
  BY <1>2, <1>3, <1>4 DEF OpenFileSystem, OpenVolume, OpenConfig, OpenStep, Errors,
                          LoaderErrors, Contract!Next
<1>5. CASE ReadConfigInfo \/ ReadConfigBytes \/ ReadConfigDone
  BY <1>2, <1>3, <1>5 DEF ReadConfigInfo, ReadConfigBytes, ReadConfigDone, Errors,
                          LoaderErrors, Contract!Next
<1>6. CASE ParseFailed
  <2>1. Contract!ConfigurationRejected
    BY <1>6 DEF ParseFailed, Errors, LoaderErrors, Contract!ConfigurationRejected
  <2> QED
    BY <2>1 DEF Contract!Next
<1>7. CASE ParseMenu
  <2>1. menu'.show_picker \in BOOLEAN
    BY <1>7, BootManagerAssumption DEF ParseMenu
  <2>2. Contract!ConfigurationAccepted
    BY <1>7, <2>1 DEF ParseMenu, Contract!ConfigurationAccepted
  <2> QED
    BY <2>2 DEF Contract!Next
<1>8. CASE ShowRecovery
  <2>1. CASE pc' = "recovery_key" /\ UNCHANGED result
    BY <1>8, <2>1 DEF ShowRecovery, Contract!vars
  <2>2. CASE \E e \in FirmwareErrors \cup {"INVALID_PARAMETER"} : Exit(e)
    <3>1. Contract!ConsoleError
      BY <1>8, <2>2 DEF ShowRecovery, Errors, LoaderErrors, Contract!ConsoleError, Contract!End
    <3> QED
      BY <3>1 DEF Contract!Next
  <2> QED
    BY <1>8, <2>1, <2>2 DEF ShowRecovery
<1>9. CASE RecoveryRetry
  <2>1. Contract!RetryKey
    BY <1>9 DEF RecoveryRetry, Contract!RetryKey
  <2> QED
    BY <2>1 DEF Contract!Next
<1>10. CASE RecoveryExit
  <2>1. Contract!EscapeKey
    BY <1>10 DEF RecoveryExit, Contract!EscapeKey, Contract!End
  <2> QED
    BY <2>1 DEF Contract!Next
<1>11. CASE KeyError
  <2>1. Contract!ConsoleError
    BY <1>11 DEF KeyError, Contract!ConsoleError, Contract!End
  <2> QED
    BY <2>1 DEF Contract!Next
<1>12. CASE PickerBoot
  <2>1. Contract!BootKey
    BY <1>12 DEF PickerBoot, Contract!BootKey
  <2> QED
    BY <2>1 DEF Contract!Next
<1>13. CASE PickerCancel
  <2>1. Contract!CancelKey
    BY <1>13 DEF PickerCancel, ConfigByLabel, Contract!CancelKey, Contract!End
  <2> QED
    BY <2>1 DEF Contract!Next
<1>14. CASE PickerError
  <2>1. Contract!ConsoleError
    BY <1>14 DEF PickerError, ConfigByLabel, Errors, LoaderErrors, Contract!ConsoleError,
                 Contract!End
  <2> QED
    BY <2>1 DEF Contract!Next
<1>15. CASE AttemptReturned
  <2>1. status \in Statuses /\ pc = "returned" /\ phase = "attempt"
    BY <1>15 DEF AttemptReturned, TypeInv, TypeOK, ChainTypeOK
  <2>2. CASE menu.show_picker /\ IsError(status)
    <3>1. Contract!AttemptFails
      BY <1>15, <2>1, <2>2 DEF AttemptReturned, Contract!AttemptFails
    <3> QED
      BY <3>1 DEF Contract!Next
  <2>3. CASE ~(menu.show_picker /\ IsError(status))
    <3>1. Contract!AttemptEnds
      BY <1>15, <2>1, <2>3 DEF AttemptReturned, Contract!AttemptEnds, Contract!End
    <3> QED
      BY <3>1 DEF Contract!Next
  <2> QED
    BY <2>2, <2>3
<1>16. CASE Acknowledge
  <2>1. Contract!AcknowledgeKey
    BY <1>16 DEF Acknowledge, Contract!AcknowledgeKey
  <2> QED
    BY <2>1 DEF Contract!Next
<1> QED
  BY <1>1, <1>4, <1>5, <1>6, <1>7, <1>8, <1>9, <1>10, <1>11, <1>12, <1>13, <1>14,
     <1>15, <1>16 DEF ManagerNext

\* efi_main implements the contract, for every menu, firmware and build.
THEOREM ContractKept == Spec => KeepsContract
<1>1. Init => Contract!Init
  BY SameStatuses DEF Init, NoMenu, phase, outcome, Contract!Init
<1>2. TypeInv /\ ConfigByLabel /\ [Next]_vars => [Contract!Next]_(Contract!vars)
  <2> SUFFICES ASSUME TypeInv, ConfigByLabel, [Next]_vars
               PROVE  [Contract!Next]_(Contract!vars)
    OBVIOUS
  <2>0. UNCHANGED build
    BY DEF Next, vars
  <2>1. CASE ManagerNext
    BY <2>0, <2>1, ManagerStepContract
  <2>2. CASE ChainNext /\ UNCHANGED <<menu, size, position, result>>
    BY <2>0, <2>2, ChainStepContract
  <2>3. CASE UNCHANGED vars
    BY <2>3 DEF vars, phase, outcome, Contract!vars
  <2> QED
    BY <2>1, <2>2, <2>3 DEF Next, Finished
<1> QED
  BY <1>1, <1>2, ConfigInvariant, PTL DEF Spec, KeepsContract, Contract!Spec

-----------------------------------------------------------------------------
(* How far the findings go                                                 *)

\* An attempt that is over.
Over(a) ==
    a < attempt \/ (a = attempt /\ pc \notin LoadLabels \cup ChildLabels \cup {"resident"})

\* Why an image is still there after its attempt, and what it points at.
Explained(a) ==
    image[a] = "loaded" =>
        /\ \/ a \in refused
           \/ /\ "SECURITY_VIOLATION" \in FirmwareErrors
              /\ a \notin started /\ loadOptions[a] = "null" /\ options[a] = "none"
        /\ loadOptions[a] = "options" =>
              \/ options[a] = "retained"
              \/ ConsoleControl /\ a \in refused /\ a \notin started

\* Which attempts have started their child, and what the status of one that
\* has not can be.
StartedByLabel ==
    /\ pc \in LoadLabels \cup {"configure", "configure_set", "lease", "start"}
          => attempt \notin started
    /\ pc \in {"child", "exit_data"} => attempt \in started
    /\ pc \in {"release", "cleanup", "cleanup_clear", "cleanup_unload"}
          => attempt \in started \/ IsError(status)
    /\ pc = "returned" =>
          \/ attempt \in started \/ IsError(status)
          \/ ApfsJumpstart /\ target.apfs_volume

\* A lease exists only in a build that has the feature.
LeaseByBuild == ~ConsoleControl => lease = "none" /\ pc \notin {"lease", "resident"}

History ==
    /\ \A a \in Attempts : a > attempt => a \notin started
    /\ \A a \in Attempts : Over(a) => Explained(a)
    /\ StartedByLabel
    /\ LeaseByBuild

\* An attempt that returns to efi_main leaves an image that is explained.
LEMMA ChainStepExplained ==
    ASSUME TypeInv, UNCHANGED build, Ownership, History, ChainNext
    PROVE  IF pc' \in LoadLabels \cup ChildLabels \cup {"resident"} THEN TRUE
           ELSE Explained(attempt)'
<1> USE DEF Ownership, CurrentByLabel, Fresh, Backed, Explained, History, StartedByLabel, TypeInv,
            TypeOK, ChainTypeOK, CurrentAttempt, chainVars, ImageStates
<1>1. CASE LoadApfsTarget
  BY <1>1 DEF LoadApfsTarget, LoadFailed
<1>2. CASE RejectApfsTarget
  BY <1>2 DEF RejectApfsTarget, LoadFailed
<1>3. CASE OpenSelf
  BY <1>3 DEF OpenSelf, LoadFailed
<1>4. CASE CheckOwnPath
  BY <1>4 DEF CheckOwnPath, LoadFailed
<1>5. CASE BuildPath
  BY <1>5 DEF BuildPath, LoadFailed
<1>6. CASE FinishPath
  BY <1>6 DEF FinishPath, LoadFailed
<1>7. CASE LoadImage
  BY <1>7 DEF LoadImage, LoadFailed
<1>8. CASE OpenChild
  BY <1>8 DEF OpenChild, UnloadImage
<1>9. CASE SetLoadOptions
  BY <1>9 DEF SetLoadOptions
<1>10. CASE RejectDriver
  BY <1>10 DEF RejectDriver, UnloadImage, Return, DropOptions
<1>11. CASE AcquireLease
  BY <1>11 DEF AcquireLease
<1>12. CASE LeaseFailed
  BY <1>12 DEF LeaseFailed, UnloadImage, Return, DropOptions
<1>13. CASE LeaseStuck
  BY <1>13 DEF LeaseStuck
<1>14. CASE StartImage
  BY <1>14 DEF StartImage
<1>15. CASE StartRejected
  BY <1>15 DEF StartRejected
<1>16. CASE ChildExits
  BY <1>16 DEF ChildExits
<1>17. CASE FreeExitData
  BY <1>17 DEF FreeExitData
<1>18. CASE ReleaseLease
  BY <1>18 DEF ReleaseLease
<1>19. CASE CleanupGone
  BY <1>19 DEF CleanupGone, Return, DropOptions
<1>20. CASE CleanupOpen
  BY <1>20 DEF CleanupOpen
<1>21. CASE CleanupClear
  BY <1>21 DEF CleanupClear
<1>22. CASE CleanupUnload
  BY <1>22 DEF CleanupUnload, UnloadImage, Return, DropOptions
<1>23. CASE CleanupUnopened
  BY <1>23 DEF CleanupUnopened, UnloadImage, DropOptions, ForgetOptions
<1> QED
  BY <1>1, <1>2, <1>3, <1>4, <1>5, <1>6, <1>7, <1>8, <1>9, <1>10, <1>11, <1>12, <1>13, <1>14,
     <1>15, <1>16, <1>17, <1>18, <1>19, <1>20, <1>21, <1>22, <1>23 DEF ChainNext

\* The steps of an attempt keep its record and start no other child.
LEMMA ChainStepStarted ==
    ASSUME TypeInv, UNCHANGED build, History, ChainNext
    PROVE  /\ StartedByLabel' /\ LeaseByBuild'
           /\ \A a \in Attempts \ {attempt} : a \in started' <=> a \in started
<1> USE StatusFacts DEF History, StartedByLabel, LeaseByBuild, TypeInv, TypeOK, ChainTypeOK,
                        CurrentAttempt, chainVars, ApfsJumpstart, Errors, LoaderErrors, IsError
<1>1. CASE LoadApfsTarget
  BY <1>1 DEF LoadApfsTarget, LoadFailed
<1>2. CASE RejectApfsTarget
  BY <1>2 DEF RejectApfsTarget, LoadFailed
<1>3. CASE OpenSelf
  BY <1>3 DEF OpenSelf, LoadFailed
<1>4. CASE CheckOwnPath
  BY <1>4 DEF CheckOwnPath, LoadFailed
<1>5. CASE BuildPath
  BY <1>5 DEF BuildPath, LoadFailed
<1>6. CASE FinishPath
  BY <1>6 DEF FinishPath, LoadFailed
<1>7. CASE LoadImage
  BY <1>7 DEF LoadImage, LoadFailed
<1>8. CASE OpenChild
  BY <1>8 DEF OpenChild, UnloadImage
<1>9. CASE SetLoadOptions
  BY <1>9 DEF SetLoadOptions
<1>10. CASE RejectDriver
  BY <1>10 DEF RejectDriver, UnloadImage, Return, DropOptions
<1>11. CASE AcquireLease
  BY <1>11 DEF AcquireLease
<1>12. CASE LeaseFailed
  BY <1>12 DEF LeaseFailed, UnloadImage, Return, DropOptions
<1>13. CASE LeaseStuck
  BY <1>13 DEF LeaseStuck
<1>14. CASE StartImage
  BY <1>14 DEF StartImage
<1>15. CASE StartRejected
  BY <1>15 DEF StartRejected
<1>16. CASE ChildExits
  BY <1>16 DEF ChildExits
<1>17. CASE FreeExitData
  BY <1>17 DEF FreeExitData
<1>18. CASE ReleaseLease
  BY <1>18 DEF ReleaseLease
<1>19. CASE CleanupGone
  BY <1>19 DEF CleanupGone, Return, DropOptions
<1>20. CASE CleanupOpen
  BY <1>20 DEF CleanupOpen
<1>21. CASE CleanupClear
  BY <1>21 DEF CleanupClear
<1>22. CASE CleanupUnload
  BY <1>22 DEF CleanupUnload, UnloadImage, Return, DropOptions
<1>23. CASE CleanupUnopened
  BY <1>23 DEF CleanupUnopened, UnloadImage, DropOptions, ForgetOptions
<1> QED
  BY <1>1, <1>2, <1>3, <1>4, <1>5, <1>6, <1>7, <1>8, <1>9, <1>10, <1>11, <1>12, <1>13, <1>14,
     <1>15, <1>16, <1>17, <1>18, <1>19, <1>20, <1>21, <1>22, <1>23 DEF ChainNext

\* A step that leaves the other attempts alone keeps their explanations.
LEMMA ChainStepHistory ==
    ASSUME TypeInv, UNCHANGED build, Ownership, History, ChainNext
    PROVE  History'
<1>1. OthersUntouched
  BY ChainStepLocal
<1>2. /\ StartedByLabel' /\ LeaseByBuild'
      /\ \A a \in Attempts \ {attempt} : a \in started' <=> a \in started
  BY ChainStepStarted
<1>3. \A a \in Attempts : a > attempt' => a \notin started'
  BY <1>1, <1>2 DEF OthersUntouched, History, TypeInv, TypeOK, ChainTypeOK, Attempts
<1>4. ASSUME NEW a \in Attempts, Over(a)'
      PROVE  Explained(a)'
  <2>1. CASE a = attempt
    <3>1. pc' \notin LoadLabels \cup ChildLabels \cup {"resident"}
      BY <1>1, <1>4, <2>1 DEF Over, OthersUntouched, TypeInv, TypeOK, ChainTypeOK, Attempts
    <3>2. Explained(attempt)'
      BY <3>1, ChainStepExplained
    <3> QED
      BY <1>1, <2>1, <3>2 DEF OthersUntouched, Explained
  <2>2. CASE a # attempt
    <3>1. Over(a)
      BY <1>1, <1>4, <2>2 DEF Over, OthersUntouched
    <3>2. Explained(a)
      BY <3>1 DEF History
    <3>3. image'[a] = image[a] /\ loadOptions'[a] = loadOptions[a] /\ options'[a] = options[a]
          /\ refused \subseteq refused' /\ (a \in started' <=> a \in started)
      BY <1>1, <1>2, <2>2 DEF OthersUntouched
    <3> QED
      BY <3>2, <3>3 DEF Explained
  <2> QED
    BY <2>1, <2>2
<1> QED
  BY <1>2, <1>3, <1>4 DEF History

\* efi_main calls chainload with the next attempt, which has started nothing.
LEMMA BeginHistory ==
    ASSUME TypeInv, UNCHANGED build, History, NEW t, BeginChainload(t), pc' = "load",
           pc \in {"cfg_parse", "picker"}
    PROVE  History'
<1> USE DEF BeginChainload, TypeInv, TypeOK, ChainTypeOK, Attempts
<1>1. attempt' = attempt + 1 /\ attempt \in Nat /\ attempt' \in Attempts
  BY ChainloadAssumption
<1>2. StartedByLabel' /\ LeaseByBuild'
  BY <1>1 DEF History, StartedByLabel, LeaseByBuild
<1>3. \A a \in Attempts : a > attempt' => a \notin started'
  BY <1>1 DEF History
<1>4. \A a \in Attempts : Over(a)' => Over(a)
  BY <1>1 DEF Over
<1>5. \A a \in Attempts : Explained(a) => Explained(a)'
  BY DEF Explained
<1> QED
  BY <1>2, <1>3, <1>4, <1>5 DEF History

\* A step of efi_main outside chainload changes no attempt.
LEMMA IdleHistory ==
    ASSUME TypeInv, UNCHANGED build, History,
           pc \notin LoadLabels \cup ChildLabels \cup {"resident"},
           pc' \notin LoadLabels \cup ChildLabels \cup {"resident", "returned"},
           UNCHANGED <<attempt, image, loadOptions, options, refused, started, lease>>
    PROVE  History'
<1>1. StartedByLabel' /\ LeaseByBuild'
  BY DEF History, StartedByLabel, LeaseByBuild
<1>2. \A a \in Attempts : (Over(a)' => Over(a)) /\ (Explained(a) => Explained(a)')
  BY DEF Over, Explained
<1> QED
  BY <1>1, <1>2 DEF History

\* The steps of efi_main keep the record of the attempts.
LEMMA ManagerStepHistory ==
    ASSUME TypeInv, UNCHANGED build, History, ManagerNext
    PROVE  History'
<1>1. CASE ParseMenu
  <2>1. CASE BeginChainload(menu'.entries[1]) /\ pc' = "load"
    BY <1>1, <2>1, BeginHistory DEF ParseMenu
  <2>2. CASE pc' = "picker" /\ UNCHANGED chainVars
    BY <1>1, <2>2, IdleHistory DEF ParseMenu, chainVars
  <2> QED
    BY <1>1, <2>1, <2>2 DEF ParseMenu
<1>2. CASE PickerBoot
  BY <1>2, BeginHistory DEF PickerBoot
<1>3. CASE DisableWatchdog \/ OpenFileSystem \/ OpenVolume \/ OpenConfig
  BY <1>3, IdleHistory
     DEF DisableWatchdog, OpenFileSystem, OpenVolume, OpenConfig, OpenStep, ConfigError, chainVars
<1>4. CASE ReadConfigInfo \/ ReadConfigBytes \/ ReadConfigDone \/ ParseFailed
  BY <1>4, IdleHistory
     DEF ReadConfigInfo, ReadConfigBytes, ReadConfigDone, ParseFailed, ConfigError, chainVars
<1>5. CASE ShowRecovery \/ RecoveryRetry \/ RecoveryExit \/ KeyError
  BY <1>5, IdleHistory
     DEF ShowRecovery, RecoveryRetry, RecoveryExit, KeyError, Exit, chainVars
<1>6. CASE PickerCancel \/ PickerError \/ AttemptReturned \/ Acknowledge
  BY <1>6, IdleHistory
     DEF PickerCancel, PickerError, AttemptReturned, Acknowledge, Exit, chainVars
<1> QED
  BY <1>1, <1>2, <1>3, <1>4, <1>5, <1>6 DEF ManagerNext

\* What every attempt has started and left behind, for any number of attempts
\* and every build.
THEOREM HistoryInvariant == Spec => []History
<1>1. Init => History
  BY ChainloadAssumption DEF Init, ChainInit, History, Over, Explained, StartedByLabel,
                             LeaseByBuild, Attempts
<1>2. TypeInv /\ Ownership /\ History /\ [Next]_vars => History'
  <2> SUFFICES ASSUME TypeInv, Ownership, History, [Next]_vars PROVE History'
    OBVIOUS
  <2>0. UNCHANGED build
    BY DEF Next, vars
  <2>1. CASE ManagerNext
    BY <2>0, <2>1, ManagerStepHistory
  <2>2. CASE ChainNext
    BY <2>0, <2>2, ChainStepHistory
  <2>3. CASE UNCHANGED vars
    BY <2>3 DEF vars, chainVars, History, Over, Explained, StartedByLabel, LeaseByBuild,
                ApfsJumpstart
  <2> QED
    BY <2>1, <2>2, <2>3 DEF Next, Finished
<1> QED
  BY <1>1, <1>2, OwnershipInvariant, PTL DEF Spec

\* A dangling LoadOptions pointer needs a console-control build, a failed
\* lease and a refused unload, and its image has never run.
THEOREM DanglingExplained == Spec => []DanglesOnlyUnstarted
<1>1. TypeInv /\ Ownership /\ History => DanglesOnlyUnstarted
  BY DEF TypeInv, TypeOK, ChainTypeOK, Attempts, Labels, Ownership, CurrentByLabel, OtherAttempts,
         Fresh, Backed, Ended, History, Over, Explained, DanglesOnlyUnstarted, Surviving
<1> QED
  BY <1>1, OwnershipInvariant, HistoryInvariant, PTL

\* With a firmware that never loads an image it rejects, every image that
\* outlives its attempt is one the firmware refused to unload.
THEOREM SurvivorsKnown == Spec => []SurvivorsExplained
<1>1. TypeInv /\ Ownership /\ History => SurvivorsExplained
  BY DEF TypeInv, TypeOK, ChainTypeOK, Attempts, Labels, Ownership, OtherAttempts, Fresh, Ended,
         History, Over, Explained, SurvivorsExplained, Surviving
<1> QED
  BY <1>1, OwnershipInvariant, HistoryInvariant, PTL

\* Outside APFS targets every failure before the child is acknowledged.
THEOREM FailuresAcknowledged == Spec => OtherFailuresAcknowledged
<1> DEFINE Acknowledged ==
      pc = "returned" /\ menu.show_picker /\ attempt \notin started
        /\ ~(ApfsJumpstart /\ target.apfs_volume) => pc' = "ack"
<1>1. TypeInv /\ History /\ [Next]_vars => [Acknowledged]_vars
  <2> SUFFICES ASSUME TypeInv, History, Next, pc = "returned", menu.show_picker,
                      attempt \notin started, ~(ApfsJumpstart /\ target.apfs_volume)
               PROVE  pc' = "ack"
    OBVIOUS
  <2>1. IsError(status)
    BY DEF History, StartedByLabel
  <2>2. AttemptReturned
    BY DEF Next, ManagerNext, Finished, DisableWatchdog, OpenFileSystem, OpenVolume, OpenConfig,
           OpenStep, ReadConfigInfo, ReadConfigBytes, ReadConfigDone, ParseFailed, ParseMenu,
           ShowRecovery, RecoveryRetry, RecoveryExit, KeyError, PickerBoot, PickerCancel,
           PickerError, Acknowledge, ChainNext, LoadApfsTarget, RejectApfsTarget, OpenSelf,
           CheckOwnPath, BuildPath, FinishPath, LoadImage, OpenChild, SetLoadOptions,
           RejectDriver, AcquireLease, LeaseFailed, LeaseStuck, StartImage, StartRejected,
           ChildExits, FreeExitData, ReleaseLease, CleanupGone, CleanupOpen, CleanupClear,
           CleanupUnload, CleanupUnopened
  <2> QED
    BY <2>1, <2>2 DEF AttemptReturned
<1> QED
  BY <1>1, OwnershipInvariant, HistoryInvariant, PTL DEF Spec, OtherFailuresAcknowledged

-----------------------------------------------------------------------------
(* The lease                                                               *)

\* Each step of an attempt is a step of the lease or invisible in it.
LEMMA ChainStepUsesLease ==
    ASSUME TypeInv, UNCHANGED build, Ownership, History, ChainNext
    PROVE  [Lease!Next]_(Lease!vars)
<1> USE DEF leasePhase, Ownership, LeaseByLabel, History, LeaseByBuild
<1>1. CASE ~ConsoleControl
  <2>1. lease = "none" /\ lease' = "none"
    BY <1>1, ChainStepStarted
  <2>2. leasePhase = "none" /\ leasePhase' = "none"
    BY <1>1
  <2> QED
    BY <2>1, <2>2 DEF Lease!vars
<1>2. CASE ConsoleControl /\ SetLoadOptions
  <2>1. Lease!Acquire
    BY <1>2 DEF SetLoadOptions, Lease!Acquire
  <2> QED
    BY <2>1 DEF Lease!Next
<1>3. CASE ConsoleControl /\ AcquireLease
  <2>1. Lease!Reuse \/ Lease!Own
    BY <1>3 DEF AcquireLease, Lease!Reuse, Lease!Own
  <2> QED
    BY <2>1 DEF Lease!Next
<1>4. CASE ConsoleControl /\ LeaseFailed
  <2>1. Lease!Refuse
    BY <1>4 DEF LeaseFailed, Return, Lease!Refuse
  <2> QED
    BY <2>1 DEF Lease!Next
<1>5. CASE ConsoleControl /\ LeaseStuck
  <2>1. Lease!Stick
    BY <1>5 DEF LeaseStuck, Lease!Stick
  <2> QED
    BY <2>1 DEF Lease!Next
<1>6. CASE ConsoleControl /\ (StartRejected \/ FreeExitData)
  <2>1. Lease!Return
    BY <1>6 DEF StartRejected, FreeExitData, chainVars, Lease!Return
  <2> QED
    BY <2>1 DEF Lease!Next
<1>7. CASE ConsoleControl /\ ReleaseLease
  <2>1. Lease!Release \/ Lease!Stick
    BY <1>7 DEF ReleaseLease, Lease!Release, Lease!Stick
  <2> QED
    BY <2>1 DEF Lease!Next
<1>8. CASE ConsoleControl /\ (StartImage \/ ChildExits)
  BY <1>8 DEF StartImage, ChildExits, Lease!vars
<1>9. CASE ConsoleControl /\ (LoadApfsTarget \/ RejectApfsTarget \/ OpenSelf \/ CheckOwnPath
                             \/ BuildPath \/ FinishPath \/ LoadImage)
  BY <1>9 DEF LoadApfsTarget, RejectApfsTarget, OpenSelf, CheckOwnPath, BuildPath, FinishPath,
              LoadImage, LoadFailed, Lease!vars
<1>10. CASE ConsoleControl /\ (OpenChild \/ RejectDriver)
  BY <1>10 DEF OpenChild, RejectDriver, Return, Lease!vars
<1>11. CASE ConsoleControl /\ (CleanupGone \/ CleanupOpen \/ CleanupClear \/ CleanupUnload
                              \/ CleanupUnopened)
  BY <1>11 DEF CleanupGone, CleanupOpen, CleanupClear, CleanupUnload, CleanupUnopened, Return,
               Lease!vars
<1> QED
  BY <1>1, <1>2, <1>3, <1>4, <1>5, <1>6, <1>7, <1>8, <1>9, <1>10, <1>11 DEF ChainNext

\* The steps of efi_main happen without a lease.
LEMMA ManagerStepUsesLease ==
    ASSUME Ownership, UNCHANGED build, ManagerNext
    PROVE  UNCHANGED Lease!vars
<1>1. /\ pc \in ConfigLabels \cup KeyLabels \cup {"entry", "recovery", "returned"}
      /\ pc' \in ConfigLabels \cup KeyLabels \cup {"recovery", "load", "done"}
      /\ UNCHANGED lease
  BY DEF ManagerNext, DisableWatchdog, OpenFileSystem, OpenVolume, OpenConfig,
         OpenStep, ReadConfigInfo, ReadConfigBytes, ReadConfigDone, ParseFailed, ParseMenu,
         ShowRecovery, RecoveryRetry, RecoveryExit, KeyError, PickerBoot, PickerCancel,
         PickerError, AttemptReturned, Acknowledge, ConfigError, Exit, BeginChainload, chainVars
<1>2. leasePhase = "none" /\ leasePhase' = "none"
  BY <1>1 DEF leasePhase
<1> QED
  BY <1>1, <1>2 DEF Lease!vars

\* chainload uses the lease as console_control.rs offers it.
THEOREM LeaseUsed == Spec => UsesLease
<1>1. Init => Lease!Init
  BY DEF Init, ChainInit, leasePhase, Lease!Init
<1>2. TypeInv /\ Ownership /\ History /\ [Next]_vars => [Lease!Next]_(Lease!vars)
  <2> SUFFICES ASSUME TypeInv, Ownership, History, [Next]_vars
               PROVE  [Lease!Next]_(Lease!vars)
    OBVIOUS
  <2>0. UNCHANGED build
    BY DEF Next, vars
  <2>1. CASE ManagerNext
    BY <2>0, <2>1, ManagerStepUsesLease
  <2>2. CASE ChainNext
    BY <2>0, <2>2, ChainStepUsesLease
  <2>3. CASE UNCHANGED vars
    BY <2>3 DEF vars, chainVars, leasePhase, Lease!vars
  <2> QED
    BY <2>1, <2>2, <2>3 DEF Next, Finished
<1> QED
  BY <1>1, <1>2, OwnershipInvariant, HistoryInvariant, PTL DEF Spec, UsesLease, Lease!Spec
=============================================================================
