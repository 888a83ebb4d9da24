---------------------------- MODULE BootContract ----------------------------
(***************************************************************************)
(* What BOOTX64 promises the person in front of it (BOOT_FAILURE_RECOVERY  *)
(* and CONFIGURATION_RECOVERY), without handles, images or buffers:        *)
(*  - an unusable configuration is shown and only a key press leaves that  *)
(*    screen: retry, or return the configuration's own status;             *)
(*  - a configuration without ShowPicker makes exactly one attempt and     *)
(*    returns its status;                                                  *)
(*  - in the menu every attempt is chosen by a key, a failed attempt is    *)
(*    acknowledged by a key before the menu opens again, and only a        *)
(*    status that is not an error is returned;                             *)
(*  - the only other ends are a cancelled menu, a failed display or        *)
(*    keyboard, and staying resident when callbacks cannot be withdrawn.   *)
(***************************************************************************)
EXTENDS EfiStatus

VARIABLES
    phase,    \* "configure", "recover", "menu", "attempt", "failed", "ended"
    picker,   \* ShowPicker of the accepted configuration
    outcome,  \* status of the failure on the screen, Success when there is none
    result    \* what efi_main returned, NoStatus until then

vars == <<phase, picker, outcome, result>>

Init ==
    /\ phase = "configure"
    /\ picker = FALSE
    /\ outcome = Success
    /\ result = NoStatus

End(s) == phase' = "ended" /\ result' = s

ConfigurationRejected ==
    /\ phase = "configure"
    /\ phase' = "recover"
    /\ outcome' \in Errors
    /\ UNCHANGED <<picker, result>>

ConfigurationAccepted ==
    /\ phase = "configure"
    /\ picker' \in BOOLEAN
    /\ phase' = IF picker' THEN "menu" ELSE "attempt"
    /\ UNCHANGED <<outcome, result>>

RetryKey ==
    /\ phase = "recover"
    /\ phase' = "configure"
    /\ outcome' = Success
    /\ UNCHANGED <<picker, result>>

EscapeKey ==
    /\ phase = "recover"
    /\ End(outcome)
    /\ UNCHANGED <<picker, outcome>>

BootKey ==
    /\ phase = "menu"
    /\ phase' = "attempt"
    /\ UNCHANGED <<picker, outcome, result>>

CancelKey ==
    /\ phase = "menu"
    /\ End("ABORTED")
    /\ UNCHANGED <<picker, outcome>>

AttemptFails ==
    /\ phase = "attempt"
    /\ picker
    /\ outcome' \in Errors
    /\ phase' = "failed"
    /\ UNCHANGED <<picker, result>>

AttemptEnds ==
    /\ phase = "attempt"
    /\ outcome' \in Statuses
    /\ ~IsError(outcome') \/ ~picker
    /\ End(outcome')
    /\ UNCHANGED picker

AcknowledgeKey ==
    /\ phase = "failed"
    /\ phase' = "menu"
    /\ outcome' = Success
    /\ UNCHANGED <<picker, result>>

\* A required display or keyboard call failed: its status is returned.
ConsoleError ==
    /\ phase \in {"recover", "menu", "failed"}
    /\ \E e \in Errors : End(e)
    /\ UNCHANGED <<picker, outcome>>

\* Published console callbacks could not be withdrawn.
StayResident ==
    /\ phase = "attempt"
    /\ phase' = "ended"
    /\ UNCHANGED <<picker, outcome, result>>

Next ==
    \/ ConfigurationRejected \/ ConfigurationAccepted
    \/ RetryKey \/ EscapeKey
    \/ BootKey \/ CancelKey
    \/ AttemptFails \/ AttemptEnds \/ AcknowledgeKey
    \/ ConsoleError \/ StayResident

Spec == Init /\ [][Next]_vars
=============================================================================
