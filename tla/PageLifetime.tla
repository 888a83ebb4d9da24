---------------------------- MODULE PageLifetime ----------------------------
(***************************************************************************)
(* The life of a range of firmware pages as its owners in this repository  *)
(* promise it (ArmPages, Pages, LoadedKernel, SelectedBootPayload): what   *)
(* AllocatePages granted has an owner from then on; FreePages is attempted *)
(* at most once, whatever it answers; pages that must survive the exit of  *)
(* boot services are never given back; and nobody returns to the firmware  *)
(* with pages that were neither given back nor kept.                       *)
(***************************************************************************)
EXTENDS Naturals

VARIABLES
    memory,    \* the pages: "none", "owned" or "freed"
    attempts,  \* calls of FreePages
    kept,      \* "yes" once the owner is a ManuallyDrop
    over       \* "yes" once the program has returned or left

vars == <<memory, attempts, kept, over>>

LifetimeTypes ==
    /\ memory \in {"none", "owned", "freed"}
    /\ attempts \in Nat
    /\ kept \in {"no", "yes"}
    /\ over \in {"no", "yes"}

Init == memory = "none" /\ attempts = 0 /\ kept = "no" /\ over = "no"

\* AllocatePages grants the pages.
Allocate ==
    /\ memory = "none"
    /\ memory' = "owned"
    /\ UNCHANGED <<attempts, kept>>

\* They are granted, fail a check and are given back within one call.
Reject ==
    /\ memory = "none"
    /\ memory' = "freed" /\ attempts' = 1
    /\ UNCHANGED kept

\* FreePages, which the firmware may refuse.
Free ==
    /\ memory = "owned" /\ kept = "no" /\ attempts = 0
    /\ memory' \in {"freed", "owned"} /\ attempts' = 1
    /\ UNCHANGED kept

\* ManuallyDrop: from here on the pages have to survive.
Keep ==
    /\ memory = "owned" /\ attempts = 0
    /\ kept' = "yes"
    /\ UNCHANGED <<memory, attempts>>

\* The program goes on, or ends, without touching the pages.
Leave == UNCHANGED <<memory, attempts, kept>>

\* There is nothing left to be given back.
Settled == memory = "none" \/ attempts = 1 \/ kept = "yes"

Next ==
    /\ over = "no"
    /\ Allocate \/ Reject \/ Free \/ Keep \/ Leave
    /\ over' \in {"no", "yes"} /\ (over' = "yes" => Settled')

Spec == Init /\ [][Next]_vars

-----------------------------------------------------------------------------

\* What the contract is for: FreePages is attempted at most once, never for
\* pages that must survive, and nothing is left unsettled at the end.
LifetimeSafe ==
    /\ attempts <= 1
    /\ memory = "freed" => attempts = 1
    /\ kept = "yes" => memory = "owned" /\ attempts = 0
    /\ over = "yes" => Settled
=============================================================================
