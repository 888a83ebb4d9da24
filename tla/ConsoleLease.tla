---------------------------- MODULE ConsoleLease ----------------------------
(***************************************************************************)
(* The Console Control lease as chainload and console_control.rs agree on  *)
(* it, without the protocol database, the log or the child image:          *)
(*  - acquire ends with a lease, with an error and nothing left behind, or *)
(*    not at all;                                                          *)
(*  - a lease either reuses a published interface or owns a provider, and  *)
(*    an owned provider stays alive until the lease is released;           *)
(*  - a lease is released once, after the child, and before the next one;  *)
(*  - a provider that cannot be withdrawn keeps the loader resident.       *)
(*                                                                         *)
(* ConsoleControl implements it as the one who is called, BootManager as   *)
(* the caller, so that the outcomes one counts on are those of the other.  *)
(***************************************************************************)

VARIABLES
    phase,     \* "none", "acquiring", "held", "releasing" or "stuck"
    kind,      \* "none", "reused" or "owned"
    provider   \* the callbacks' storage: "absent" or "live"

vars == <<phase, kind, provider>>

LeaseTypes ==
    /\ phase \in {"none", "acquiring", "held", "releasing", "stuck"}
    /\ kind \in {"none", "reused", "owned"}
    /\ provider \in {"absent", "live"}

Init == phase = "none" /\ kind = "none" /\ provider = "absent"

\* Lease::acquire is called, and may box a provider before it answers.
Acquire ==
    /\ phase \in {"none", "acquiring"}
    /\ phase' = "acquiring"
    /\ provider' \in {"absent", "live"}
    /\ UNCHANGED kind

\* Ok: an interface somebody else published.
Reuse ==
    /\ phase \in {"none", "acquiring"}
    /\ phase' = "held" /\ kind' = "reused" /\ provider' = "absent"

\* Ok: the provider is published and alive.
Own ==
    /\ phase = "acquiring"
    /\ phase' = "held" /\ kind' = "owned" /\ provider' = "live"

\* Err: the provider, if there was one, is gone.
Refuse ==
    /\ phase = "acquiring"
    /\ phase' = "none" /\ provider' = "absent"
    /\ UNCHANGED kind

\* StartImage has returned, or was refused.
Return ==
    /\ phase = "held"
    /\ phase' = "releasing"
    /\ UNCHANGED <<kind, provider>>

\* Drop: a reused interface is left alone, an owned one withdrawn.
Release ==
    /\ phase = "releasing"
    /\ phase' = "none" /\ kind' = "none" /\ provider' = "absent"

\* An owned interface cannot be withdrawn, when it is released or when
\* acquire has to give it up.
Stick ==
    /\ phase = "acquiring" \/ (phase = "releasing" /\ kind = "owned")
    /\ phase' = "stuck" /\ kind' = "owned" /\ provider' = "live"

Next == Acquire \/ Reuse \/ Own \/ Refuse \/ Return \/ Release \/ Stick

Spec == Init /\ [][Next]_vars

-----------------------------------------------------------------------------

\* What the contract is for: callbacks are alive exactly while a lease that
\* owns them is held or stuck, and none are between two leases.
LeaseSafe ==
    /\ phase \in {"held", "releasing", "stuck"} => (provider = "live" <=> kind = "owned")
    /\ phase = "none" => provider = "absent"
    /\ (kind = "none") <=> phase \in {"none", "acquiring"}
=============================================================================
