------------------------------ MODULE MCHandoff ------------------------------
(***************************************************************************)
(* Handoff with a memory map that changes up to four times, so that it may *)
(* differ at the preview, at each attempt to exit and in between.          *)
(***************************************************************************)
EXTENDS Handoff
=============================================================================
