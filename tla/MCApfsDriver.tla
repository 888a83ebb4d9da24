----------------------------- MODULE MCApfsDriver -----------------------------
(***************************************************************************)
(* ApfsDriver with three partitions, one more than the scan accepts, and   *)
(* a two-block driver on a medium that changes at most twice per run.      *)
(***************************************************************************)
EXTENDS ApfsDriver
=============================================================================
