---------------------------- MODULE MCApfsVolumes ----------------------------
(***************************************************************************)
(* ApfsVolumes with three handles for two volumes: paths and labels may    *)
(* coincide, and the directories reach the limits of one volume and of the *)
(* whole scan.                                                             *)
(***************************************************************************)
EXTENDS ApfsVolumes
=============================================================================
