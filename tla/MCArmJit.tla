------------------------------ MODULE MCArmJit ------------------------------
(***************************************************************************)
(* ArmJit with two releases of every file, the builds that differ in what  *)
(* the model distinguishes, three calls of the runner and two display      *)
(* modes.                                                                  *)
(***************************************************************************)
EXTENDS ArmJit

MCReleases == {"a", "b"}

\* arm-jit alone, with the probe, a plain trace with its two observers, and
\* the mapped and selected traces, which imply the memory provider.
MCBuilds ==
    { {}, {"probe"}, {"trace", "readback", "observe"},
      {"trace", "probe", "provider", "mapped", "observe"},
      {"trace", "probe", "provider", "mapped", "selected", "readback"} }
=============================================================================
