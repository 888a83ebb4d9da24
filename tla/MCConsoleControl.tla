--------------------------- MODULE MCConsoleControl ---------------------------
(* ConsoleControl with a log limit that nested callbacks can pass. *)
EXTENDS ConsoleControl
=============================================================================
