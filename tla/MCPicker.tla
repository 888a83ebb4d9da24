------------------------------- MODULE MCPicker -------------------------------
(***************************************************************************)
(* Picker with menus of no entry to one too many, and text consoles from   *)
(* the smallest that shows an entry to one that shows several.             *)
(***************************************************************************)
EXTENDS Picker

MCMenuSizes == 0..6
MCRows == {7, 10, 11, 12, 13, 14}
=============================================================================
