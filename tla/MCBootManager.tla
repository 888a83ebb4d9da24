--------------------------- MODULE MCBootManager ---------------------------
(* Bounded instances of BootManager for TLC. *)
EXTENDS BootManager

Plain == [apfs_volume |-> FALSE, arguments |-> FALSE]
WithArguments == [apfs_volume |-> FALSE, arguments |-> TRUE]
OnApfs == [apfs_volume |-> TRUE, arguments |-> TRUE]

\* One menu per case of efi_main: no entries, a direct target, a picker with
\* every kind of target, a picker with more entries than it accepts.
MCMenus ==
    {[show_picker |-> TRUE, entries |-> <<>>],
     [show_picker |-> FALSE, entries |-> <<WithArguments, Plain>>],
     [show_picker |-> TRUE, entries |-> <<Plain, WithArguments, OnApfs>>],
     [show_picker |-> TRUE, entries |-> <<Plain, Plain, Plain, Plain>>]}
=============================================================================
