----------------------------- MODULE MCPageOwner -----------------------------
(***************************************************************************)
(* PageOwner over 4-bit addresses and pages of two bytes: every map of     *)
(* up to three descriptors that start before, inside, after or between the *)
(* pages of the range, are empty, overlap each other or end beyond the     *)
(* address space; one map with too many descriptors; and one range above   *)
(* the ceiling of Pages.                                                   *)
(***************************************************************************)
EXTENDS PageOwner

MCDescriptors == [start : {0, 2, 3, 4, 6}, pages : {0, 1, 2, 3, 7}, ty : Types]
MCLong == [i \in 1..4 |-> [start |-> 2 * i - 2, pages |-> 1, ty |-> "loader"]]
MCMaps == UNION {[1..n -> MCDescriptors] : n \in 0..2}
          \cup {<<[start |-> 2, pages |-> 1, ty |-> "loader"], d, e>> :
                d \in MCDescriptors, e \in MCDescriptors}
          \cup {<<d, e, [start |-> 6, pages |-> 1, ty |-> "loader"]>> :
                d \in MCDescriptors, e \in MCDescriptors}
          \cup {[i \in 1..3 |-> d] : d \in MCDescriptors}
          \cup {MCLong}
MCRanges == {<<2, 6>>, <<12, 2>>}
=============================================================================
