----------------------------- MODULE MapCoverage -----------------------------
(***************************************************************************)
(* The two functions that decide from the firmware's memory map whether an *)
(* owned range is still there: ArmPages::validate_map (arm_pages.rs) and   *)
(* MapBuffer::refresh and coverage (loaded_kernel_collection.rs).  Both    *)
(* first look at every descriptor and add up the overlaps, then walk a     *)
(* cursor through the range.  They differ in the alignment test and in     *)
(* the bound of the walk.                                                  *)
(*                                                                         *)
(* Addresses are u64 values, scaled down to 0..Limit-1.                    *)
(***************************************************************************)
EXTENDS Integers, Sequences

CONSTANTS
    Limit,           \* 2^64
    PageSize,        \* 4096
    MaxDescriptors,  \* 4096, the bound on descriptors
    StepLimit,       \* 4096, the bound of validate_map's walk
    Types,           \* memory types
    Maps,            \* the memory maps the firmware may return
    Ranges           \* the ranges <<base, bytes>> that may be owned

Descriptor == [start : 0..(Limit - 1), pages : 0..(Limit - 1), ty : Types]

ASSUME MapCoverageAssumption ==
    /\ Limit \in Nat \ {0} /\ PageSize \in Nat \ {0}
    /\ MaxDescriptors \in Nat /\ StepLimit \in Nat
    /\ \A m \in Maps : m \in Seq(Descriptor)
    /\ \A r \in Ranges : r[1] \in 0..(Limit - 1) /\ r[2] \in 1..(Limit - 1)

VARIABLES
    code,          \* "validate_map" or "coverage"
    pc,            \* "meta", "scan", "walk", "done"
    map,           \* the descriptors
    meta,          \* version, stride and size fields: "valid" or "invalid"
    base, bytes,   \* the owned range
    expected,      \* the type it must have
    index,         \* descriptors looked at
    total,         \* sum of the overlaps
    intersecting,  \* number of descriptors that overlap
    cursor,        \* the range is covered from base to here
    steps,         \* iterations of the walk
    result         \* "none", "ok" or "COMPROMISED_DATA"

input == <<code, map, meta, base, bytes, expected>>
vars == <<pc, input, index, total, intersecting, cursor, steps, result>>

Arm == code = "validate_map"
Last == base + bytes                                     \* end
LimitOf(d) == d.start + d.pages * PageSize               \* limit
Lo(d) == IF base > d.start THEN base ELSE d.start
Hi(d) == IF Last < LimitOf(d) THEN Last ELSE LimitOf(d)
Overlaps(d) == Lo(d) < Hi(d)
Contains(d, a) == d.start <= a /\ a < LimitOf(d)

TypeOK ==
    /\ code \in {"validate_map", "coverage"}
    /\ pc \in {"meta", "scan", "walk", "done"}
    /\ map \in Seq(Descriptor)
    /\ meta \in {"valid", "invalid"}
    /\ base \in 0..(Limit - 1) /\ bytes \in 1..(Limit - 1)
    /\ expected \in Types
    /\ index \in 0..Len(map)
    /\ total \in 0..(Limit - 1)
    /\ intersecting \in 0..index
    /\ cursor \in 0..(Limit - 1)
    /\ steps \in Nat
    /\ result \in {"none", "ok", "COMPROMISED_DATA"}

Init ==
    /\ code \in {"validate_map", "coverage"}
    /\ pc = "meta"
    /\ map \in Maps
    /\ meta \in {"valid", "invalid"}
    /\ \E r \in Ranges : base = r[1] /\ bytes = r[2]
    /\ expected \in Types
    /\ index = 0 /\ total = 0 /\ intersecting = 0
    /\ cursor = 0 /\ steps = 0
    /\ result = "none"

-----------------------------------------------------------------------------
Return(r) == pc' = "done" /\ result' = r
Reject == Return("COMPROMISED_DATA") /\ UNCHANGED <<input, index, total, intersecting,
                                                     cursor, steps>>

\* The fields of the map as a whole, and the end of the range.
MetaOK ==
    /\ meta = "valid"
    /\ Len(map) > 0 /\ Len(map) <= MaxDescriptors
    /\ Last < Limit

CheckMeta ==
    /\ pc = "meta"
    /\ \/ /\ MetaOK
          /\ pc' = "scan"
          /\ UNCHANGED <<input, index, total, intersecting, cursor, steps, result>>
       \/ ~MetaOK /\ Reject

\* Mutant: the limit of a descriptor is not tested unless it overlaps.
DescriptorOKWrapped(d) ==
    /\ (~Arm \/ Overlaps(d)) => d.start % PageSize = 0
    /\ Overlaps(d) => d.ty = expected

\* checked_mul and checked_add, the alignment (coverage tests it for every
\* descriptor, validate_map for those that overlap) and the type.
DescriptorOK(d) ==
    /\ LimitOf(d) < Limit
    /\ (~Arm \/ Overlaps(d)) => d.start % PageSize = 0
    /\ Overlaps(d) => d.ty = expected

Overlap(d) == IF Overlaps(d) THEN Hi(d) - Lo(d) ELSE 0

\* One descriptor of the first loop.
Scan ==
    /\ pc = "scan"
    /\ index < Len(map)
    /\ LET d == map[index + 1]
       IN  \/ /\ DescriptorOK(d) /\ total + Overlap(d) < Limit
              /\ index' = index + 1
              /\ total' = total + Overlap(d)
              /\ intersecting' = IF Overlaps(d) THEN intersecting + 1 ELSE intersecting
              /\ UNCHANGED <<pc, input, cursor, steps, result>>
           \/ ~(DescriptorOK(d) /\ total + Overlap(d) < Limit) /\ Reject

\* Mutant: the sum of the overlaps is not compared with the size.
ScanDoneNoTotal ==
    /\ pc = "scan"
    /\ index = Len(map)
    /\ pc' = "walk"
    /\ cursor' = base
    /\ UNCHANGED <<input, index, total, intersecting, steps, result>>

\* The sum must be the size of the range.
ScanDone ==
    /\ pc = "scan"
    /\ index = Len(map)
    /\ \/ /\ total = bytes
          /\ pc' = "walk"
          /\ cursor' = base
          /\ UNCHANGED <<input, index, total, intersecting, steps, result>>
       \/ total # bytes /\ Reject

\* The bound of the second loop.
WalkBound == IF Arm THEN StepLimit ELSE intersecting

\* Where the descriptors that contain the cursor reach to.
Reached == {cursor} \cup {Hi(map[i]) : i \in {j \in 1..Len(map) : Contains(map[j], cursor)}}

\* One iteration of the second loop: finished, stuck, or further.
Walk ==
    /\ pc = "walk"
    /\ steps < WalkBound
    /\ \/ /\ cursor = Last
          /\ Return("ok")
          /\ UNCHANGED <<input, index, total, intersecting, cursor, steps>>
       \/ /\ cursor # Last
          /\ \E n \in Reached :
               /\ \A m \in Reached : m <= n
               /\ \/ n = cursor /\ Reject
                  \/ /\ n # cursor
                     /\ cursor' = n
                     /\ steps' = steps + 1
                     /\ UNCHANGED <<pc, input, index, total, intersecting, result>>

\* Mutant: coverage does not test the cursor after the loop either.
WalkEndRejects ==
    /\ pc = "walk"
    /\ steps = WalkBound
    /\ Reject

\* After the loop coverage tests the cursor once more, validate_map does not.
WalkEnd ==
    /\ pc = "walk"
    /\ steps = WalkBound
    /\ \/ /\ ~Arm /\ cursor = Last
          /\ Return("ok")
          /\ UNCHANGED <<input, index, total, intersecting, cursor, steps>>
       \/ (Arm \/ cursor # Last) /\ Reject

Done == pc = "done" /\ UNCHANGED vars

Next == CheckMeta \/ Scan \/ ScanDone \/ Walk \/ WalkEnd \/ Done

Spec == Init /\ [][Next]_vars

-----------------------------------------------------------------------------
(* Properties                                                              *)

OwnedRange == base..(Last - 1)
Holders(a) == {i \in 1..Len(map) : Contains(map[i], a)}

\* The second loop adds without checks: it may only run on a map whose
\* descriptors all end below 2^64 (validate_map, coverage).
WalkCannotOverflow ==
    pc = "walk" => \A i \in 1..Len(map) : LimitOf(map[i]) < Limit

\* Every address of an accepted range is in exactly one descriptor, and that
\* has the expected type: there is no gap, no other type, and "Sum equality
\* rejects overlap after the gap-free traversal below."
AcceptedIsExact ==
    result = "ok" =>
        \A a \in OwnedRange :
            \E i \in 1..Len(map) : Holders(a) = {i} /\ map[i].ty = expected

\* A range that a well-formed map of the right type covers exactly once is
\* accepted by coverage whatever the number of its descriptors, and by
\* validate_map exactly when there are fewer than StepLimit of them: its loop
\* sees the end of the range only in the iteration after the last descriptor,
\* and never accepts a range that lies in StepLimit descriptors.
ExactIsAccepted ==
    /\ result = "COMPROMISED_DATA" =>
           ~ /\ MetaOK
             /\ \A i \in 1..Len(map) : DescriptorOK(map[i])
             /\ \A a \in OwnedRange : \E i \in 1..Len(map) : Holders(a) = {i}
             /\ Arm => intersecting < StepLimit
    /\ result = "ok" /\ Arm => intersecting < StepLimit
=============================================================================
