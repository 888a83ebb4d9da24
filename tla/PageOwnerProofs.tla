--------------------------- MODULE PageOwnerProofs ---------------------------
(***************************************************************************)
(* The memory map's checks and the page owners, for every map, range, page *)
(* size and address width.                                                 *)
(*                                                                         *)
(* The first part is about what validate_map and coverage accept: its      *)
(* inductive invariant says what each loop has established so far, the     *)
(* first that the descriptors looked at are well formed and of the         *)
(* expected type where they overlap, the second that the range is covered  *)
(* from its base to the cursor.  The second part adds who has the pages at *)
(* each step, how often FreePages was called, and which type the last      *)
(* check was about.                                                        *)
(***************************************************************************)
EXTENDS PageOwner, FiniteSetTheorems, TLAPS

-----------------------------------------------------------------------------
(* What the two loops of a check accept.                                   *)

\* The descriptors looked at so far are in order.
Scanned == \A i \in 1..index : DescriptorOK(map[i])

\* Every address before the cursor is in some descriptor.
CoveredSoFar ==
    /\ base <= cursor /\ cursor <= Last
    /\ \A a \in base..(cursor - 1) : Holders(a) # {}

LoopInv ==
    /\ TypeOK
    /\ pc # "done" => result = "none"
    /\ pc = "meta" => index = 0
    /\ pc \in {"scan", "walk"} => MetaOK /\ Scanned
    /\ pc = "walk" => index = Len(map) /\ CoveredSoFar
    /\ result = "ok" => index = Len(map) /\ Scanned /\ cursor = Last /\ CoveredSoFar

\* LimitOf is a number: the product is formed once and for all here.
LEMMA LimitIsNat ==
    ASSUME NEW d \in Descriptor
    PROVE  LimitOf(d) \in Nat /\ d.start \in Nat /\ d.start <= LimitOf(d)
<1>1. PageSize \in Nat /\ d.start \in Nat /\ d.pages \in Nat
  BY MapCoverageAssumption DEF Descriptor
<1>2. d.pages * PageSize \in Nat
  BY <1>1
<1> QED
  BY <1>1, <1>2 DEF LimitOf

\* The value functions of a descriptor on a range of numbers.
LEMMA Bounds ==
    ASSUME TypeOK, NEW d \in Descriptor
    PROVE  /\ Last \in Nat /\ Hi(d) \in Nat /\ Lo(d) \in Nat
           /\ Hi(d) <= Last /\ Hi(d) <= LimitOf(d)
           /\ base <= Lo(d) /\ d.start <= Lo(d)
           /\ Overlap(d) \in Nat
<1>1. base \in Nat /\ bytes \in Nat
  BY MapCoverageAssumption DEF TypeOK
<1>2. Last \in Nat
  BY <1>1 DEF Last
<1>3. LimitOf(d) \in Nat /\ d.start \in Nat
  BY LimitIsNat
<1>4. Hi(d) \in Nat /\ Hi(d) <= Last /\ Hi(d) <= LimitOf(d)
  BY <1>2, <1>3 DEF Hi
<1>5. Lo(d) \in Nat /\ base <= Lo(d) /\ d.start <= Lo(d)
  BY <1>1, <1>3 DEF Lo
<1>6. Overlap(d) \in Nat
  BY <1>4, <1>5 DEF Overlap, Overlaps
<1> QED
  BY <1>2, <1>4, <1>5, <1>6

\* The walk is monotone, stays in the range, and leaves no gap behind: the
\* addresses it passes lie in the descriptor that contains the cursor.
LEMMA WalkCovers ==
    ASSUME LoopInv, pc = "walk", NEW n \in Reached
    PROVE  /\ n \in Nat /\ n <= Last
           /\ n >= cursor => \A a \in base..(n - 1) : Holders(a) # {}
<1>1. cursor \in Nat /\ base \in Nat /\ base <= cursor /\ cursor <= Last /\ map \in Seq(Descriptor)
  BY MapCoverageAssumption DEF LoopInv, TypeOK, CoveredSoFar
<1>2. CASE n = cursor
  BY <1>1, <1>2 DEF LoopInv, CoveredSoFar
<1>3. CASE n # cursor
  <2>1. PICK i \in 1..Len(map) : Contains(map[i], cursor) /\ n = Hi(map[i])
    BY <1>3 DEF Reached
  <2>2. map[i] \in Descriptor
    BY <1>1, <2>1
  <2>3. /\ Last \in Nat /\ n \in Nat /\ n <= Last /\ n <= LimitOf(map[i])
        /\ map[i].start \in Nat /\ LimitOf(map[i]) \in Nat
    BY <2>1, <2>2, Bounds, LimitIsNat DEF LoopInv
  <2>4. ASSUME NEW a \in base..(n - 1) PROVE Holders(a) # {}
    <3>1. CASE a < cursor
      <4>1. a \in base..(cursor - 1)
        BY <1>1, <2>3, <2>4, <3>1
      <4> QED
        BY <4>1 DEF LoopInv, CoveredSoFar
    <3>2. CASE a >= cursor
      <4>1. map[i].start <= cursor
        BY <2>1 DEF Contains
      <4>2. Contains(map[i], a)
        BY <1>1, <2>3, <2>4, <3>2, <4>1 DEF Contains
      <4> QED
        BY <2>1, <4>2 DEF Holders
    <3> QED
      BY <1>1, <2>3, <3>1, <3>2
  <2> QED
    BY <2>3, <2>4
<1> QED
  BY <1>2, <1>3

\* Every step keeps what the loops have established.
LEMMA LoopStep == LoopInv /\ [Next]_vars => LoopInv'
<1> SUFFICES ASSUME LoopInv, [Next]_vars
             PROVE  LoopInv'
  OBVIOUS
<1> USE MapCoverageAssumption
<1>t. TypeOK
  BY DEF LoopInv
<1>r. ASSUME Reject PROVE LoopInv'
  BY <1>r, <1>t DEF LoopInv, TypeOK, Reject, Return, input
<1>1. CASE CheckMeta
  <2>1. CASE MetaOK
    <3>1. /\ pc = "meta" /\ pc' = "scan"
          /\ UNCHANGED <<input, index, total, intersecting, cursor, steps, result>>
      BY <1>1, <2>1 DEF CheckMeta
    <3>2. index' = 0 /\ result' = "none"
      BY <3>1 DEF LoopInv
    <3>3. TypeOK' /\ MetaOK'
      BY <1>t, <2>1, <3>1 DEF TypeOK, MetaOK, Last, input
    <3>4. Scanned'
      BY <3>2 DEF Scanned
    <3> QED
      BY <3>1, <3>2, <3>3, <3>4 DEF LoopInv
  <2>2. CASE ~MetaOK
    BY <1>1, <2>2, <1>r DEF CheckMeta
  <2> QED
    BY <2>1, <2>2
<1>2. CASE Scan
  <2> DEFINE d == map[index + 1]
  <2>1. CASE DescriptorOK(d) /\ total + Overlap(d) < Limit
    <3>1. /\ pc = "scan" /\ index < Len(map)
          /\ index' = index + 1
          /\ total' = total + Overlap(d)
          /\ intersecting' = IF Overlaps(d) THEN intersecting + 1 ELSE intersecting
          /\ UNCHANGED <<pc, input, cursor, steps, result>>
      BY <1>2, <2>1 DEF Scan
    <3>2. d \in Descriptor
      BY <1>t, <3>1 DEF TypeOK
    <3>3. Overlap(d) \in Nat
      BY <1>t, <3>2, Bounds
    <3>4. TypeOK'
      BY <1>t, <2>1, <3>1, <3>3 DEF TypeOK, input
    <3>5. \A i \in 1..index' : DescriptorOK(map[i])
      BY <1>t, <2>1, <3>1 DEF LoopInv, Scanned, TypeOK
    <3>6. MetaOK' /\ Scanned'
      BY <3>1, <3>5 DEF LoopInv, MetaOK, Scanned, DescriptorOK, Arm, Overlaps, Lo, Hi, Last,
         LimitOf,
         input
    <3>7. result' = "none"
      BY <3>1 DEF LoopInv
    <3> QED
      BY <3>1, <3>4, <3>6, <3>7 DEF LoopInv
  <2>2. CASE ~(DescriptorOK(d) /\ total + Overlap(d) < Limit)
    BY <1>2, <2>2, <1>r DEF Scan
  <2> QED
    BY <2>1, <2>2
<1>3. CASE ScanDone
  <2>1. CASE total = bytes
    <3>1. /\ pc = "scan" /\ index = Len(map) /\ pc' = "walk" /\ cursor' = base
          /\ UNCHANGED <<input, index, total, intersecting, steps, result>>
      BY <1>3, <2>1 DEF ScanDone, Reject, Return
    <3>2. base \in Nat /\ bytes \in Nat
      BY <1>t DEF TypeOK
    <3>3. TypeOK'
      BY <1>t, <3>1 DEF TypeOK, input
    <3>4. MetaOK' /\ Scanned'
      BY <3>1 DEF LoopInv, MetaOK, Scanned, DescriptorOK, Arm, Overlaps, Lo, Hi, Last, LimitOf,
         input
    <3>5. CoveredSoFar'
      BY <3>1, <3>2 DEF CoveredSoFar, Last, input
    <3>6. result' = "none" /\ index' = Len(map')
      BY <3>1 DEF LoopInv, input
    <3> QED
      BY <3>1, <3>3, <3>4, <3>5, <3>6 DEF LoopInv
  <2>2. CASE total # bytes
    BY <1>3, <2>2, <1>r DEF ScanDone
  <2> QED
    BY <2>1, <2>2
<1>a. ASSUME pc = "walk", cursor = Last, Return("ok"),
             UNCHANGED <<input, index, total, intersecting, cursor, steps>>
      PROVE  LoopInv'
  <2>1. TypeOK'
    BY <1>a, <1>t DEF TypeOK, Return, input
  <2>2. index' = Len(map') /\ cursor' = Last'
    BY <1>a DEF LoopInv, Last, input
  <2>3. Scanned' /\ CoveredSoFar'
    BY <1>a DEF LoopInv, Scanned, DescriptorOK, Arm, Overlaps, Lo, Hi, Last, LimitOf,
       CoveredSoFar,
       Holders, Contains, input
  <2> QED
    BY <1>a, <2>1, <2>2, <2>3 DEF LoopInv, Return
<1>4. CASE Walk
  <2>1. CASE cursor = Last
    BY <1>4, <2>1, <1>a DEF Walk
  <2>2. CASE cursor # Last
    <3>1. PICK n \in Reached :
            /\ \A m \in Reached : m <= n
            /\ \/ n = cursor /\ Reject
               \/ /\ n # cursor
                  /\ cursor' = n
                  /\ steps' = steps + 1
                  /\ UNCHANGED <<pc, input, index, total, intersecting, result>>
      BY <1>4, <2>2 DEF Walk
    <3>2. CASE n = cursor /\ Reject
      BY <3>2, <1>r
    <3>3. CASE /\ n # cursor /\ cursor' = n /\ steps' = steps + 1
               /\ UNCHANGED <<pc, input, index, total, intersecting, result>>
      <4>1. pc = "walk" /\ cursor <= n
        BY <1>4, <3>1 DEF Walk, Reached
      <4>2. n \in Nat /\ n <= Last /\ n >= cursor
        BY <4>1, WalkCovers, <1>t DEF TypeOK
      <4>3. \A a \in base..(n - 1) : Holders(a) # {}
        BY <4>1, <4>2, WalkCovers
      <4>4. MetaOK /\ Scanned /\ index = Len(map) /\ result = "none" /\ base <= cursor
        BY <4>1 DEF LoopInv, CoveredSoFar
      <4>5. Last < Limit /\ Last \in Nat /\ base \in Nat /\ cursor \in Nat /\ Limit \in Nat
        BY <4>4, <1>t DEF MetaOK, TypeOK, Last
      <4>6. TypeOK'
        BY <3>3, <4>2, <4>5, <1>t DEF TypeOK, input
      <4>7. MetaOK' /\ Scanned'
        BY <3>3, <4>4 DEF MetaOK, Scanned, DescriptorOK, Arm, Overlaps, Lo, Hi, Last, LimitOf,
           input
      <4>8. base' = base /\ cursor' = n /\ Last' = Last /\ \A a : Holders(a)' = Holders(a)
        BY <3>3 DEF Last, Holders, Contains, LimitOf, input
      <4>9. CoveredSoFar'
        <5>1. base' <= cursor' /\ cursor' <= Last'
          BY <4>2, <4>4, <4>5, <4>8
        <5>2. \A a \in base'..(cursor' - 1) : Holders(a)' # {}
          BY <4>3, <4>8
        <5> QED
          BY <5>1, <5>2 DEF CoveredSoFar
      <4>10. pc' = "walk" /\ result' = "none" /\ index' = Len(map')
        BY <3>3, <4>1, <4>4 DEF input
      <4> QED
        BY <4>6, <4>7, <4>9, <4>10 DEF LoopInv
    <3> QED
      BY <3>1, <3>2, <3>3
  <2> QED
    BY <2>1, <2>2
<1>5. CASE WalkEnd
  <2>1. CASE ~Arm /\ cursor = Last /\ Return("ok")
             /\ UNCHANGED <<input, index, total, intersecting, cursor, steps>>
    BY <1>5, <2>1, <1>a DEF WalkEnd
  <2>2. CASE Reject
    BY <2>2, <1>r
  <2> QED
    BY <1>5, <2>1, <2>2 DEF WalkEnd
<1>6. CASE UNCHANGED vars
  BY <1>6 DEF LoopInv, TypeOK, MetaOK, Scanned, DescriptorOK, Arm, Overlaps, Lo, Hi, Last,
     LimitOf,
     CoveredSoFar, Holders, Contains, vars, input
<1> QED
  BY <1>1, <1>2, <1>3, <1>4, <1>5, <1>6 DEF Next, Done

\* The invariant of the two loops holds throughout, for every map.
THEOREM LoopInvariant == Spec => []LoopInv
<1>1. Init => LoopInv
  BY MapCoverageAssumption DEF Init, LoopInv, TypeOK
<1> QED
  BY <1>1, LoopStep, PTL DEF Spec

\* The fields of both functions stay in range: no sum leaves the u64 range.
THEOREM TypeCorrect == Spec => []TypeOK
<1>1. LoopInv => TypeOK
  BY DEF LoopInv
<1> QED
  BY <1>1, LoopInvariant, PTL

\* The invariant keeps the unchecked additions of the second loop in range,
\* because the first loop has looked at every descriptor.
LEMMA WalkInv == LoopInv => WalkCannotOverflow
BY DEF LoopInv, WalkCannotOverflow, Scanned, DescriptorOK

\* An accepted range is covered without a gap by descriptors of the expected
\* type, and by no descriptor of another type.
AcceptedIsCovered ==
    result = "ok" =>
        \A a \in OwnedRange :
            /\ Holders(a) # {}
            /\ \A i \in Holders(a) : map[i].ty = expected

\* The loops' invariant gives it.
LEMMA AcceptedInv ==
    ASSUME LoopInv
    PROVE  AcceptedIsCovered
<1> SUFFICES ASSUME result = "ok", NEW a \in OwnedRange
             PROVE  /\ Holders(a) # {}
                    /\ \A i \in Holders(a) : map[i].ty = expected
  BY DEF AcceptedIsCovered
<1>1. index = Len(map) /\ Scanned /\ cursor = Last /\ CoveredSoFar
  BY DEF LoopInv
<1>2. Holders(a) # {}
  BY <1>1 DEF CoveredSoFar, OwnedRange
<1>3. ASSUME NEW i \in Holders(a) PROVE map[i].ty = expected
  <2>1. i \in 1..Len(map) /\ Contains(map[i], a)
    BY DEF Holders
  <2>2. map[i] \in Descriptor /\ base \in Nat /\ bytes \in Nat
    BY <2>1, MapCoverageAssumption DEF LoopInv, TypeOK
  <2>3. LimitOf(map[i]) \in Nat /\ map[i].start \in Nat
    BY <2>2, LimitIsNat
  <2>4. Overlaps(map[i])
    BY <2>1, <2>2, <2>3 DEF Overlaps, Lo, Hi, Last, Contains, OwnedRange
  <2> QED
    BY <1>1, <2>1, <2>4 DEF Scanned, DescriptorOK
<1> QED
  BY <1>2, <1>3

\* The unchecked additions of the second loop cannot overflow (validate_map,
\* coverage).
THEOREM WalkSafe == Spec => []WalkCannotOverflow
BY WalkInv, LoopInvariant, PTL

-----------------------------------------------------------------------------
(* How often an address is covered: the sum of the overlaps counts pairs   *)
(* of a descriptor and an address it holds.                                *)

\* The addresses of the range that the first k descriptors hold, one pair for
\* each holder; the descriptors that overlap the range; and those of them that
\* the walk has left behind.
Pairs(k) == {p \in (1..k) \X OwnedRange : Contains(map[p[1]], p[2])}
Meeting(k) == {i \in 1..k : Overlaps(map[i])}
Passed(c) == {i \in Meeting(Len(map)) : Hi(map[i]) <= c}

\* What the counters count.
Counts ==
    /\ total = Cardinality(Pairs(index))
    /\ intersecting = Cardinality(Meeting(index))
    /\ pc \in {"meta", "scan"} => steps = 0
    /\ pc = "walk" \/ result = "ok" => total = bytes
    /\ pc = "walk" => steps <= Cardinality(Passed(cursor))

\* Every address of the range is held once, and by descriptors in order.
OnceHeld == \A a \in OwnedRange : \E i \in 1..Len(map) : Holders(a) = {i}
ExactMap == MetaOK /\ (\A i \in 1..Len(map) : DescriptorOK(map[i])) /\ OnceHeld

\* A refusal of a map that holds the range once is due to validate_map's bound.
RefusedIsDue ==
    result = "COMPROMISED_DATA" => ~(ExactMap /\ (Arm => intersecting < StepLimit))

CountInv == LoopInv /\ Counts /\ RefusedIsDue

\* The sets that are counted are finite.
LEMMA CountedAreFinite ==
    ASSUME TypeOK, NEW k \in Nat
    PROVE  /\ IsFiniteSet(Pairs(k)) /\ Cardinality(Pairs(k)) \in Nat
           /\ IsFiniteSet(Meeting(k)) /\ Cardinality(Meeting(k)) \in Nat
           /\ IsFiniteSet(OwnedRange) /\ Cardinality(OwnedRange) = bytes
<1>1. base \in Int /\ bytes \in Nat /\ 1 <= bytes /\ Last \in Int /\ Last = base + bytes
  BY MapCoverageAssumption DEF TypeOK, Last
<1>2. IsFiniteSet(OwnedRange) /\ Cardinality(OwnedRange) = bytes
  <2>1. Last - 1 \in Int /\ ~(base > Last - 1) /\ Last - 1 - base + 1 = bytes
    BY <1>1
  <2> QED
    BY <1>1, <2>1, FS_Interval DEF OwnedRange
<1>3. IsFiniteSet(1..k)
  BY FS_Interval
<1>4. IsFiniteSet((1..k) \X OwnedRange)
  BY <1>2, <1>3, FS_Product
<1>5. Pairs(k) \in SUBSET ((1..k) \X OwnedRange) /\ Meeting(k) \in SUBSET (1..k)
  BY DEF Pairs, Meeting
<1>6. IsFiniteSet(Pairs(k)) /\ IsFiniteSet(Meeting(k))
  BY <1>3, <1>4, <1>5, FS_Subset
<1> QED
  BY <1>2, <1>6, FS_CardinalityType

\* The addresses of the range that a descriptor holds.
LEMMA HeldAddresses ==
    ASSUME TypeOK, NEW d \in Descriptor, NEW a \in Int
    PROVE  a \in OwnedRange /\ Contains(d, a) <=> a \in Lo(d)..(Hi(d) - 1)
<1>1. base \in Int /\ Last \in Int
  BY MapCoverageAssumption DEF TypeOK, Last
<1>2. LimitOf(d) \in Int /\ d.start \in Int
  BY LimitIsNat
<1> QED
  BY <1>1, <1>2 DEF OwnedRange, Contains, Lo, Hi

\* One more descriptor adds its overlap.
LEMMA PairsGrow ==
    ASSUME TypeOK, NEW k \in Nat, k < Len(map)
    PROVE  Cardinality(Pairs(k + 1)) = Cardinality(Pairs(k)) + Overlap(map[k + 1])
<1> DEFINE d == map[k + 1]
           Held == Lo(d)..(Hi(d) - 1)
           New == {<<k + 1, a>> : a \in Held}
<1>1. d \in Descriptor
  BY DEF TypeOK
<1>2. Lo(d) \in Int /\ Hi(d) \in Int
  BY <1>1, Bounds
<1>3. IsFiniteSet(Held) /\ Cardinality(Held) = Overlap(d)
  <2>1. Hi(d) - 1 \in Int
    BY <1>2
  <2>2. IsFiniteSet(Held) /\ Cardinality(Held) = IF Lo(d) > Hi(d) - 1 THEN 0 ELSE Hi(d) - 1 - Lo(d) + 1
    BY <1>2, <2>1, FS_Interval
  <2>3. (IF Lo(d) > Hi(d) - 1 THEN 0 ELSE Hi(d) - 1 - Lo(d) + 1) = Overlap(d)
    BY <1>2 DEF Overlap, Overlaps
  <2> QED
    BY <2>2, <2>3
<1>4. IsFiniteSet(New) /\ Cardinality(New) = Cardinality(Held)
  <2> DEFINE f == [a \in Held |-> <<k + 1, a>>]
  <2>1. f \in Bijection(Held, New)
    BY DEF Bijection, Injection, Surjection, IsInjective
  <2>2. ExistsBijection(Held, New)
    BY <2>1 DEF ExistsBijection
  <2> QED
    BY <1>3, <2>2, FS_Bijection
<1>5. Pairs(k + 1) = Pairs(k) \cup New
  <2>1. ASSUME NEW p \in Pairs(k + 1) PROVE p \in Pairs(k) \cup New
    <3>1. p \in (1..(k + 1)) \X OwnedRange /\ Contains(map[p[1]], p[2])
      BY DEF Pairs
    <3>2. CASE p[1] = k + 1
      <4>1. p[2] \in Int /\ p = <<k + 1, p[2]>>
        BY <3>1, <3>2 DEF OwnedRange
      <4>2. p[2] \in Held
        BY <1>1, <3>1, <3>2, <4>1, HeldAddresses
      <4> QED
        BY <4>1, <4>2
    <3>3. CASE p[1] # k + 1
      BY <3>1, <3>3 DEF Pairs
    <3> QED
      BY <3>2, <3>3
  <2>2. ASSUME NEW p \in Pairs(k) PROVE p \in Pairs(k + 1)
    BY DEF Pairs
  <2>3. ASSUME NEW a \in Held PROVE <<k + 1, a>> \in Pairs(k + 1)
    <3>1. a \in OwnedRange /\ Contains(d, a)
      BY <1>1, <1>2, HeldAddresses
    <3> QED
      BY <3>1 DEF Pairs
  <2> QED
    BY <2>1, <2>2, <2>3
<1>6. Pairs(k) \cap New = {}
  BY DEF Pairs
<1> HIDE DEF New, Held
<1>7. Cardinality(Pairs(k) \cap New) = 0
  BY <1>6, FS_EmptySet
<1>8. IsFiniteSet(Pairs(k)) /\ Cardinality(Pairs(k)) \in Nat /\ Overlap(d) \in Nat
  BY <1>1, CountedAreFinite, Bounds
<1>9. Cardinality(Pairs(k) \cup New) = Cardinality(Pairs(k)) + Cardinality(New) - 0
  BY <1>4, <1>7, <1>8, FS_Union
<1>10. Cardinality(Pairs(k)) + Overlap(d) - 0 = Cardinality(Pairs(k)) + Overlap(d)
  BY <1>8
<1> QED
  BY <1>3, <1>4, <1>5, <1>9, <1>10

\* It is one more that overlaps, or none.
LEMMA MeetingGrows ==
    ASSUME TypeOK, NEW k \in Nat, k < Len(map)
    PROVE  Cardinality(Meeting(k + 1)) =
              IF Overlaps(map[k + 1]) THEN Cardinality(Meeting(k)) + 1 ELSE Cardinality(Meeting(k))
<1>1. CASE Overlaps(map[k + 1])
  <2>1. Meeting(k + 1) = Meeting(k) \cup {k + 1} /\ k + 1 \notin Meeting(k)
    BY <1>1 DEF Meeting
  <2> QED
    BY <1>1, <2>1, CountedAreFinite, FS_AddElement
<1>2. CASE ~Overlaps(map[k + 1])
  <2>1. Meeting(k + 1) = Meeting(k)
    BY <1>2 DEF Meeting
  <2> QED
    BY <1>2, <2>1
<1> QED
  BY <1>1, <1>2

\* The range has as many addresses as there are pairs exactly when no address
\* is held twice, provided that each is held.
LEMMA OncePerAddress ==
    ASSUME TypeOK, \A a \in OwnedRange : Holders(a) # {}
    PROVE  Cardinality(Pairs(Len(map))) = bytes
              <=> \A a \in OwnedRange : \E i \in 1..Len(map) : Holders(a) = {i}
<1> DEFINE P == Pairs(Len(map))
           f == [p \in P |-> p[2]]
<1>1. Len(map) \in Nat
  BY DEF TypeOK
<1>2. /\ IsFiniteSet(P) /\ Cardinality(P) \in Nat /\ Cardinality(OwnedRange) = bytes
      /\ IsFiniteSet(OwnedRange)
  BY <1>1, CountedAreFinite
<1>3. \A a \in OwnedRange : \A i : i \in Holders(a) <=> <<i, a>> \in P
  BY DEF Pairs, Holders
<1>4. \A p \in P : p[2] \in OwnedRange /\ p = <<p[1], p[2]>> /\ p[1] \in 1..Len(map)
  BY DEF Pairs
<1>5. f \in Surjection(P, OwnedRange)
  <2>1. f \in [P -> OwnedRange]
    BY <1>4
  <2>2. ASSUME NEW a \in OwnedRange PROVE \E p \in P : f[p] = a
    <3>1. PICK i : i \in Holders(a)
      OBVIOUS
    <3>2. <<i, a>> \in P /\ f[<<i, a>>] = a
      BY <1>3, <3>1
    <3> QED
      BY <3>2
  <2> QED
    BY <2>1, <2>2 DEF Surjection
<1>6. Cardinality(P) = bytes <=> f \in Injection(P, OwnedRange)
  BY <1>2, <1>5, FS_Surjection
<1>7. f \in Injection(P, OwnedRange)
        <=> \A a \in OwnedRange : \E i \in 1..Len(map) : Holders(a) = {i}
  <2>1. ASSUME f \in Injection(P, OwnedRange), NEW a \in OwnedRange
        PROVE  \E i \in 1..Len(map) : Holders(a) = {i}
    <3>1. PICK i : i \in Holders(a)
      OBVIOUS
    <3>2. ASSUME NEW j \in Holders(a) PROVE j = i
      <4>1. <<i, a>> \in P /\ <<j, a>> \in P
        BY <1>3, <3>1
      <4>2. f[<<i, a>>] = f[<<j, a>>]
        BY <4>1
      <4>3. <<i, a>> = <<j, a>>
        BY <2>1, <4>1, <4>2 DEF Injection, IsInjective
      <4> QED
        BY <4>3
    <3>3. Holders(a) = {i} /\ i \in 1..Len(map)
      BY <3>1, <3>2 DEF Holders
    <3> QED
      BY <3>3
  <2>2. ASSUME \A a \in OwnedRange : \E i \in 1..Len(map) : Holders(a) = {i}
        PROVE  f \in Injection(P, OwnedRange)
    <3>1. ASSUME NEW p \in P, NEW q \in P, f[p] = f[q] PROVE p = q
      <4>1. p[2] = q[2] /\ p[2] \in OwnedRange
        BY <1>4, <3>1
      <4>2. p[1] \in Holders(p[2]) /\ q[1] \in Holders(p[2])
        BY <1>3, <1>4, <4>1
      <4>3. p[1] = q[1]
        BY <2>2, <4>1, <4>2
      <4> QED
        BY <1>4, <4>1, <4>3
    <3>2. f \in [P -> OwnedRange]
      BY <1>4
    <3> QED
      BY <3>1, <3>2 DEF Injection, IsInjective
  <2> QED
    BY <2>1, <2>2
<1> QED
  BY <1>6, <1>7

\* On such a map the first loop adds up to the size of the range.
LEMMA ExactTotal ==
    ASSUME TypeOK, ExactMap, NEW k \in 0..Len(map)
    PROVE  /\ Cardinality(Pairs(Len(map))) = bytes
           /\ Cardinality(Pairs(k)) <= bytes /\ bytes < Limit
<1>1. Len(map) \in Nat /\ k \in Nat /\ k <= Len(map)
  BY DEF TypeOK
<1>2. Cardinality(Pairs(Len(map))) = bytes
  <2>1. \A a \in OwnedRange : Holders(a) # {}
    BY DEF ExactMap, OnceHeld
  <2> QED
    BY <2>1, OncePerAddress DEF ExactMap, OnceHeld
<1>3. Pairs(k) \in SUBSET Pairs(Len(map))
  <2>1. \A i \in 1..k : i \in 1..Len(map)
    BY <1>1
  <2> QED
    BY <2>1 DEF Pairs
<1>4. Cardinality(Pairs(k)) <= Cardinality(Pairs(Len(map)))
  BY <1>1, <1>3, CountedAreFinite, FS_Subset
<1>5. bytes < Limit
  BY MapCoverageAssumption DEF TypeOK
<1> QED
  BY <1>2, <1>4, <1>5

\* A descriptor that holds an address of the range overlaps it and reaches
\* beyond it.
LEMMA HolderReaches ==
    ASSUME TypeOK, NEW a \in OwnedRange, NEW i \in Holders(a)
    PROVE  /\ i \in 1..Len(map) /\ map[i] \in Descriptor
           /\ Overlaps(map[i]) /\ a < Hi(map[i]) /\ Hi(map[i]) \in Nat
<1>1. i \in 1..Len(map) /\ Contains(map[i], a) /\ a \in Int
  BY DEF Holders, OwnedRange
<1>2. map[i] \in Descriptor
  BY <1>1 DEF TypeOK
<1>3. a \in Lo(map[i])..(Hi(map[i]) - 1)
  BY <1>1, <1>2, HeldAddresses
<1>4. Lo(map[i]) \in Nat /\ Hi(map[i]) \in Nat
  BY <1>2, Bounds
<1> QED
  BY <1>1, <1>2, <1>3, <1>4 DEF Overlaps

\* The descriptors left behind are some of those that overlap.
LEMMA PassedAreMeeting ==
    ASSUME TypeOK, NEW c
    PROVE  /\ Passed(c) \in SUBSET Meeting(Len(map)) /\ IsFiniteSet(Passed(c))
           /\ Cardinality(Passed(c)) \in Nat
           /\ Cardinality(Passed(c)) <= Cardinality(Meeting(Len(map)))
           /\ Cardinality(Meeting(Len(map))) \in Nat
           /\ Cardinality(Meeting(Len(map))) = Cardinality(Passed(c)) => Passed(c) = Meeting(Len(map))
<1>1. Len(map) \in Nat
  BY DEF TypeOK
<1>2. Passed(c) \in SUBSET Meeting(Len(map))
  BY DEF Passed
<1>3. IsFiniteSet(Meeting(Len(map))) /\ Cardinality(Meeting(Len(map))) \in Nat
  BY <1>1, CountedAreFinite
<1>4. /\ IsFiniteSet(Passed(c))
      /\ Cardinality(Passed(c)) <= Cardinality(Meeting(Len(map)))
      /\ Cardinality(Meeting(Len(map))) = Cardinality(Passed(c)) => Passed(c) = Meeting(Len(map))
  BY <1>2, <1>3, FS_Subset
<1> QED
  BY <1>2, <1>3, <1>4, FS_CardinalityType

\* An iteration of the walk leaves one more behind, and only one where no
\* address is held twice.
LEMMA WalkPasses ==
    ASSUME LoopInv, pc = "walk", NEW n \in Reached, cursor < n
    PROVE  /\ Cardinality(Passed(cursor)) + 1 <= Cardinality(Passed(n))
           /\ OnceHeld => Cardinality(Passed(n)) = Cardinality(Passed(cursor)) + 1
<1>0. TypeOK /\ cursor \in Nat
  BY MapCoverageAssumption DEF LoopInv, TypeOK
<1>1. PICK i \in 1..Len(map) : Contains(map[i], cursor) /\ n = Hi(map[i])
  BY <1>0 DEF Reached
<1>2. cursor < Last /\ base <= cursor /\ n \in Nat
  <2>1. n \in Nat /\ n <= Last /\ Last \in Nat
    BY WalkCovers, MapCoverageAssumption DEF LoopInv, TypeOK, Last
  <2> QED
    BY <1>0, <2>1 DEF LoopInv, CoveredSoFar
<1>3. cursor \in OwnedRange
  <2>1. base \in Int /\ Last \in Int
    BY <1>0, MapCoverageAssumption DEF TypeOK, Last
  <2> QED
    BY <1>0, <1>2, <2>1 DEF OwnedRange
<1>4. Overlaps(map[i])
  BY <1>0, <1>1, <1>3, HolderReaches DEF Holders
<1>5. i \in Passed(n) /\ i \notin Passed(cursor)
  BY <1>0, <1>1, <1>2, <1>4 DEF Passed, Meeting
<1>6. Passed(cursor) \subseteq Passed(n)
  <2>1. ASSUME NEW j \in Passed(cursor) PROVE j \in Passed(n)
    <3>1. j \in Meeting(Len(map)) /\ Hi(map[j]) <= cursor
      BY DEF Passed
    <3>2. map[j] \in Descriptor
      BY <1>0, <3>1 DEF Meeting, TypeOK
    <3>3. Hi(map[j]) \in Nat
      BY <1>0, <3>2, Bounds
    <3>4. Hi(map[j]) <= n
      BY <1>0, <1>2, <3>1, <3>3
    <3> QED
      BY <3>1, <3>4 DEF Passed
  <2> QED
    BY <2>1
<1>7. /\ IsFiniteSet(Passed(cursor)) /\ Cardinality(Passed(cursor)) \in Nat
      /\ IsFiniteSet(Passed(n)) /\ Cardinality(Passed(n)) \in Nat
  BY <1>0, PassedAreMeeting
<1>8. Cardinality(Passed(cursor) \cup {i}) = Cardinality(Passed(cursor)) + 1
  BY <1>5, <1>7, FS_AddElement
<1>9. Cardinality(Passed(cursor) \cup {i}) <= Cardinality(Passed(n))
  <2>1. Passed(cursor) \cup {i} \in SUBSET Passed(n)
    BY <1>5, <1>6
  <2> QED
    BY <1>7, <2>1, FS_Subset
<1>10. ASSUME OnceHeld, NEW j \in Passed(n), j \notin Passed(cursor) PROVE j = i
  <2>1. /\ j \in 1..Len(map) /\ Overlaps(map[j]) /\ Hi(map[j]) <= n /\ ~(Hi(map[j]) <= cursor)
    BY <1>10 DEF Passed, Meeting
  <2>2. map[i] \in Descriptor /\ map[j] \in Descriptor
    BY <1>0, <1>1, <2>1 DEF TypeOK
  <2>3. /\ Hi(map[j]) \in Nat /\ Lo(map[j]) \in Nat
        /\ n <= LimitOf(map[i]) /\ LimitOf(map[i]) \in Nat /\ map[i].start \in Nat
    BY <1>0, <1>1, <2>2, Bounds, LimitIsNat
  <2>4. PICK a \in Int : a = Hi(map[j]) - 1
    BY <2>3
  <2>5. a \in Lo(map[j])..(Hi(map[j]) - 1) /\ cursor <= a /\ a < n
    BY <1>0, <1>2, <2>1, <2>3, <2>4 DEF Overlaps
  <2>6. a \in OwnedRange /\ Contains(map[j], a)
    BY <1>0, <2>2, <2>5, HeldAddresses
  <2>7. map[i].start <= cursor
    BY <1>1 DEF Contains
  <2>8. Contains(map[i], a)
    BY <1>0, <1>2, <2>3, <2>5, <2>7 DEF Contains
  <2>9. i \in Holders(a) /\ j \in Holders(a)
    BY <1>1, <2>1, <2>6, <2>8 DEF Holders
  <2> QED
    BY <1>10, <2>6, <2>9 DEF OnceHeld
<1>11. ASSUME OnceHeld PROVE Passed(n) = Passed(cursor) \cup {i}
  BY <1>5, <1>6, <1>10, <1>11
<1> QED
  BY <1>8, <1>9, <1>11

\* What is counted depends on the input only.
LEMMA CountedStay ==
    ASSUME UNCHANGED input
    PROVE  /\ \A k : Pairs(k)' = Pairs(k) /\ Meeting(k)' = Meeting(k)
           /\ \A c : Passed(c)' = Passed(c)
           /\ ExactMap' <=> ExactMap
           /\ OnceHeld' <=> OnceHeld
           /\ Arm' <=> Arm
<1>1. /\ base' = base /\ map' = map /\ bytes' = bytes /\ code' = code /\ meta' = meta
      /\ expected' = expected
  BY DEF input
<1>2. Last' = Last /\ OwnedRange' = OwnedRange /\ (Arm' <=> Arm)
  BY <1>1 DEF Last, OwnedRange, Arm
<1>3. /\ \A d : Overlaps(d)' <=> Overlaps(d)
      /\ \A d : Hi(d)' = Hi(d)
      /\ \A d : DescriptorOK(d)' <=> DescriptorOK(d)
  BY <1>1, <1>2 DEF Overlaps, Hi, Lo, LimitOf, DescriptorOK
<1>4. \A k : Pairs(k)' = Pairs(k) /\ Meeting(k)' = Meeting(k)
  BY <1>1, <1>2 DEF Pairs, Meeting, Contains, LimitOf, Overlaps, Hi, Lo
<1>5. \A c : Passed(c)' = Passed(c)
  BY <1>1, <1>2 DEF Passed, Meeting, Overlaps, Hi, Lo, LimitOf
<1>6. OnceHeld' <=> OnceHeld
  BY <1>1, <1>2 DEF OnceHeld, LimitOf, Holders, Contains
<1>7. ExactMap' <=> ExactMap
  BY <1>1, <1>2, <1>6 DEF ExactMap, MetaOK, DescriptorOK, Overlaps, Hi, Lo, LimitOf
<1> QED
  BY <1>2, <1>4, <1>5, <1>6, <1>7

\* A check on an exact map is refused only by validate_map, and only where
\* the range lies in StepLimit descriptors or more.
LEMMA RejectIsDue ==
    ASSUME LoopInv, Counts, Next, Reject, pc # "done"
    PROVE  ~(ExactMap /\ (Arm => intersecting < StepLimit))
<1> SUFFICES ASSUME ExactMap, Arm => intersecting < StepLimit
             PROVE  FALSE
  OBVIOUS
<1>t. TypeOK /\ MetaOK /\ Len(map) \in Nat /\ result' # "ok"
  BY DEF LoopInv, ExactMap, TypeOK, Reject, Return
<1>1. CASE CheckMeta
  BY <1>1, <1>t DEF CheckMeta, Reject, Return
<1>2. CASE Scan
  <2>1. index \in Nat /\ index < Len(map) /\ index + 1 \in 0..Len(map) /\ index + 1 \in 1..Len(map)
    BY <1>2, <1>t DEF Scan, TypeOK
  <2>2. DescriptorOK(map[index + 1])
    BY <2>1 DEF ExactMap
  <2>3. index' = index
    BY DEF Reject
  <2>4. ~(DescriptorOK(map[index + 1]) /\ total + Overlap(map[index + 1]) < Limit)
    BY <1>2, <2>1, <2>3 DEF Scan
  <2>5. total + Overlap(map[index + 1]) = Cardinality(Pairs(index + 1))
    BY <1>t, <2>1, PairsGrow DEF Counts
  <2>6. Cardinality(Pairs(index + 1)) <= bytes /\ bytes < Limit /\ bytes \in Nat /\ Limit \in Nat
    BY <1>t, <2>1, ExactTotal, MapCoverageAssumption DEF TypeOK
  <2>7. Cardinality(Pairs(index + 1)) \in Nat
    BY <1>t, <2>1, CountedAreFinite
  <2> QED
    BY <2>2, <2>4, <2>5, <2>6, <2>7
<1>3. CASE ScanDone
  <2>1. index = Len(map) /\ total # bytes
    BY <1>3 DEF ScanDone, Reject, Return, LoopInv
  <2>2. Len(map) \in 0..Len(map)
    BY <1>t
  <2> QED
    BY <1>t, <2>1, <2>2, ExactTotal DEF Counts
<1>h. ASSUME pc = "walk", cursor # Last
      PROVE  \E i \in 1..Len(map) :
                Contains(map[i], cursor) /\ Overlaps(map[i]) /\ cursor < Hi(map[i])
  <2>1. cursor \in OwnedRange
    <3>1. base <= cursor /\ cursor <= Last
      BY <1>h DEF LoopInv, CoveredSoFar
    <3>2. base \in Int /\ Last \in Int /\ cursor \in Int
      BY <1>t, MapCoverageAssumption DEF TypeOK, Last
    <3> QED
      BY <1>h, <3>1, <3>2 DEF OwnedRange
  <2>2. PICK i : i \in Holders(cursor)
    BY <2>1 DEF ExactMap, OnceHeld
  <2> QED
    BY <1>t, <2>1, <2>2, HolderReaches DEF Holders
<1>4. CASE Walk
  <2>1. pc = "walk" /\ cursor # Last
    BY <1>4, <1>t DEF Walk, Return, Reject
  <2>2. PICK n \in Reached : (\A m \in Reached : m <= n) /\ n = cursor
    <3>1. cursor' = cursor
      BY DEF Reject
    <3> QED
      BY <1>4, <2>1, <3>1 DEF Walk
  <2>3. PICK i \in 1..Len(map) : Contains(map[i], cursor) /\ cursor < Hi(map[i])
    BY <1>h, <2>1
  <2>4. Hi(map[i]) \in Reached
    BY <2>3 DEF Reached
  <2>5. map[i] \in Descriptor /\ cursor \in Int
    BY <1>t, MapCoverageAssumption DEF TypeOK
  <2>6. Hi(map[i]) \in Nat
    BY <1>t, <2>5, Bounds
  <2> QED
    BY <2>2, <2>3, <2>4, <2>5, <2>6
<1>5. CASE WalkEnd
  <2>1. pc = "walk" /\ steps = WalkBound /\ (Arm \/ cursor # Last)
    BY <1>5, <1>t DEF WalkEnd, Return
  <2>2. /\ steps <= Cardinality(Passed(cursor)) /\ intersecting = Cardinality(Meeting(Len(map)))
        /\ steps \in Nat
    BY <1>t, <2>1 DEF Counts, LoopInv, TypeOK
  <2>3. /\ Cardinality(Passed(cursor)) <= intersecting /\ Cardinality(Passed(cursor)) \in Nat
        /\ intersecting \in Nat
        /\ intersecting = Cardinality(Passed(cursor)) => Passed(cursor) = Meeting(Len(map))
    BY <1>t, <2>2, PassedAreMeeting
  <2>4. CASE Arm
    <3>1. steps = StepLimit /\ intersecting < StepLimit /\ StepLimit \in Nat
      BY <2>1, <2>4, MapCoverageAssumption DEF WalkBound
    <3> QED
      BY <2>2, <2>3, <3>1
  <2>5. CASE ~Arm
    <3>1. steps = intersecting /\ cursor # Last
      BY <2>1, <2>5 DEF WalkBound
    <3>2. Passed(cursor) = Meeting(Len(map))
      BY <2>2, <2>3, <3>1
    <3>3. PICK i \in 1..Len(map) : Overlaps(map[i]) /\ cursor < Hi(map[i])
      BY <1>h, <2>1, <3>1
    <3>4. i \in Passed(cursor)
      BY <3>2, <3>3 DEF Meeting
    <3>5. Hi(map[i]) <= cursor
      BY <3>4 DEF Passed
    <3>6. map[i] \in Descriptor /\ cursor \in Int
      BY <1>t, MapCoverageAssumption DEF TypeOK
    <3>7. Hi(map[i]) \in Nat
      BY <1>t, <3>6, Bounds
    <3> QED
      BY <3>3, <3>5, <3>6, <3>7
  <2> QED
    BY <2>4, <2>5
<1>6. CASE Done
  BY <1>6 DEF Done
<1> QED
  BY <1>1, <1>2, <1>3, <1>4, <1>5, <1>6 DEF Next

\* Every step keeps the counts, and refuses an exact map only where it may.
LEMMA CountStep == CountInv /\ [Next]_vars => CountInv'
<1> SUFFICES ASSUME CountInv, [Next]_vars
             PROVE  CountInv'
  OBVIOUS
<1>l. LoopInv /\ LoopInv' /\ TypeOK /\ Counts /\ RefusedIsDue
  BY LoopStep DEF CountInv, LoopInv
<1>e. RefusedIsDue <=>
        (result = "COMPROMISED_DATA" => ~(ExactMap /\ (Arm => intersecting < StepLimit)))
  BY DEF RefusedIsDue
<1>p. RefusedIsDue' <=>
        (result' = "COMPROMISED_DATA" => ~(ExactMap' /\ (Arm' => intersecting' < StepLimit)))
  BY DEF RefusedIsDue
<1>s. ASSUME UNCHANGED input, UNCHANGED <<index, total, intersecting>>
      PROVE  total' = Cardinality(Pairs(index)') /\ intersecting' = Cardinality(Meeting(index)')
  <2>1. PICK k : k = index
    OBVIOUS
  <2>2. Pairs(k)' = Pairs(k) /\ Meeting(k)' = Meeting(k)
    BY <1>s, CountedStay
  <2>3. Pairs(index)' = Pairs(index) /\ Meeting(index)' = Meeting(index)
    BY <1>s, <2>1, <2>2 DEF Pairs, Meeting
  <2> QED
    BY <1>l, <1>s, <2>3 DEF Counts
<1>r. ASSUME Reject, Next, pc # "done" PROVE CountInv'
  <2>1. /\ UNCHANGED input /\ UNCHANGED <<index, total, intersecting>>
        /\ pc' = "done" /\ result' = "COMPROMISED_DATA"
    BY <1>r DEF Reject, Return
  <2>2. Counts'
    BY <1>s, <2>1 DEF Counts
  <2>3. RefusedIsDue'
    <3>1. ~(ExactMap /\ (Arm => intersecting < StepLimit))
      BY <1>l, <1>r, RejectIsDue
    <3> QED
      BY <1>p, <2>1, <3>1, CountedStay
  <2> QED
    BY <1>l, <2>2, <2>3 DEF CountInv
<1>1. CASE CheckMeta
  <2>1. CASE Reject
    BY <1>1, <1>r, <2>1 DEF CheckMeta, Next
  <2>2. CASE /\ pc' = "scan"
             /\ UNCHANGED <<input, index, total, intersecting, cursor, steps, result>>
    <3>1. result' = "none" /\ steps' = 0
      BY <1>1, <1>l, <2>2 DEF CheckMeta, LoopInv, Counts
    <3>2. Counts'
      BY <1>s, <2>2, <3>1 DEF Counts
    <3> QED
      BY <1>l, <1>p, <3>1, <3>2 DEF CountInv
  <2> QED
    BY <1>1, <2>1, <2>2 DEF CheckMeta
<1>2. CASE Scan
  <2>1. CASE Reject
    BY <1>2, <1>r, <2>1 DEF Scan, Next
  <2>2. CASE /\ index' = index + 1
             /\ total' = total + Overlap(map[index + 1])
             /\ intersecting' = IF Overlaps(map[index + 1]) THEN intersecting + 1 ELSE intersecting
             /\ UNCHANGED <<pc, input, cursor, steps, result>>
    <3>1. index \in Nat /\ index < Len(map) /\ pc = "scan" /\ result = "none" /\ steps = 0
      BY <1>2, <1>l DEF Scan, TypeOK, LoopInv, Counts
    <3>2. PICK k \in Nat : k = index
      BY <3>1
    <3>3. total' = Cardinality(Pairs(k + 1)) /\ intersecting' = Cardinality(Meeting(k + 1))
      BY <1>l, <2>2, <3>1, <3>2, PairsGrow, MeetingGrows DEF Counts
    <3>4. Pairs(k + 1)' = Pairs(k + 1) /\ Meeting(k + 1)' = Meeting(k + 1)
      BY <2>2, CountedStay
    <3>5. Pairs(index)' = Pairs(k + 1)' /\ Meeting(index)' = Meeting(k + 1)'
      BY <2>2, <3>2 DEF Pairs, Meeting
    <3>6. Counts'
      BY <2>2, <3>1, <3>3, <3>4, <3>5 DEF Counts
    <3> QED
      BY <1>l, <1>p, <2>2, <3>1, <3>6 DEF CountInv
  <2> QED
    BY <1>2, <2>1, <2>2 DEF Scan
<1>3. CASE ScanDone
  <2>1. CASE Reject
    BY <1>3, <1>r, <2>1 DEF ScanDone, Next
  <2>2. CASE /\ total = bytes /\ pc' = "walk" /\ cursor' = base
             /\ UNCHANGED <<input, index, total, intersecting, steps, result>>
    <3>1. result' = "none" /\ steps' = 0 /\ bytes' = bytes
      BY <1>3, <1>l, <2>2 DEF ScanDone, LoopInv, Counts, input
    <3>2. 0 <= Cardinality(Passed(cursor)')
      <4>1. Cardinality(Passed(base)) \in Nat
        BY <1>l, PassedAreMeeting
      <4>2. PICK b : b = base
        OBVIOUS
      <4>3. Passed(b)' = Passed(b)
        BY <2>2, CountedStay
      <4>4. Passed(cursor)' = Passed(b)'
        BY <2>2, <4>2 DEF Passed
      <4> QED
        BY <4>1, <4>2, <4>3, <4>4
    <3>3. Counts'
      BY <1>s, <2>2, <3>1, <3>2 DEF Counts
    <3> QED
      BY <1>l, <1>p, <3>1, <3>3 DEF CountInv
  <2> QED
    BY <1>3, <2>1, <2>2 DEF ScanDone
<1>a. ASSUME pc = "walk", Return("ok"), UNCHANGED <<input, index, total, intersecting, cursor, steps>>
      PROVE  CountInv'
  <2>1. Counts'
    BY <1>a, <1>l, <1>s DEF Counts, Return, input
  <2> QED
    BY <1>a, <1>l, <1>p, <2>1 DEF CountInv, Return
<1>4. CASE Walk
  <2>1. CASE Reject
    BY <1>4, <1>r, <2>1 DEF Walk, Next
  <2>2. CASE Return("ok") /\ UNCHANGED <<input, index, total, intersecting, cursor, steps>>
    BY <1>4, <1>a, <2>2 DEF Walk
  <2>3. CASE \E n \in Reached :
               /\ \A m \in Reached : m <= n
               /\ n # cursor /\ cursor' = n /\ steps' = steps + 1
               /\ UNCHANGED <<pc, input, index, total, intersecting, result>>
    <3>1. PICK n \in Reached :
               /\ \A m \in Reached : m <= n
               /\ n # cursor /\ cursor' = n /\ steps' = steps + 1
               /\ UNCHANGED <<pc, input, index, total, intersecting, result>>
      BY <2>3
    <3>2. pc = "walk" /\ result' = "none" /\ total' = bytes' /\ steps \in Nat /\ cursor \in Nat
      BY <1>4, <1>l, <3>1, MapCoverageAssumption DEF Walk, LoopInv, Counts, input, TypeOK
    <3>3. n \in Nat /\ cursor <= n
      BY <1>l, <3>1, <3>2, WalkCovers DEF Reached
    <3>4. Cardinality(Passed(cursor)) + 1 <= Cardinality(Passed(n))
      BY <1>l, <3>1, <3>2, <3>3, WalkPasses
    <3>5. Cardinality(Passed(cursor)) \in Nat /\ Cardinality(Passed(n)) \in Nat
      BY <1>l, PassedAreMeeting
    <3>6. steps + 1 <= Cardinality(Passed(n))
      BY <1>l, <3>2, <3>4, <3>5 DEF Counts
    <3>7. Passed(n)' = Passed(n)
      BY <3>1, CountedStay
    <3>8. Passed(cursor)' = Passed(n)'
      BY <3>1 DEF Passed
    <3>9. Counts'
      BY <1>s, <3>1, <3>2, <3>6, <3>7, <3>8 DEF Counts
    <3> QED
      BY <1>l, <1>p, <3>2, <3>9 DEF CountInv
  <2> QED
    BY <1>4, <2>1, <2>2, <2>3 DEF Walk
<1>5. CASE WalkEnd
  <2>1. CASE Reject
    BY <1>5, <1>r, <2>1 DEF WalkEnd, Next
  <2>2. CASE Return("ok") /\ UNCHANGED <<input, index, total, intersecting, cursor, steps>>
    BY <1>5, <1>a, <2>2 DEF WalkEnd
  <2> QED
    BY <1>5, <2>1, <2>2 DEF WalkEnd
<1>6. CASE UNCHANGED vars
  <2>1. /\ UNCHANGED input
        /\ UNCHANGED <<pc, index, total, intersecting, cursor, steps, result, bytes>>
    BY <1>6 DEF vars, input
  <2>2. PICK c : c = cursor
    OBVIOUS
  <2>3. Passed(c)' = Passed(c)
    BY <2>1, CountedStay
  <2>4. Passed(cursor)' = Passed(cursor)
    BY <2>1, <2>2, <2>3 DEF Passed
  <2>5. Counts'
    BY <1>l, <1>s, <2>1, <2>4 DEF Counts
  <2>6. RefusedIsDue'
    BY <1>l, <1>e, <1>p, <2>1, CountedStay
  <2> QED
    BY <1>l, <2>5, <2>6 DEF CountInv
<1> QED
  BY <1>1, <1>2, <1>3, <1>4, <1>5, <1>6 DEF Next, Done

\* Before the first step nothing is counted.
LEMMA NothingCounted ==
    ASSUME index = 0, total = 0, intersecting = 0, steps = 0, pc # "walk", result = "none"
    PROVE  Counts /\ RefusedIsDue
<1>1. Pairs(0) = {} /\ Meeting(0) = {}
  BY DEF Pairs, Meeting
<1> QED
  BY <1>1, FS_EmptySet DEF Counts, RefusedIsDue

\* The counts of both loops are right, for every map.
THEOREM CountInvariant == Spec => []CountInv
<1>1. Init => CountInv
  BY NothingCounted, MapCoverageAssumption DEF Init, CountInv, LoopInv, TypeOK
<1> QED
  BY <1>1, CountStep, PTL DEF Spec

\* The sum and the walk together leave one holder per address, and the scan
\* has seen its type.
LEMMA AcceptedExactInv ==
    ASSUME CountInv
    PROVE  AcceptedIsExact
<1> SUFFICES ASSUME result = "ok", NEW a \in OwnedRange
             PROVE  \E i \in 1..Len(map) : Holders(a) = {i} /\ map[i].ty = expected
  BY DEF AcceptedIsExact
<1>1. TypeOK /\ index = Len(map) /\ Cardinality(Pairs(Len(map))) = bytes
  BY DEF CountInv, LoopInv, Counts
<1>2. \A b \in OwnedRange : Holders(b) # {}
  BY DEF CountInv, LoopInv, CoveredSoFar, OwnedRange
<1>3. PICK i \in 1..Len(map) : Holders(a) = {i}
  BY <1>1, <1>2, OncePerAddress
<1>4. AcceptedIsCovered
  BY AcceptedInv DEF CountInv
<1>5. map[i].ty = expected
  BY <1>3, <1>4 DEF AcceptedIsCovered
<1> QED
  BY <1>3, <1>5

\* Every address of an accepted range is in one descriptor, of the expected
\* type: the walk leaves no gap, the scan no other type, and the sum of the
\* overlaps rules out a second holder (validate_map, coverage).
THEOREM AcceptedExact == Spec => []AcceptedIsExact
<1>1. CountInv => AcceptedIsExact
  BY AcceptedExactInv
<1> QED
  BY <1>1, CountInvariant, PTL

\* Where no address is held twice, the walk makes one iteration for each
\* descriptor it leaves behind, and accepts only in a later one.
Sharp ==
    /\ (pc = "walk" \/ result = "ok") /\ OnceHeld => steps = Cardinality(Passed(cursor))
    /\ result = "ok" /\ Arm => steps < StepLimit

SharpInv == CountInv /\ Sharp

\* Every step keeps the number of iterations.
LEMMA SharpStep == SharpInv /\ [Next]_vars => SharpInv'
<1> SUFFICES ASSUME SharpInv, [Next]_vars
             PROVE  SharpInv'
  OBVIOUS
<1>l. CountInv /\ CountInv' /\ LoopInv /\ TypeOK /\ Counts /\ Sharp
  BY CountStep DEF SharpInv, CountInv, LoopInv
<1> SUFFICES Sharp'
  BY <1>l DEF SharpInv
<1>1. CASE UNCHANGED vars
  <2>1. UNCHANGED input /\ UNCHANGED <<pc, cursor, steps, result>>
    BY <1>1 DEF vars
  <2>2. Passed(cursor)' = Passed(cursor)
    <3>1. PICK c : c = cursor
      OBVIOUS
    <3> QED
      BY <2>1, <3>1, CountedStay DEF Passed
  <2> QED
    BY <1>l, <2>1, <2>2, CountedStay DEF Sharp
<1>2. CASE CheckMeta \/ Scan \/ Reject
  BY <1>2, <1>l DEF CheckMeta, Scan, Reject, Return, Sharp, LoopInv
<1>3. CASE ScanDone /\ pc' = "walk"
  <2>1. result' = "none" /\ steps' = 0 /\ cursor' = base /\ UNCHANGED input
    BY <1>3, <1>l DEF ScanDone, Reject, Return, LoopInv, Counts
  <2>2. Passed(base) = {}
    <3>1. ASSUME NEW i \in Passed(base) PROVE FALSE
      <4>1. i \in 1..Len(map) /\ Overlaps(map[i]) /\ Hi(map[i]) <= base
        BY DEF Passed, Meeting
      <4>2. map[i] \in Descriptor /\ base \in Nat
        BY <1>l, <4>1, MapCoverageAssumption DEF TypeOK
      <4>3. base <= Lo(map[i]) /\ Lo(map[i]) \in Nat /\ Hi(map[i]) \in Nat
        BY <1>l, <4>2, Bounds
      <4> QED
        BY <4>1, <4>2, <4>3 DEF Overlaps
    <3> QED
      BY <3>1
  <2>3. Passed(cursor)' = {}
    <3>1. PICK b : b = base
      OBVIOUS
    <3>2. Passed(b)' = {}
      BY <2>1, <2>2, <3>1, CountedStay
    <3> QED
      BY <2>1, <3>1, <3>2 DEF Passed
  <2> QED
    BY <2>1, <2>3, FS_EmptySet DEF Sharp
<1>4. CASE pc = "walk" /\ steps < WalkBound /\ Return("ok") /\ UNCHANGED <<input, cursor, steps>>
  <2>1. Passed(cursor)' = Passed(cursor)
    <3>1. PICK c : c = cursor
      OBVIOUS
    <3> QED
      BY <1>4, <3>1, CountedStay DEF Passed
  <2>2. (OnceHeld' <=> OnceHeld) /\ (Arm' <=> Arm)
    BY <1>4, CountedStay
  <2> QED
    BY <1>4, <1>l, <2>1, <2>2 DEF Sharp, WalkBound
<1>5. CASE pc = "walk" /\ ~Arm /\ Return("ok") /\ UNCHANGED <<input, cursor, steps>>
  <2>1. Passed(cursor)' = Passed(cursor)
    <3>1. PICK c : c = cursor
      OBVIOUS
    <3> QED
      BY <1>5, <3>1, CountedStay DEF Passed
  <2>2. (OnceHeld' <=> OnceHeld) /\ (Arm' <=> Arm)
    BY <1>5, CountedStay
  <2> QED
    BY <1>5, <1>l, <2>1, <2>2 DEF Sharp
<1>6. ASSUME pc = "walk", NEW n \in Reached, n # cursor, \A m \in Reached : m <= n,
             cursor' = n, steps' = steps + 1, UNCHANGED <<pc, input, result>>
      PROVE  Sharp'
  <2>1. cursor \in Nat /\ cursor \in Reached /\ result' = "none"
    BY <1>6, <1>l, MapCoverageAssumption DEF TypeOK, LoopInv, Reached
  <2>2. n \in Nat /\ cursor < n
    BY <1>6, <1>l, <2>1, WalkCovers
  <2>3. OnceHeld => Cardinality(Passed(n)) = steps + 1
    BY <1>6, <1>l, <2>2, WalkPasses DEF Sharp
  <2>4. Passed(n)' = Passed(n) /\ (OnceHeld' <=> OnceHeld)
    BY <1>6, CountedStay
  <2>5. Passed(cursor)' = Passed(n)'
    BY <1>6 DEF Passed
  <2> QED
    BY <1>6, <2>1, <2>3, <2>4, <2>5 DEF Sharp
<1>7. CASE Walk
  BY <1>2, <1>4, <1>6, <1>7 DEF Walk
<1>8. CASE WalkEnd
  BY <1>2, <1>5, <1>8 DEF WalkEnd
<1>9. CASE ScanDone
  BY <1>2, <1>3, <1>9 DEF ScanDone
<1> QED
  BY <1>1, <1>2, <1>7, <1>8, <1>9 DEF Next, Done

\* The iterations of validate_map are counted right, for every map.
THEOREM SharpInvariant == Spec => []SharpInv
<1>1. Init => SharpInv
  BY NothingCounted, MapCoverageAssumption DEF Init, SharpInv, CountInv, Sharp, LoopInv, TypeOK
<1> QED
  BY <1>1, SharpStep, PTL DEF Spec

\* An accepted range lies in as many descriptors as the walk made iterations,
\* and an exact one is refused only where validate_map's bound is met.
LEMMA SharpExact ==
    ASSUME SharpInv
    PROVE  ExactIsAccepted
<1>1. CountInv /\ TypeOK /\ Sharp
  BY DEF SharpInv, CountInv, LoopInv
<1>2. ASSUME result = "ok", Arm PROVE intersecting < StepLimit
  <2>1. OnceHeld
    BY <1>1, <1>2, AcceptedExactInv DEF AcceptedIsExact, OnceHeld
  <2>2. index = Len(map) /\ cursor = Last /\ intersecting = Cardinality(Meeting(Len(map)))
    BY <1>1, <1>2 DEF CountInv, LoopInv, Counts
  <2>3. ASSUME NEW i \in Meeting(Len(map)) PROVE Hi(map[i]) <= Last
    <3>1. map[i] \in Descriptor
      BY <1>1 DEF Meeting, TypeOK
    <3> QED
      BY <1>1, <3>1, Bounds
  <2>4. Passed(cursor) = Meeting(Len(map))
    BY <2>2, <2>3 DEF Passed
  <2> QED
    BY <1>1, <1>2, <2>1, <2>2, <2>4 DEF Sharp
<1> QED
  BY <1>1, <1>2 DEF ExactIsAccepted, CountInv, RefusedIsDue, ExactMap, OnceHeld

\* A map that holds the range exactly once is accepted: the walk passes one
\* descriptor in each iteration, so the bound of coverage is never met early,
\* and that of validate_map exactly from StepLimit descriptors on.
THEOREM ExactAccepted == Spec => []ExactIsAccepted
<1>1. SharpInv => ExactIsAccepted
  BY SharpExact
<1> QED
  BY <1>1, SharpInvariant, PTL

-----------------------------------------------------------------------------
(* The owners.                                                             *)

Holding == {"overlap", "refresh", "checking", "stage", "loaded", "release"}

\* Who has the pages, step by step.
PagesByStep ==
    /\ at = "allocate" => memory = "none" /\ frees = 0
    /\ at \in Holding => pointer = "some" /\ memory = "owned" /\ frees = 0
    /\ at \in {"observe", "observing"} => pointer = "none" /\ memory = "freed" /\ frees = 1
    /\ at = "drop" => memory # "none" /\ frees = IF pointer = "some" THEN 0 ELSE 1
    /\ at = "drop" /\ pointer = "some" => memory = "owned"
    /\ at = "end" => frees = IF memory = "none" THEN 0 ELSE 1

\* What the last check was about, and what it said.
CheckByStep ==
    /\ at \in {"checking", "stage", "loaded"} => expected = "loader"
    /\ at \in {"stage", "loaded"} => result = "ok"
    /\ at = "observing" => expected = "conventional"

\* A staged collection has no error pending only before its release fails.
AnswerByStep ==
    /\ probe = "arm" <=> Arm
    /\ at = "release" => probe = "stage"
    /\ at \in {"drop", "end"} /\ answer = "ok" /\ probe = "stage" =>
          pointer = "none" /\ memory = "freed" /\ result = "ok" /\ expected = "conventional"

OwnerInv == SharpInv /\ OwnerTypeOK /\ PagesByStep /\ CheckByStep /\ AnswerByStep

\* Starting the check on a new map establishes what the loops need.
LEMMA CallLoop ==
    ASSUME SharpInv, NEW type \in Types, Call(type)
    PROVE  SharpInv'
<1>1. LoopInv'
  BY MapCoverageAssumption DEF Call, SharpInv, CountInv, LoopInv, TypeOK
<1>2. /\ index' = 0 /\ total' = 0 /\ intersecting' = 0 /\ steps' = 0 /\ pc' # "walk"
      /\ result' = "none"
  BY DEF Call
<1>3. Pairs(0)' = {} /\ Meeting(0)' = {}
  BY DEF Pairs, Meeting
<1>4. Counts' /\ RefusedIsDue' /\ Sharp'
  BY <1>2, <1>3, FS_EmptySet DEF Counts, RefusedIsDue, Sharp, Pairs, Meeting
<1> QED
  BY <1>1, <1>4 DEF SharpInv, CountInv

\* So does forgetting the last one.
LEMMA ForgetLoop ==
    ASSUME SharpInv, Forget
    PROVE  SharpInv'
<1>1. LoopInv'
  BY MapCoverageAssumption DEF Forget, SharpInv, CountInv, LoopInv, TypeOK
<1>2. /\ index' = 0 /\ total' = 0 /\ intersecting' = 0 /\ steps' = 0 /\ pc' # "walk"
      /\ result' = "none"
  BY DEF Forget
<1>3. Pairs(0)' = {} /\ Meeting(0)' = {}
  BY DEF Pairs, Meeting
<1>4. Counts' /\ RefusedIsDue' /\ Sharp'
  BY <1>2, <1>3, FS_EmptySet DEF Counts, RefusedIsDue, Sharp, Pairs, Meeting
<1> QED
  BY <1>1, <1>4 DEF SharpInv, CountInv

\* An accepted range has the expected type everywhere.
LEMMA OkRange ==
    ASSUME LoopInv, result = "ok"
    PROVE  RangeIs(expected)
BY AcceptedInv DEF RangeIs, AcceptedIsCovered

\* Every step keeps the owner's invariant.
LEMMA OwnerStep == OwnerInv /\ [OwnerNext]_allVars => OwnerInv'
<1> SUFFICES ASSUME OwnerInv, [OwnerNext]_allVars
             PROVE  OwnerInv'
  OBVIOUS
<1> USE PageOwnerAssumption
    DEF OwnerInv, OwnerTypeOK, PagesByStep, CheckByStep, AnswerByStep, Holding, Arm
<1>u. ASSUME UNCHANGED vars
      PROVE  /\ SharpInv' /\ TypeOK'
             /\ UNCHANGED <<code, expected, result>>
  <2>1. SharpInv'
    BY <1>u, SharpStep
  <2> QED
    BY <1>u, <2>1 DEF vars, input, SharpInv, CountInv, LoopInv
<1>f. ASSUME Fail, at \in Holding PROVE OwnerInv'
  BY <1>f, <1>u DEF Fail
<1>1. CASE Refused
  BY <1>1, <1>u DEF Refused
<1>2. CASE AllocatePages
  BY <1>2, <1>u DEF AllocatePages
<1>3. CASE CheckOverlap
  BY <1>3, <1>u, <1>f DEF CheckOverlap
<1>4. CASE Refresh
  <2>1. CASE Fail
    BY <1>4, <2>1, <1>f DEF Refresh
  <2>2. CASE at' = "checking" /\ Call("loader") /\ UNCHANGED <<probe, pointer, memory, frees, answer>>
    <3>1. SharpInv' /\ TypeOK'
      BY <2>2, CallLoop DEF SharpInv, CountInv, LoopInv
    <3> QED
      BY <1>4, <2>2, <3>1 DEF Refresh, Call
  <2> QED
    BY <1>4, <2>1, <2>2 DEF Refresh
<1>5. CASE Check
  <2>1. SharpInv' /\ TypeOK'
    BY <1>5, SharpStep DEF Check, SharpInv, CountInv, LoopInv
  <2>2. UNCHANGED <<code, expected>>
    BY <1>5 DEF Check, Next, CheckMeta, Scan, ScanDone, Walk, WalkEnd, Done, Reject, vars, input
  <2> QED
    BY <1>5, <2>1, <2>2 DEF Check, ownerVars
<1>6. CASE Checked
  BY <1>6, <1>u, <1>f DEF Checked
<1>7. CASE Stage
  BY <1>7, <1>u, <1>f DEF Stage
<1>8. CASE Use
  BY <1>8, <1>u, <1>f DEF Use
<1>9. CASE Release
  <2>1. SharpInv' /\ TypeOK'
    BY <1>9, ForgetLoop DEF Release, SharpInv, CountInv, LoopInv
  <2> QED
    BY <1>9, <2>1 DEF Release, Forget
<1>10. CASE Observe
  <2>1. CASE at' = "observing" /\ Call("conventional") /\ UNCHANGED <<probe, pointer, memory, frees, answer>>
    <3>1. SharpInv' /\ TypeOK'
      BY <2>1, CallLoop DEF SharpInv, CountInv, LoopInv
    <3> QED
      BY <1>10, <2>1, <3>1 DEF Observe, Call
  <2>2. CASE at' # "observing"
    BY <1>10, <2>2, <1>u DEF Observe, Explicit
  <2> QED
    BY <1>10, <2>1, <2>2 DEF Observe
<1>11. CASE Observed
  BY <1>11, <1>u DEF Observed, Explicit
<1>12. CASE DropEmpty
  BY <1>12, <1>u DEF DropEmpty
<1>13. CASE UNCHANGED allVars
  BY <1>13, <1>u DEF allVars, ownerVars
<1> QED
  BY <1>1, <1>2, <1>3, <1>4, <1>5, <1>6, <1>7, <1>8, <1>9, <1>10, <1>11, <1>12, <1>13
  DEF OwnerNext, Ended

\* The owner's bookkeeping agrees with the loops at every step.
THEOREM OwnerInvariant == OwnerSpec => []OwnerInv
<1>1. OwnerInit => OwnerInv
  BY NothingCounted, MapCoverageAssumption, PageOwnerAssumption
     DEF OwnerInit, OwnerInv, OwnerTypeOK, SharpInv, CountInv, Sharp, LoopInv, TypeOK,
         PagesByStep, CheckByStep,
         AnswerByStep, Holding, Arm
<1> QED
  BY <1>1, OwnerStep, PTL DEF OwnerSpec

\* Nothing is written outside pages that are owned and shown by the map.
THEOREM WritesOwnPages == OwnerSpec => []WrittenIsOwned
<1>1. OwnerInv => WrittenIsOwned
  BY OkRange DEF OwnerInv, SharpInv, CountInv, PagesByStep, CheckByStep, Holding, WrittenIsOwned
<1> QED
  BY <1>1, OwnerInvariant, PTL

\* A step of an owner is a step of the contract of its page range.
LEMMA LifetimeStep == OwnerInv /\ [OwnerNext]_allVars => [Lifetime!Next]_Lifetime!vars
<1> SUFFICES ASSUME OwnerInv, [OwnerNext]_allVars
             PROVE  [Lifetime!Next]_Lifetime!vars
  OBVIOUS
<1> USE DEF OwnerInv, PagesByStep, Holding
<1>t. at \in {"allocate", "overlap", "refresh", "checking", "stage", "loaded", "release",
              "observe", "observing", "drop", "end"}
  BY DEF OwnerTypeOK
<1>s. ASSUME UNCHANGED <<memory, frees>>, at # "end",
             at' = "end" => memory = "none" \/ frees = 1
      PROVE  Lifetime!Next
  BY <1>s DEF Lifetime!Next, Lifetime!Leave, Lifetime!Settled
<1>f. ASSUME Fail, at \in Holding PROVE Lifetime!Next
  BY <1>f, <1>s DEF Fail
<1>1. CASE Refused
  BY <1>1, <1>s DEF Refused
<1>2. CASE AllocatePages
  <2>1. memory = "none" /\ memory' = "owned" /\ UNCHANGED frees /\ at # "end" /\ at' # "end"
    BY <1>2 DEF AllocatePages
  <2> QED
    BY <2>1 DEF Lifetime!Next, Lifetime!Allocate, Lifetime!Settled
<1>3. CASE CheckOverlap
  BY <1>3, <1>s, <1>f DEF CheckOverlap
<1>4. CASE Refresh
  BY <1>4, <1>s, <1>f DEF Refresh
<1>5. CASE Check
  BY <1>5, <1>s DEF Check, ownerVars
<1>6. CASE Checked
  BY <1>6, <1>s, <1>f DEF Checked
<1>7. CASE Stage
  BY <1>7, <1>s, <1>f DEF Stage
<1>8. CASE Use
  BY <1>8, <1>s, <1>f DEF Use
<1>9. CASE Release
  <2>1. /\ memory = "owned" /\ frees = 0 /\ at # "end"
        /\ memory' \in {"freed", "owned"} /\ frees' = 1
    BY <1>9 DEF Release, OwnerTypeOK
  <2> QED
    BY <2>1 DEF Lifetime!Next, Lifetime!Free, Lifetime!Settled
<1>10. CASE Observe
  BY <1>10, <1>s DEF Observe
<1>11. CASE Observed
  BY <1>11, <1>s DEF Observed
<1>12. CASE DropEmpty
  BY <1>12, <1>s DEF DropEmpty
<1>13. CASE UNCHANGED allVars
  BY <1>13 DEF allVars, ownerVars, Lifetime!vars
<1> QED
  BY <1>1, <1>2, <1>3, <1>4, <1>5, <1>6, <1>7, <1>8, <1>9, <1>10, <1>11, <1>12, <1>13
  DEF OwnerNext, Ended

\* ArmPages and Pages keep the contract of a page range, for every map, range
\* and refusal: an owner before any check, and one attempt of FreePages.
THEOREM LifetimeKept == OwnerSpec => KeepsLifetime
<1>1. OwnerInit => Lifetime!Init
  BY DEF OwnerInit, Lifetime!Init
<1>2. OwnerInv /\ [OwnerNext]_allVars => [Lifetime!Next]_Lifetime!vars
  BY LifetimeStep
<1> QED
  BY <1>1, <1>2, OwnerInvariant, PTL DEF OwnerSpec, KeepsLifetime, Lifetime!Spec

\* The contract gives what it is for, whoever keeps it.
LEMMA LifetimeIsSafe == Lifetime!Spec => []Lifetime!LifetimeSafe
<1> DEFINE Safe == Lifetime!LifetimeTypes /\ Lifetime!LifetimeSafe
<1>1. Lifetime!Init => Safe
  BY DEF Lifetime!Init, Lifetime!LifetimeTypes, Lifetime!LifetimeSafe
<1>2. Safe /\ [Lifetime!Next]_Lifetime!vars => Safe'
  BY DEF Lifetime!Next, Lifetime!Allocate, Lifetime!Reject, Lifetime!Free, Lifetime!Keep,
         Lifetime!Leave, Lifetime!vars, Lifetime!LifetimeTypes, Lifetime!LifetimeSafe,
         Lifetime!Settled
<1>3. Safe => Lifetime!LifetimeSafe
  OBVIOUS
<1> QED
  BY <1>1, <1>2, <1>3, PTL DEF Lifetime!Spec

\* FreePages is called exactly once for allocated pages, whatever fails.
THEOREM FreesOnce == OwnerSpec => []Lifetime!LifetimeSafe
BY LifetimeKept, LifetimeIsSafe DEF KeepsLifetime

\* kc.rs reports a staged collection as done only after its range is shown
\* as conventional memory again.
THEOREM DoneReturned == OwnerSpec => []DoneMeansReturned
<1>1. OwnerInv => DoneMeansReturned
  BY OkRange DEF OwnerInv, SharpInv, CountInv, AnswerByStep, DoneMeansReturned
<1> QED
  BY <1>1, OwnerInvariant, PTL

\* In the owners' use of them, too, the unchecked additions of the walk
\* cannot overflow, an accepted range has one descriptor of the expected type
\* at each address, and an exact map is accepted below validate_map's bound.
THEOREM ChecksHold ==
    OwnerSpec => [](WalkCannotOverflow /\ AcceptedIsExact /\ ExactIsAccepted)
<1>1. OwnerInv => WalkCannotOverflow /\ AcceptedIsExact /\ ExactIsAccepted
  BY WalkInv, AcceptedExactInv, SharpExact DEF OwnerInv, SharpInv, CountInv
<1> QED
  BY <1>1, OwnerInvariant, PTL
=============================================================================
