----------------------------- MODULE PageTables -----------------------------
(***************************************************************************)
(* Tables::map, the stage-1 page-table builder of mmu_probe.rs,            *)
(* dynamic_probe.rs, dt_probe.rs and asid_probe.rs, and the one of         *)
(* hierarchy_probe.rs, which also writes restrictions into the table       *)
(* descriptors it passes; the plain builders write none.                   *)
(*                                                                         *)
(* The tables are pages of one zeroed buffer.  Pages 0 and 1 are the roots *)
(* of the lower and the upper half of the address space; others are handed *)
(* out in order.  An address is its root and its index at every level:     *)
(* four levels for the 4 KiB granule, three for the 16 KiB granule.        *)
(***************************************************************************)
EXTENDS Integers, Sequences

CONSTANTS
    Indices,     \* the indices of a table: 512 or 2048 in the code
    Addresses,   \* virtual pages: [root, path]
    Leaves,      \* leaf descriptors other than 0
    Attributes,  \* the restrictions a table descriptor can carry
    Calls,       \* the map calls of the most general caller
    Sizes        \* the numbers of pages of its buffer

Nowhere == -1
NoLeaf == [pa |-> Nowhere, flags |-> {}]   \* the descriptor 0

Roots == {0, 1}
Granules == {3, 4}   \* levels of a walk

ASSUME TablesAssumption ==
    /\ Indices # {}
    /\ NoLeaf \notin Leaves
    /\ \A a \in Addresses : a \in [root : Roots, path : Seq(Indices)]
    /\ \A q \in Calls : q \in [va : Addresses, leaf : Leaves \cup {NoLeaf}, choice : Nat,
                               parent : SUBSET Attributes, xn : SUBSET Attributes]
    /\ Sizes \subseteq Nat \ {0, 1}

Descriptors == [to : Int, leaf : Leaves \cup {NoLeaf}, attrs : SUBSET Attributes]
Zero == [to |-> Nowhere, leaf |-> NoLeaf, attrs |-> {}]
Table(p) == [to |-> p, leaf |-> NoLeaf, attrs |-> {}]
Leaf(l) == [to |-> Nowhere, leaf |-> l, attrs |-> {}]

VARIABLES
    levels,    \* the granule, as the levels of a walk
    size,      \* pages in the buffer
    tables,    \* page -> index -> descriptor
    nextPage,  \* Tables.next
    mapping,   \* the map call under way, at its current table
    mapped,    \* the result of the last call
    mappedAt   \* where the last leaf was written

tableVars == <<levels, size, tables, nextPage, mapping, mapped, mappedAt>>

NoMapping == [va |-> [root |-> 0, path |-> <<>>], leaf |-> NoLeaf, choice |-> 0,
              parent |-> {}, xn |-> {}, page |-> Nowhere, level |-> 0]

NoEntry == [page |-> Nowhere, index |-> Nowhere]

Pages == 0..(size - 1)
Start == 4 - levels
IndexAt(va, level) == va.path[level - Start + 1]

\* ArmPages zeroes what it allocates; Tables { next: 2 }.
NewTables(l, n) ==
    /\ levels' = l /\ size' = n
    /\ tables' = [p \in 0..(n - 1) |-> [i \in Indices |-> Zero]]
    /\ nextPage' = 2
    /\ mapping' = NoMapping /\ mapped' = "none" /\ mappedAt' = NoEntry

TablesInit(l, n) ==
    /\ levels = l /\ size = n
    /\ tables = [p \in 0..(n - 1) |-> [i \in Indices |-> Zero]]
    /\ nextPage = 2
    /\ mapping = NoMapping /\ mapped = "none" /\ mappedAt = NoEntry

\* A call map(va, leaf, parent, xn, choice) starts at the root of its half.
MapBegin(q) ==
    /\ mapping.page = Nowhere /\ Len(q.va.path) = levels
    /\ mapping' = [va |-> q.va, leaf |-> q.leaf, choice |-> q.choice, parent |-> q.parent,
                   xn |-> q.xn, page |-> q.va.root, level |-> Start]
    /\ mapped' = "none"
    /\ UNCHANGED <<levels, size, tables, nextPage, mappedAt>>

Here == tables[mapping.page][IndexAt(mapping.va, mapping.level)]
InBounds == mapping.page \in Pages
Write(d) ==
    tables' = [tables EXCEPT ![mapping.page][IndexAt(mapping.va, mapping.level)] = d]

Returns(r) == mapping' = NoMapping /\ mapped' = r

\* level == 3: whatever the entry held is replaced.
WriteLeaf ==
    /\ mapping.page # Nowhere /\ InBounds /\ mapping.level = 3
    /\ Write(Leaf(mapping.leaf))
    /\ Returns("OK")
    /\ mappedAt' = [page |-> mapping.page, index |-> IndexAt(mapping.va, mapping.level)]
    /\ UNCHANGED <<levels, size, nextPage>>

\* An entry is needed and next + granule is beyond the buffer.
Exhausted == Here = Zero /\ nextPage >= size

\* The errors of map; the tables linked on the way stay linked.
MapFails ==
    /\ mapping.page # Nowhere
    /\ IF ~InBounds THEN Returns("BAD_BUFFER_SIZE")
       ELSE mapping.level < 3 /\ Exhausted /\ Returns("OUT_OF_RESOURCES")
    /\ UNCHANGED <<levels, size, tables, nextPage, mappedAt>>

\* Mutant: the page is linked, but handed out again.
AllocatedTwice == nextPage' = nextPage

\* self.next += 1 when the entry was 0.
Allocated == nextPage' = IF Here = Zero THEN nextPage + 1 ELSE nextPage

\* ap_level and xn_level of hierarchy_probe.rs.
Restrictions ==
    LET below == 3 - Start
        at(n) == mapping.level = Start + (n % below)
    IN  (IF at(mapping.choice) THEN mapping.parent ELSE {})
          \cup (IF at(mapping.choice + 1) THEN mapping.xn ELSE {})

\* An upper level: the entry's table, or a new one, with the restrictions
\* ORed into the descriptor; the address mask drops them again.
Descend ==
    /\ mapping.page # Nowhere /\ InBounds /\ mapping.level < 3 /\ ~Exhausted
    /\ LET d == IF Here = Zero THEN Table(nextPage) ELSE Here
       IN  /\ Write([d EXCEPT !.attrs = @ \cup Restrictions])
           /\ mapping' = [mapping EXCEPT !.page = d.to, !.level = @ + 1]
    /\ Allocated
    /\ UNCHANGED <<levels, size, mapped, mappedAt>>

MapStep == WriteLeaf \/ MapFails \/ Descend

\* The most general caller: any calls in any order, repeated, and again
\* after a failure.
CallerInit == \E l \in Granules, n \in Sizes : TablesInit(l, n)
CallerNext == MapStep \/ \E q \in Calls : MapBegin(q)
CallerSpec == CallerInit /\ [][CallerNext]_tableVars

-----------------------------------------------------------------------------
(* The walk of the translation regime, as the architecture defines it      *)

StepTo(p, i) == IF p = Nowhere THEN Nowhere ELSE tables[p][i].to

\* The table of the last level, or Nowhere.
LastTable(va) ==
    LET second == StepTo(va.root, va.path[1])
        third == StepTo(second, va.path[2])
    IN  IF levels = 3 THEN third ELSE StepTo(third, va.path[3])

LeafOf(va) ==
    IF Len(va.path) # levels THEN NoLeaf
    ELSE IF LastTable(va) = Nowhere THEN NoLeaf
    ELSE tables[LastTable(va)][va.path[levels]].leaf

\* The restrictions of the table descriptors on the way.
AttributesOf(va) ==
    LET second == StepTo(va.root, va.path[1])
        third == StepTo(second, va.path[2])
        at(p, i) == IF p = Nowhere THEN {} ELSE tables[p][i].attrs
    IN  at(va.root, va.path[1]) \cup at(second, va.path[2])
          \cup (IF levels = 3 THEN {} ELSE at(third, va.path[3]))

-----------------------------------------------------------------------------
(* Properties                                                              *)

\* The buffer holds descriptors and the next page is in it or just beyond.
TablesTypeOK ==
    /\ levels \in Granules
    /\ size \in Nat \ {0, 1}
    /\ tables \in [Pages -> [Indices -> Descriptors]]
    /\ nextPage \in 2..size
    /\ mapping.page \in Int /\ mapping.level \in Int
    /\ mapped \in {"none", "OK", "OUT_OF_RESOURCES", "BAD_BUFFER_SIZE"}

Space ==
    INSTANCE AddressSpace WITH
        space <- [a \in Addresses |-> LeafOf(a)],
        pending <- IF mapping.page = Nowhere THEN {}
                   ELSE {[va |-> mapping.va, leaf |-> mapping.leaf]},
        answer <- mapped

\* The tables a builder leaves, read by the architecture's walk, are a
\* dictionary: a successful map call has set the translation of its own page
\* to its own leaf and no other, whatever tables they share; a call that runs
\* out of pages half-way has changed none, although it leaves tables linked;
\* and the bounds check of a table entry never fires (Tables::map).
TablesAreAMap == Space!Spec
=============================================================================
