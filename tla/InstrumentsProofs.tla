------------------------- MODULE InstrumentsProofs -------------------------
(***************************************************************************)
(* Four of the instruments, for every value of their constants.            *)
(*                                                                         *)
(* First, the page-table builder implements the dictionary of AddressSpace *)
(* for every set of addresses, leaves and calls and every size of the      *)
(* buffer.  The argument: the linked pages form a forest.  Every page but  *)
(* a root has one entry that points to it (OneParent), it lies one level   *)
(* below that entry's page (Layered), and the pages not yet handed out are *)
(* zero (Fresh).  So two addresses that end in one entry are one address,  *)
(* and a table linked half-way ends in entries that map nothing.           *)
(*                                                                         *)
(* Second, NXHAL copies ACPI memory only and reports everything, for every *)
(* firmware.  Its invariant says what the report holds when run is about   *)
(* to read an entry, and which functions of bus 0 the scan has found.      *)
(*                                                                         *)
(* Third, the observers of the memory trace report windows of the whole    *)
(* history, for any capacities and requests.  Its invariant says that an   *)
(* array holds the front or the tail of a sequence the history defines     *)
(* (HoldsFront, HoldsTail).  That sequence is a recursive function of the  *)
(* history; the facts about it are proved by induction on a set of         *)
(* positions (SetInduction).                                               *)
(*                                                                         *)
(* Fourth, a JIT probe that reports success was refused nothing, whatever  *)
(* the machine it exercises does.  Its invariant follows a refusal that    *)
(* does not end the case: it shows in the runner's status or in the state  *)
(* of the code pages until run_case compares, and every case of every      *)
(* probe compares both (CasesLook).                                        *)
(***************************************************************************)
EXTENDS MemoryTrace, JitProbe, HalTables, SequenceTheorems, FiniteSetTheorems,
        WellFoundedInduction, TLAPS

-----------------------------------------------------------------------------
(* The inductive invariant                                                 *)

VirtualPages == [root : Roots, path : Seq(Indices)]

Mappings ==
    [va : VirtualPages, leaf : Leaves \cup {NoLeaf}, choice : Nat, parent : SUBSET Attributes,
     xn : SUBSET Attributes, page : Int, level : Int]

Types ==
    /\ levels \in Granules
    /\ size \in Nat /\ 2 <= size
    /\ tables \in [Pages -> [Indices -> Descriptors]]
    /\ nextPage \in Nat /\ 2 <= nextPage /\ nextPage <= size
    /\ mapping \in Mappings
    /\ mapped \in {"none", "OK", "OUT_OF_RESOURCES", "BAD_BUFFER_SIZE"}

Fresh == \A p \in Pages, i \in Indices : p >= nextPage => tables[p][i] = Zero

Linked ==
    \A p \in Pages, i \in Indices :
        tables[p][i].to = Nowhere \/ tables[p][i].to \in 2..(nextPage - 1)

OneParent ==
    \A p, q \in Pages : \A i, j \in Indices :
        tables[p][i].to # Nowhere /\ tables[p][i].to = tables[q][j].to => p = q /\ i = j

\* depth is how many entries a walk has followed when it reads a page.
Layered(depth) ==
    /\ \A r \in Roots : depth[r] = 0
    /\ \A p \in Pages, i \in Indices :
          /\ depth[p] = levels - 1 => tables[p][i].to = Nowhere
          /\ depth[p] # levels - 1 /\ tables[p][i].to = Nowhere => tables[p][i] = Zero
          /\ tables[p][i].to # Nowhere => depth[tables[p][i].to] = depth[p] + 1

Depths == [Pages -> 0..(levels - 1)]

\* The tables of a walk below the root.
Depth1(va) == StepTo(va.root, va.path[1])
Depth2(va) == StepTo(Depth1(va), va.path[2])
Depth3(va) == StepTo(Depth2(va), va.path[3])

\* A call under way is at the table its address leads to.
OnPath ==
    /\ mapping.level = Start => mapping.page = mapping.va.root
    /\ mapping.level = Start + 1 => mapping.page = Depth1(mapping.va)
    /\ mapping.level = Start + 2 => mapping.page = Depth2(mapping.va)
    /\ mapping.level = Start + 3 => mapping.page = Depth3(mapping.va)

Under(depth) ==
    mapping.page # Nowhere =>
        /\ mapping.va \in Addresses /\ Len(mapping.va.path) = levels
        /\ mapping.page \in Pages /\ mapping.page < nextPage
        /\ mapping.level \in Start..3
        /\ depth[mapping.page] = mapping.level - Start
        /\ OnPath

Forest == \E depth \in Depths : Layered(depth) /\ Under(depth)

Inv == Types /\ Fresh /\ Linked /\ OneParent /\ Forest

-----------------------------------------------------------------------------
(* Walks                                                                   *)

\* The indices of an address of the current granule are indices of a table.
LEMMA PathIndices ==
    ASSUME levels \in Granules, NEW va \in VirtualPages, Len(va.path) = levels
    PROVE  /\ va.root \in Roots
           /\ va.path[1] \in Indices /\ va.path[2] \in Indices /\ va.path[3] \in Indices
           /\ va.path[levels] \in Indices
  BY DEF VirtualPages, Granules

\* An entry leads nowhere or to a page that has been handed out.
LEMMA StepTyped ==
    ASSUME Types, Linked, NEW p \in {Nowhere} \cup 0..(nextPage - 1), NEW i \in Indices
    PROVE  StepTo(p, i) \in {Nowhere} \cup 2..(nextPage - 1)
  BY DEF Types, Linked, StepTo, Pages, Nowhere

\* So do all tables of a walk.
LEMMA WalkTyped ==
    ASSUME Types, Linked, NEW va \in VirtualPages, Len(va.path) = levels
    PROVE  /\ Depth1(va) \in {Nowhere} \cup 2..(nextPage - 1)
           /\ Depth2(va) \in {Nowhere} \cup 2..(nextPage - 1)
           /\ Depth3(va) \in {Nowhere} \cup 2..(nextPage - 1)
           /\ LastTable(va) = IF levels = 3 THEN Depth2(va) ELSE Depth3(va)
  <1>1. /\ va.root \in Roots
        /\ va.path[1] \in Indices /\ va.path[2] \in Indices /\ va.path[3] \in Indices
    BY PathIndices DEF Types
  <1>2. va.root \in {Nowhere} \cup 0..(nextPage - 1)
    BY <1>1 DEF Types, Roots
  <1>3. Depth1(va) \in {Nowhere} \cup 2..(nextPage - 1)
    BY <1>1, <1>2, StepTyped DEF Depth1
  <1>4. Depth2(va) \in {Nowhere} \cup 2..(nextPage - 1)
    <2>1. Depth1(va) \in {Nowhere} \cup 0..(nextPage - 1)
      BY <1>3 DEF Types
    <2>2. QED
      BY <2>1, <1>1, StepTyped DEF Depth2
  <1>5. Depth3(va) \in {Nowhere} \cup 2..(nextPage - 1)
    <2>1. Depth2(va) \in {Nowhere} \cup 0..(nextPage - 1)
      BY <1>4 DEF Types
    <2>2. QED
      BY <2>1, <1>1, StepTyped DEF Depth3
  <1>6. QED
    BY <1>3, <1>4, <1>5 DEF LastTable, Depth1, Depth2, Depth3

-----------------------------------------------------------------------------
(* The invariant holds                                                     *)

\* An empty buffer is a forest of two roots.
LEMMA InitialTables == CallerInit => Inv
  <1> SUFFICES ASSUME CallerInit PROVE Inv
    OBVIOUS
  <1>1. PICK l \in Granules, n \in Sizes : TablesInit(l, n)
    BY DEF CallerInit
  <1>2. n \in Nat /\ 2 <= n
    BY TablesAssumption
  <1>3. levels \in {3, 4} /\ size \in Nat /\ 2 <= size /\ nextPage = 2
    BY <1>1, <1>2 DEF TablesInit, Granules
  <1>4. tables = [p \in Pages |-> [i \in Indices |-> Zero]]
    BY <1>1 DEF TablesInit, Pages
  <1>5. Zero \in Descriptors /\ Zero.to = Nowhere
    BY DEF Zero, Descriptors, Nowhere
  <1>6. Types
    <2>1. mapping \in Mappings
      BY <1>1 DEF TablesInit, NoMapping, Mappings, VirtualPages, Roots, Nowhere
    <2>2. tables \in [Pages -> [Indices -> Descriptors]]
      BY <1>4, <1>5
    <2>3. QED
      BY <1>1, <1>3, <2>1, <2>2 DEF TablesInit, Types, Granules
  <1>7. Fresh /\ Linked /\ OneParent
    BY <1>4, <1>5 DEF Fresh, Linked, OneParent
  <1>8. Forest
    <2> DEFINE depth == [p \in Pages |-> 0]
    <2>1. depth \in Depths
      BY <1>3 DEF Depths
    <2>2. Layered(depth)
      BY <1>3, <1>4, <1>5 DEF Layered, Roots, Pages
    <2>3. Under(depth)
      BY <1>1 DEF Under, TablesInit, NoMapping
    <2>4. QED
      BY <2>1, <2>2, <2>3 DEF Forest
  <1>9. QED
    BY <1>6, <1>7, <1>8 DEF Inv

\* The entry a call under way is at.
LEMMA CurrentEntry ==
    ASSUME Types, NEW depth \in Depths, Under(depth), mapping.page # Nowhere
    PROVE  /\ mapping.page \in Pages /\ mapping.page \in 0..(nextPage - 1)
           /\ IndexAt(mapping.va, mapping.level) \in Indices
           /\ Here \in Descriptors
           /\ InBounds
  <1>1. /\ mapping.page \in Pages /\ mapping.page \in 0..(nextPage - 1)
        /\ mapping.level \in Start..3 /\ Len(mapping.va.path) = levels
        /\ mapping.va.path \in Seq(Indices)
    BY DEF Types, Under, Pages, Mappings, VirtualPages
  <1>2. mapping.level - Start + 1 \in 1..Len(mapping.va.path)
    BY <1>1 DEF Types, Granules, Start
  <1>3. IndexAt(mapping.va, mapping.level) \in Indices
    BY <1>1, <1>2 DEF IndexAt
  <1>4. QED
    BY <1>1, <1>3 DEF Types, Here, InBounds

\* Starting a call changes no table.
LEMMA BeginKeeps ==
    ASSUME Inv, NEW q \in Calls, MapBegin(q)
    PROVE  Inv'
  <1>1. PICK depth \in Depths : Layered(depth) /\ Under(depth)
    BY DEF Inv, Forest
  <1>2. /\ q.va \in Addresses /\ q.va \in VirtualPages /\ q.leaf \in Leaves \cup {NoLeaf}
        /\ q.choice \in Nat /\ q.parent \in SUBSET Attributes /\ q.xn \in SUBSET Attributes
    BY TablesAssumption DEF VirtualPages
  <1>3. q.va.root \in Roots
    BY <1>2 DEF VirtualPages
  <1>4. /\ mapping' = [va |-> q.va, leaf |-> q.leaf, choice |-> q.choice, parent |-> q.parent,
                       xn |-> q.xn, page |-> q.va.root, level |-> Start]
        /\ mapped' = "none" /\ Len(q.va.path) = levels
        /\ UNCHANGED <<levels, size, tables, nextPage>>
    BY DEF MapBegin
  <1>5. Types'
    <2>1. mapping' \in Mappings
      BY <1>2, <1>3, <1>4 DEF Mappings, Roots, Inv, Types, Granules, Start
    <2>2. QED
      BY <1>4, <2>1 DEF Inv, Types, Pages
  <1>6. (Fresh /\ Linked /\ OneParent)'
    BY <1>4 DEF Inv, Fresh, Linked, OneParent, Pages
  <1>7. Forest'
    <2>1. depth \in Depths' /\ Layered(depth)'
      BY <1>1, <1>4 DEF Depths, Layered, Pages
    <2>2. Under(depth)'
      <3>1. depth[q.va.root] = 0
        BY <1>1, <1>3 DEF Layered
      <3>2. q.va.root \in Pages /\ q.va.root < nextPage
        BY <1>3 DEF Roots, Pages, Inv, Types
      <3>3. Start \in Start..3 /\ Start = Start' /\ Start \in Int
        BY <1>4 DEF Inv, Types, Granules, Start
      <3>4. OnPath'
        <4>1. /\ mapping'.level = 4 - levels' /\ mapping'.page = mapping'.va.root
              /\ levels' \in Int
          BY <1>4 DEF Start, Inv, Types, Granules
        <4>2. QED
          BY <4>1 DEF OnPath, Start
      <3>5. QED
        BY <1>2, <1>4, <3>1, <3>2, <3>3, <3>4 DEF Under, Pages
    <2>3. QED
      BY <2>1, <2>2 DEF Forest
  <1>8. QED
    BY <1>5, <1>6, <1>7 DEF Inv

\* Neither does a call that runs out of pages.
LEMMA FailKeeps ==
    ASSUME Inv, MapFails
    PROVE  Inv' /\ mapped' = "OUT_OF_RESOURCES" /\ mapping.page # Nowhere
  <1>1. PICK depth \in Depths : Layered(depth) /\ Under(depth)
    BY DEF Inv, Forest
  <1>2. mapping.page # Nowhere /\ UNCHANGED <<levels, size, tables, nextPage>>
    BY DEF MapFails
  <1>3. InBounds
    BY <1>1, <1>2, CurrentEntry DEF Inv
  <1>4. mapping' = NoMapping /\ mapped' = "OUT_OF_RESOURCES"
    BY <1>3 DEF MapFails, Returns
  <1>5. Types'
    <2>1. mapping' \in Mappings
      BY <1>4 DEF NoMapping, Mappings, VirtualPages, Roots, Nowhere
    <2>2. QED
      BY <1>2, <1>4, <2>1 DEF Inv, Types, Pages
  <1>6. (Fresh /\ Linked /\ OneParent)'
    BY <1>2 DEF Inv, Fresh, Linked, OneParent, Pages
  <1>7. Forest'
    <2>1. depth \in Depths' /\ Layered(depth)'
      BY <1>1, <1>2 DEF Depths, Layered, Pages
    <2>2. Under(depth)'
      BY <1>4 DEF Under, NoMapping
    <2>3. QED
      BY <2>1, <2>2 DEF Forest
  <1>8. QED
    BY <1>2, <1>4, <1>5, <1>6, <1>7 DEF Inv

\* What writing one entry does to all of them.
LEMMA WriteEffect ==
    ASSUME Types, NEW d \in Descriptors, Write(d),
           mapping.page \in Pages, IndexAt(mapping.va, mapping.level) \in Indices
    PROVE  /\ tables' \in [Pages -> [Indices -> Descriptors]]
           /\ \A p \in Pages, i \in Indices :
                 tables'[p][i] = IF p = mapping.page /\ i = IndexAt(mapping.va, mapping.level)
                                 THEN d ELSE tables[p][i]
  <1> DEFINE x == IndexAt(mapping.va, mapping.level)
  <1>1. tables' = [tables EXCEPT ![mapping.page] = [@ EXCEPT ![x] = d]]
    BY DEF Write
  <1>2. tables \in [Pages -> [Indices -> Descriptors]]
    BY DEF Types
  <1> HIDE DEF x
  <1>3. x \in Indices
    BY DEF x
  <1>4. QED
    BY <1>1, <1>2, <1>3 DEF x

\* A leaf is written at the last level, over an entry that links nothing.
LEMMA LeafEffect ==
    ASSUME Inv, WriteLeaf
    PROVE  /\ mapping.page # Nowhere /\ mapping.page \in Pages /\ mapping.page < nextPage
           /\ IndexAt(mapping.va, mapping.level) = mapping.va.path[levels]
           /\ mapping.va \in Addresses /\ Len(mapping.va.path) = levels
           /\ mapping.page = LastTable(mapping.va)
           /\ UNCHANGED <<levels, size, nextPage>> /\ mapping' = NoMapping /\ mapped' = "OK"
           /\ tables' \in [Pages -> [Indices -> Descriptors]]
           /\ \A p \in Pages, i \in Indices :
                 /\ tables'[p][i].to = tables[p][i].to
                 /\ tables'[p][i] = IF p = mapping.page /\ i = mapping.va.path[levels]
                                    THEN Leaf(mapping.leaf) ELSE tables[p][i]
  <1>1. PICK depth \in Depths : Layered(depth) /\ Under(depth)
    BY DEF Inv, Forest
  <1>2. /\ mapping.page # Nowhere /\ mapping.level = 3
        /\ Write(Leaf(mapping.leaf))
        /\ UNCHANGED <<levels, size, nextPage>> /\ mapping' = NoMapping /\ mapped' = "OK"
    BY DEF WriteLeaf, Returns
  <1>3. /\ mapping.page \in Pages /\ mapping.page < nextPage
        /\ mapping.va \in Addresses /\ Len(mapping.va.path) = levels
        /\ depth[mapping.page] = 3 - Start /\ OnPath
    BY <1>1, <1>2 DEF Under
  <1>4. IndexAt(mapping.va, mapping.level) \in Indices
    BY <1>1, <1>2, CurrentEntry DEF Inv
  <1>5. levels \in {3, 4}
    BY DEF Inv, Types, Granules
  <1>6. IndexAt(mapping.va, mapping.level) = mapping.va.path[levels]
    BY <1>2, <1>5 DEF IndexAt, Start
  <1>7. Leaf(mapping.leaf) \in Descriptors /\ Leaf(mapping.leaf).to = Nowhere
    BY DEF Leaf, Descriptors, Inv, Types, Mappings, Nowhere
  <1>8. tables[mapping.page][mapping.va.path[levels]].to = Nowhere
    BY <1>1, <1>3, <1>4, <1>5, <1>6 DEF Layered, Start
  <1>9. /\ tables' \in [Pages -> [Indices -> Descriptors]]
        /\ \A p \in Pages, i \in Indices :
              tables'[p][i] = IF p = mapping.page /\ i = mapping.va.path[levels]
                              THEN Leaf(mapping.leaf) ELSE tables[p][i]
    BY <1>2, <1>3, <1>4, <1>6, <1>7, WriteEffect DEF Inv
  <1>10. mapping.page = LastTable(mapping.va)
    <2>1. CASE levels = 3
      BY <2>1, <1>2, <1>3 DEF OnPath, Start, LastTable, Depth1, Depth2
    <2>2. CASE levels = 4
      BY <2>2, <1>2, <1>3 DEF OnPath, Start, LastTable, Depth1, Depth2, Depth3
    <2>3. QED
      BY <1>5, <2>1, <2>2
  <1>11. \A p \in Pages, i \in Indices : tables'[p][i].to = tables[p][i].to
    BY <1>7, <1>8, <1>9
  <1>12. QED
    BY <1>2, <1>3, <1>6, <1>9, <1>10, <1>11

\* Writing a leaf links nothing.
LEMMA LeafKeeps ==
    ASSUME Inv, WriteLeaf
    PROVE  Inv'
  <1>1. PICK depth \in Depths : Layered(depth) /\ Under(depth)
    BY DEF Inv, Forest
  <1>2. /\ mapping.page # Nowhere /\ mapping.page \in Pages /\ mapping.page < nextPage
        /\ UNCHANGED <<levels, size, nextPage>> /\ mapping' = NoMapping /\ mapped' = "OK"
        /\ tables' \in [Pages -> [Indices -> Descriptors]]
    BY LeafEffect
  <1>3. \A p \in Pages, i \in Indices :
           /\ tables'[p][i].to = tables[p][i].to
           /\ p # mapping.page => tables'[p][i] = tables[p][i]
    BY LeafEffect
  <1>4. Pages' = Pages /\ Depths' = Depths
    BY <1>2 DEF Pages, Depths
  <1>5. Types'
    <2>1. mapping' \in Mappings
      BY <1>2 DEF NoMapping, Mappings, VirtualPages, Roots, Nowhere
    <2>2. QED
      BY <1>2, <1>4, <2>1 DEF Inv, Types
  <1>6. Fresh'
    <2>1. \A p \in Pages : p >= nextPage => p # mapping.page
      BY <1>2 DEF Inv, Types, Pages
    <2>2. QED
      BY <1>2, <1>3, <1>4, <2>1 DEF Inv, Fresh
  <1>7. Linked' /\ OneParent'
    BY <1>2, <1>3, <1>4 DEF Inv, Linked, OneParent
  <1>8. Forest'
    <2>1. depth[mapping.page] = levels - 1
      BY <1>1, <1>2 DEF Under, WriteLeaf, Start, Inv, Types, Granules
    <2>2. Layered(depth)'
      BY <1>1, <1>2, <1>3, <1>4, <2>1 DEF Layered
    <2>3. Under(depth)'
      BY <1>2 DEF Under, NoMapping
    <2>4. QED
      BY <1>4, <2>2, <2>3 DEF Forest
  <1>9. QED
    BY <1>5, <1>6, <1>7, <1>8 DEF Inv

\* The restrictions a call carries are restrictions.
LEMMA RestrictionsTyped == ASSUME Types PROVE Restrictions \in SUBSET Attributes
  BY DEF Types, Mappings, Restrictions

\* A step through an entry that is in use changes no link and no leaf.
LEMMA FollowEffect ==
    ASSUME Inv, Descend, Here # Zero
    PROVE  /\ mapping.page # Nowhere /\ mapping.page \in Pages
           /\ IndexAt(mapping.va, mapping.level) \in Indices
           /\ Here.to \in 2..(nextPage - 1) /\ Here.to # Nowhere
           /\ UNCHANGED <<levels, size, nextPage, mapped>>
           /\ mapping' = [mapping EXCEPT !.page = Here.to, !.level = mapping.level + 1]
           /\ tables' \in [Pages -> [Indices -> Descriptors]]
           /\ \A p \in Pages, i \in Indices :
                 /\ tables'[p][i].to = tables[p][i].to
                 /\ tables'[p][i].leaf = tables[p][i].leaf
                 /\ tables[p][i].to = Nowhere => tables'[p][i] = tables[p][i]
  <1>1. PICK depth \in Depths : Layered(depth) /\ Under(depth)
    BY DEF Inv, Forest
  <1> DEFINE d == [Here EXCEPT !.attrs = @ \cup Restrictions]
  <1>2. /\ mapping.page # Nowhere /\ mapping.level < 3 /\ Write(d)
        /\ mapping' = [mapping EXCEPT !.page = Here.to, !.level = mapping.level + 1]
        /\ UNCHANGED <<levels, size, nextPage, mapped>>
    BY DEF Descend, Allocated
  <1>3. /\ mapping.page \in Pages /\ IndexAt(mapping.va, mapping.level) \in Indices
        /\ Here \in Descriptors
    BY <1>1, <1>2, CurrentEntry DEF Inv
  <1>4. d \in Descriptors /\ d.to = Here.to /\ d.leaf = Here.leaf
    BY <1>3, RestrictionsTyped DEF Inv, Descriptors
  <1>5. depth[mapping.page] # levels - 1
    BY <1>1, <1>2 DEF Under, Start, Inv, Types, Granules
  <1>6. Here.to # Nowhere
    BY <1>1, <1>3, <1>5 DEF Layered, Here
  <1>7. Here.to \in 2..(nextPage - 1)
    BY <1>3, <1>6 DEF Inv, Linked, Here
  <1> HIDE DEF d
  <1>8. /\ tables' \in [Pages -> [Indices -> Descriptors]]
        /\ \A p \in Pages, i \in Indices :
              tables'[p][i] = IF p = mapping.page /\ i = IndexAt(mapping.va, mapping.level)
                              THEN d ELSE tables[p][i]
    BY <1>2, <1>3, <1>4, WriteEffect DEF Inv
  <1>9. \A p \in Pages, i \in Indices :
           /\ tables'[p][i].to = tables[p][i].to
           /\ tables'[p][i].leaf = tables[p][i].leaf
           /\ tables[p][i].to = Nowhere => tables'[p][i] = tables[p][i]
    BY <1>4, <1>6, <1>8 DEF Here
  <1>10. QED
    BY <1>2, <1>3, <1>6, <1>7, <1>8, <1>9

\* A step through an empty entry links the next page there.
LEMMA LinkEffect ==
    ASSUME Inv, Descend, Here = Zero
    PROVE  /\ mapping.page # Nowhere /\ mapping.page \in Pages
           /\ IndexAt(mapping.va, mapping.level) \in Indices
           /\ nextPage \in Pages /\ nextPage' = nextPage + 1 /\ nextPage' <= size
           /\ UNCHANGED <<levels, size, mapped>>
           /\ mapping' = [mapping EXCEPT !.page = nextPage, !.level = mapping.level + 1]
           /\ tables' \in [Pages -> [Indices -> Descriptors]]
           /\ \A p \in Pages, i \in Indices :
                 /\ tables'[p][i].leaf = tables[p][i].leaf
                 /\ tables'[p][i].to = IF p = mapping.page /\ i = IndexAt(mapping.va, mapping.level)
                                       THEN nextPage ELSE tables[p][i].to
                 /\ ~(p = mapping.page /\ i = IndexAt(mapping.va, mapping.level)) =>
                       tables'[p][i] = tables[p][i]
  <1>1. PICK depth \in Depths : Layered(depth) /\ Under(depth)
    BY DEF Inv, Forest
  <1> DEFINE d == [Table(nextPage) EXCEPT !.attrs = @ \cup Restrictions]
  <1>2. /\ mapping.page # Nowhere /\ mapping.level < 3 /\ Write(d) /\ ~(nextPage >= size)
        /\ mapping' = [mapping EXCEPT !.page = nextPage, !.level = mapping.level + 1]
        /\ nextPage' = nextPage + 1 /\ UNCHANGED <<levels, size, mapped>>
    BY DEF Descend, Allocated, Exhausted, Table
  <1>3. /\ mapping.page \in Pages /\ IndexAt(mapping.va, mapping.level) \in Indices
    BY <1>1, <1>2, CurrentEntry DEF Inv
  <1>4. d \in Descriptors /\ d.to = nextPage /\ d.leaf = NoLeaf
    BY RestrictionsTyped DEF Inv, Types, Descriptors, Table
  <1>5. nextPage \in Pages /\ nextPage' <= size
    BY <1>2 DEF Inv, Types, Pages
  <1> HIDE DEF d
  <1>6. /\ tables' \in [Pages -> [Indices -> Descriptors]]
        /\ \A p \in Pages, i \in Indices :
              tables'[p][i] = IF p = mapping.page /\ i = IndexAt(mapping.va, mapping.level)
                              THEN d ELSE tables[p][i]
    BY <1>2, <1>3, <1>4, WriteEffect DEF Inv
  <1>7. tables[mapping.page][IndexAt(mapping.va, mapping.level)].leaf = NoLeaf
    BY DEF Here, Zero
  <1>8. QED
    BY <1>2, <1>3, <1>4, <1>5, <1>6, <1>7

\* The links above a page a walk has reached are of lower depth.
LEMMA PathDepths ==
    ASSUME Inv, NEW depth \in Depths, Layered(depth),
           NEW va \in VirtualPages, Len(va.path) = levels
    PROVE  /\ va.root \in Pages /\ depth[va.root] = 0
           /\ Depth1(va) # Nowhere => Depth1(va) \in Pages /\ depth[Depth1(va)] = 1
           /\ Depth2(va) # Nowhere =>
                 /\ Depth1(va) # Nowhere
                 /\ Depth2(va) \in Pages /\ depth[Depth2(va)] = 2
           /\ Depth3(va) # Nowhere => Depth2(va) # Nowhere
  <1>1. /\ va.root \in Roots
        /\ va.path[1] \in Indices /\ va.path[2] \in Indices /\ va.path[3] \in Indices
    BY PathIndices DEF Inv, Types
  <1>2. /\ Depth1(va) \in {Nowhere} \cup 2..(nextPage - 1)
        /\ Depth2(va) \in {Nowhere} \cup 2..(nextPage - 1)
    BY WalkTyped DEF Inv
  <1>3. \A p \in 2..(nextPage - 1) : p \in Pages
    BY DEF Inv, Types, Pages
  <1>4. va.root \in Pages /\ va.root # Nowhere /\ depth[va.root] = 0
    BY <1>1 DEF Roots, Pages, Nowhere, Layered, Inv, Types
  <1>5. Depth1(va) # Nowhere => Depth1(va) \in Pages /\ depth[Depth1(va)] = 1
    BY <1>1, <1>2, <1>3, <1>4 DEF Depth1, StepTo, Layered
  <1>6. Depth2(va) # Nowhere =>
           /\ Depth1(va) # Nowhere
           /\ Depth2(va) \in Pages /\ depth[Depth2(va)] = 2
    BY <1>1, <1>2, <1>3, <1>5 DEF Depth2, StepTo, Layered
  <1>7. QED
    BY <1>4, <1>5, <1>6 DEF Depth3, StepTo

\* A step that changes no link changes no walk.
LEMMA SameLinks ==
    ASSUME Inv, NEW va \in VirtualPages, Len(va.path) = levels,
           \A p \in Pages, i \in Indices : tables'[p][i].to = tables[p][i].to
    PROVE  /\ Depth1(va)' = Depth1(va)
           /\ Depth2(va)' = Depth2(va)
           /\ Depth3(va)' = Depth3(va)
  <1>1. /\ va.root \in Roots
        /\ va.path[1] \in Indices /\ va.path[2] \in Indices /\ va.path[3] \in Indices
    BY PathIndices DEF Inv, Types
  <1>2. /\ Depth1(va) \in {Nowhere} \cup 2..(nextPage - 1)
        /\ Depth2(va) \in {Nowhere} \cup 2..(nextPage - 1)
    BY WalkTyped DEF Inv
  <1>3. va.root \in Pages /\ \A p \in 2..(nextPage - 1) : p \in Pages
    BY <1>1 DEF Inv, Types, Pages, Roots
  <1>4. Depth1(va)' = Depth1(va)
    BY <1>1, <1>3 DEF Depth1, StepTo
  <1>5. Depth2(va)' = Depth2(va)
    BY <1>1, <1>2, <1>3, <1>4 DEF Depth2, StepTo
  <1>6. Depth3(va)' = Depth3(va)
    BY <1>1, <1>2, <1>3, <1>5 DEF Depth3, StepTo
  <1>7. QED
    BY <1>4, <1>5, <1>6

\* Where a call is that has not reached the last level.
LEMMA CallPosition ==
    ASSUME Inv, NEW depth \in Depths, Under(depth), Descend
    PROVE  \E k \in {0, 1, 2} :
              /\ mapping.level = 4 - levels + k /\ k + 1 \in 0..(levels - 1)
              /\ depth[mapping.page] = k
              /\ mapping.va \in Addresses /\ Len(mapping.va.path) = levels
              /\ IndexAt(mapping.va, mapping.level) = mapping.va.path[k + 1]
              /\ k = 0 => mapping.page = mapping.va.root
              /\ k = 1 => mapping.page = Depth1(mapping.va)
              /\ k = 2 => mapping.page = Depth2(mapping.va)
  <1>1. mapping.page # Nowhere /\ mapping.level < 3
    BY DEF Descend
  <1>2. /\ mapping.va \in Addresses /\ Len(mapping.va.path) = levels
        /\ mapping.level \in Start..3
        /\ depth[mapping.page] = mapping.level - Start
        /\ OnPath
    BY <1>1 DEF Under
  <1>3. levels \in {3, 4} /\ Start = 4 - levels
    BY DEF Inv, Types, Granules, Start
  <1>4. PICK k \in {0, 1, 2} : mapping.level = Start + k /\ k + 1 \in 0..(levels - 1)
    <2>1. mapping.level \in Int /\ Start \in Int /\ Start <= mapping.level /\ mapping.level < 3
      BY <1>1, <1>2, <1>3
    <2>2. /\ mapping.level - Start \in {0, 1, 2}
          /\ mapping.level - Start + 1 \in 0..(levels - 1)
          /\ mapping.level = Start + (mapping.level - Start)
      BY <1>3, <2>1
    <2>3. QED
      BY <2>2
  <1>5. IndexAt(mapping.va, mapping.level) = mapping.va.path[k + 1]
    BY <1>3, <1>4 DEF IndexAt
  <1>6. /\ k = 0 => mapping.page = mapping.va.root
        /\ k = 1 => mapping.page = Depth1(mapping.va)
        /\ k = 2 => mapping.page = Depth2(mapping.va)
    BY <1>2, <1>3, <1>4 DEF OnPath
  <1>7. depth[mapping.page] = k
    BY <1>2, <1>3, <1>4
  <1>8. QED
    BY <1>2, <1>3, <1>4, <1>5, <1>6, <1>7

\* Where a call is after one more level.
LEMMA CallDescends ==
    ASSUME NEW va, NEW to, NEW k \in {0, 1, 2}, levels' \in Int,
           mapping'.va = va, mapping'.page = to, mapping'.level = 4 - levels' + k + 1,
           k = 0 => to = Depth1(va)',
           k = 1 => to = Depth2(va)',
           k = 2 => to = Depth3(va)'
    PROVE  OnPath'
  BY DEF OnPath, Start

\* Following an entry adds attributes and links nothing.
LEMMA FollowKeeps ==
    ASSUME Inv, Descend, Here # Zero
    PROVE  Inv'
  <1>1. PICK depth \in Depths : Layered(depth) /\ Under(depth)
    BY DEF Inv, Forest
  <1>2. /\ mapping.page # Nowhere /\ mapping.page \in Pages
        /\ IndexAt(mapping.va, mapping.level) \in Indices
        /\ UNCHANGED <<levels, size, nextPage, mapped>>
    BY FollowEffect
  <1>to. Here.to \in 2..(nextPage - 1) /\ Here.to # Nowhere
    BY FollowEffect
  <1>mapping. mapping' = [mapping EXCEPT !.page = Here.to, !.level = mapping.level + 1]
    BY FollowEffect
  <1>links. \A p \in Pages, i \in Indices : tables'[p][i].to = tables[p][i].to
    BY FollowEffect
  <1>others. \A p \in Pages, i \in Indices :
                tables[p][i].to = Nowhere => tables'[p][i] = tables[p][i]
    BY FollowEffect
  <1>3. Pages' = Pages /\ Depths' = Depths
    BY <1>2 DEF Pages, Depths
  <1>4. Types'
    <2>1. mapping \in Mappings /\ mapping.level + 1 \in Int /\ Here.to \in Int
      BY <1>to DEF Inv, Types, Mappings
    <2>2. mapping' \in Mappings
      BY <1>mapping, <2>1 DEF Mappings
    <2>3. tables' \in [Pages -> [Indices -> Descriptors]]
      BY FollowEffect
    <2>4. QED
      BY <1>2, <1>3, <2>2, <2>3 DEF Inv, Types
  <1>5. Fresh'
    <2>1. Zero.to = Nowhere
      BY DEF Zero
    <2>2. QED
      BY <1>2, <1>others, <1>3, <2>1 DEF Inv, Fresh
  <1>6. Linked' /\ OneParent'
    <2>1. Linked /\ OneParent /\ nextPage' = nextPage
      BY <1>2 DEF Inv
    <2>2. Linked'
      BY <1>links, <1>3, <2>1 DEF Linked
    <2>3. OneParent'
      BY <1>links, <1>3, <2>1 DEF OneParent
    <2>4. QED
      BY <2>2, <2>3
  <1>7. Layered(depth)'
    BY <1>1, <1>2, <1>links, <1>others, <1>3 DEF Layered
  <1>8. Under(depth)'
    <2>1. PICK va \in VirtualPages : va = mapping.va
      BY DEF Inv, Types, Mappings
    <2>2. PICK k \in {0, 1, 2} :
              /\ mapping.level = 4 - levels + k /\ k + 1 \in 0..(levels - 1)
              /\ depth[mapping.page] = k
              /\ va \in Addresses /\ Len(va.path) = levels
              /\ IndexAt(va, mapping.level) = va.path[k + 1]
              /\ k = 0 => mapping.page = va.root
              /\ k = 1 => mapping.page = Depth1(va)
              /\ k = 2 => mapping.page = Depth2(va)
      BY <1>1, <2>1, CallPosition
    <2>3. levels \in {3, 4} /\ levels' = levels /\ nextPage' = nextPage
      BY <1>2 DEF Inv, Types, Granules
    <2>4. Depth1(va)' = Depth1(va) /\ Depth2(va)' = Depth2(va) /\ Depth3(va)' = Depth3(va)
      BY <1>links, <2>2, SameLinks
    <2>5. Here.to = StepTo(mapping.page, va.path[k + 1])
      BY <1>2, <2>1, <2>2 DEF Here, StepTo
    <2>6. /\ mapping'.va = va /\ mapping'.page = Here.to
          /\ mapping'.level = 4 - levels' + k + 1
      <3>1. mapping \in Mappings
        BY DEF Inv, Types
      <3>2. mapping'.va = va /\ mapping'.page = Here.to /\ mapping'.level = mapping.level + 1
        BY <1>mapping, <2>1, <3>1 DEF Mappings
      <3>3. QED
        BY <2>2, <2>3, <3>2
    <2>7. /\ k = 0 => Here.to = Depth1(va)'
          /\ k = 1 => Here.to = Depth2(va)'
          /\ k = 2 => Here.to = Depth3(va)'
      BY <2>2, <2>4, <2>5 DEF Depth1, Depth2, Depth3
    <2>8. OnPath'
      BY <2>3, <2>6, <2>7, CallDescends
    <2>9. depth[Here.to] = k + 1
      BY <1>1, <1>2, <1>to, <2>2 DEF Layered, Here
    <2>10. Here.to \in Pages' /\ Here.to < nextPage'
      <3>1. nextPage \in Nat /\ nextPage <= size /\ size \in Nat
        BY DEF Inv, Types
      <3>2. Here.to \in Pages /\ Here.to < nextPage
        BY <1>to, <3>1 DEF Pages
      <3>3. QED
        BY <1>3, <2>3, <3>2
    <2>11. mapping'.level \in Start'..3 /\ depth[Here.to] = mapping'.level - Start'
      BY <2>2, <2>3, <2>6, <2>9 DEF Start
    <2>12. QED
      BY <2>2, <2>3, <2>6, <2>8, <2>10, <2>11 DEF Under
  <1>9. QED
    BY <1>1, <1>3, <1>4, <1>5, <1>6, <1>7, <1>8 DEF Inv, Forest

\* Linking a page changes one step of one walk, from nowhere to that page,
\* from which no step leads further.
LEMMA LinkStep ==
    ASSUME Inv, Descend, Here = Zero, NEW i \in Indices, NEW q,
           NEW p \in {Nowhere} \cup 0..(nextPage - 1),
           q = p \/ (p = Nowhere /\ q = nextPage)
    PROVE  /\ StepTo(q, i)' = StepTo(p, i) \/ (StepTo(p, i) = Nowhere /\ StepTo(q, i)' = nextPage)
           /\ p # mapping.page => StepTo(q, i)' = StepTo(p, i)
           /\ p = mapping.page /\ i = IndexAt(mapping.va, mapping.level) =>
                 StepTo(q, i)' = nextPage
  <1>1. /\ nextPage \in Pages /\ nextPage # Nowhere /\ \A r \in 0..(nextPage - 1) : r \in Pages
        /\ mapping.page # nextPage /\ mapping.page # Nowhere
    <2>1. PICK depth \in Depths : Layered(depth) /\ Under(depth)
      BY DEF Inv, Forest
    <2>2. mapping.page # Nowhere /\ nextPage \in Pages
      BY LinkEffect
    <2>3. mapping.page < nextPage
      BY <2>1, <2>2 DEF Under
    <2>4. mapping.page \in Int /\ nextPage \in Nat /\ nextPage <= size /\ size \in Nat
      BY DEF Inv, Types, Mappings
    <2>5. QED
      BY <2>2, <2>3, <2>4 DEF Pages, Nowhere
  <1>2. /\ tables'[nextPage][i].to = Nowhere
    <2>1. tables'[nextPage][i].to = tables[nextPage][i].to
      BY <1>1, LinkEffect
    <2>2. nextPage >= nextPage
      BY DEF Inv, Types
    <2>3. tables[nextPage][i] = Zero
      BY <1>1, <2>2 DEF Inv, Fresh
    <2>4. QED
      BY <2>1, <2>3 DEF Zero
  <1>3. CASE p = Nowhere
    <2>1. StepTo(p, i) = Nowhere
      BY <1>3 DEF StepTo
    <2>2. StepTo(q, i)' = Nowhere
      BY <1>2, <1>3 DEF StepTo
    <2>3. QED
      BY <1>1, <1>3, <2>1, <2>2
  <1>4. CASE p # Nowhere
    <2>1. q = p /\ p \in Pages
      BY <1>1, <1>4
    <2>2. /\ tables'[p][i].to = IF p = mapping.page /\ i = IndexAt(mapping.va, mapping.level)
                                THEN nextPage ELSE tables[p][i].to
      BY <2>1, LinkEffect
    <2>3. p = mapping.page /\ i = IndexAt(mapping.va, mapping.level) => tables[p][i].to = Nowhere
      BY DEF Here, Zero
    <2>4. StepTo(p, i) = tables[p][i].to /\ StepTo(q, i)' = tables'[p][i].to
      BY <1>4, <2>1 DEF StepTo
    <2>5. QED
      BY <2>2, <2>3, <2>4
  <1>5. QED
    BY <1>3, <1>4

\* A page that is linked lies one level below its new parent.
LEMMA LinkLayers ==
    ASSUME Inv, Descend, Here = Zero,
           NEW depth \in Depths, Layered(depth), NEW k \in {0, 1, 2},
           mapping.page < nextPage, depth[mapping.page] = k, k + 1 \in 0..(levels - 1),
           NEW deeper, deeper = [depth EXCEPT ![nextPage] = k + 1]
    PROVE  deeper \in Depths' /\ Layered(deeper)'
  <1> DEFINE x == IndexAt(mapping.va, mapping.level)
  <1>1. /\ mapping.page \in Pages /\ nextPage \in Pages
        /\ levels' = levels /\ size' = size
    BY LinkEffect
  <1>2. Pages' = Pages /\ Depths' = Depths
    BY <1>1 DEF Pages, Depths
  <1>3. depth \in [Pages -> 0..(levels - 1)]
    BY DEF Depths
  <1>4. deeper \in [Pages -> 0..(levels - 1)]
    BY <1>3
  <1>5. nextPage \in Nat /\ 2 <= nextPage /\ mapping.page \in Int
    BY DEF Inv, Types, Mappings
  <1>6. \A p \in Pages : p # nextPage => deeper[p] = depth[p]
    BY <1>3
  <1>7. deeper[nextPage] = k + 1
    BY <1>1, <1>3
  <1>8. \A r \in Roots : deeper[r] = 0
    <2>1. \A r \in Roots : r \in Pages /\ r # nextPage /\ depth[r] = 0
      BY <1>5 DEF Roots, Pages, Inv, Types, Layered
    <2>2. QED
      BY <1>6, <2>1
  <1>9. ASSUME NEW p \in Pages, NEW i \in Indices
        PROVE  /\ deeper[p] = levels - 1 => tables'[p][i].to = Nowhere
               /\ deeper[p] # levels - 1 /\ tables'[p][i].to = Nowhere => tables'[p][i] = Zero
               /\ tables'[p][i].to # Nowhere => deeper[tables'[p][i].to] = deeper[p] + 1
    <2>1. CASE p = nextPage
      <3>1. p # mapping.page /\ p >= nextPage
        BY <1>5, <2>1
      <3>2. tables'[p][i] = tables[p][i]
        BY <3>1, LinkEffect
      <3>3. tables[p][i] = Zero
        BY <3>1 DEF Inv, Fresh
      <3>4. QED
        BY <3>2, <3>3 DEF Zero
    <2>2. CASE p = mapping.page /\ i = x
      <3>1. tables'[p][i].to = nextPage
        BY <2>2, LinkEffect
      <3>2. deeper[p] = k /\ k # levels - 1
        BY <1>5, <1>6, <2>2 DEF Inv, Types, Granules
      <3>3. nextPage # Nowhere
        BY <1>5 DEF Nowhere
      <3>4. QED
        BY <1>7, <3>1, <3>2, <3>3
    <2>3. CASE p # nextPage /\ ~(p = mapping.page /\ i = x)
      <3>1. tables'[p][i] = tables[p][i]
        BY <2>3, LinkEffect
      <3>2. tables[p][i].to # Nowhere => tables[p][i].to \in Pages /\ tables[p][i].to # nextPage
        <4>1. tables[p][i].to = Nowhere \/ tables[p][i].to \in 2..(nextPage - 1)
          BY DEF Inv, Linked
        <4>2. size \in Nat /\ nextPage <= size
          BY DEF Inv, Types
        <4>3. QED
          BY <1>5, <4>1, <4>2 DEF Pages
      <3>3. tables[p][i].to # Nowhere => deeper[tables[p][i].to] = depth[p] + 1
        BY <1>6, <3>2 DEF Layered
      <3>4. deeper[p] = depth[p]
        BY <1>6, <2>3
      <3>5. /\ depth[p] = levels - 1 => tables[p][i].to = Nowhere
            /\ depth[p] # levels - 1 /\ tables[p][i].to = Nowhere => tables[p][i] = Zero
        BY DEF Layered
      <3>6. QED
        BY <3>1, <3>3, <3>4, <3>5
    <2>4. QED
      BY <2>1, <2>2, <2>3
  <1>10. Layered(deeper)'
    BY <1>1, <1>2, <1>8, <1>9 DEF Layered
  <1>11. QED
    BY <1>2, <1>4, <1>10 DEF Depths

\* Linking a new page keeps the forest.
LEMMA LinkKeeps ==
    ASSUME Inv, Descend, Here = Zero
    PROVE  Inv'
  <1> DEFINE x == IndexAt(mapping.va, mapping.level)
  <1>1. PICK depth \in Depths : Layered(depth) /\ Under(depth)
    BY DEF Inv, Forest
  <1>2. /\ mapping.page # Nowhere /\ mapping.page \in Pages /\ x \in Indices
        /\ nextPage \in Pages /\ nextPage' = nextPage + 1 /\ nextPage' <= size
        /\ UNCHANGED <<levels, size, mapped>>
    BY LinkEffect
  <1>mapping. mapping' = [mapping EXCEPT !.page = nextPage, !.level = mapping.level + 1]
    BY LinkEffect
  <1>links. \A p \in Pages, i \in Indices :
               tables'[p][i].to = IF p = mapping.page /\ i = x THEN nextPage ELSE tables[p][i].to
    BY LinkEffect
  <1>others. \A p \in Pages, i \in Indices :
                p # mapping.page => tables'[p][i] = tables[p][i]
    BY LinkEffect
  <1>below. mapping.page < nextPage
    BY <1>1, <1>2 DEF Under
  <1>3. Pages' = Pages
    BY <1>2 DEF Pages
  <1>next. nextPage \in Nat /\ 2 <= nextPage /\ size \in Nat /\ nextPage # Nowhere
    BY DEF Inv, Types, Nowhere
  <1>4. Types'
    <2>1. mapping \in Mappings /\ mapping.level + 1 \in Int /\ nextPage \in Int
      BY <1>next DEF Inv, Types, Mappings
    <2>2. mapping' \in Mappings
      BY <1>mapping, <2>1 DEF Mappings
    <2>3. tables' \in [Pages -> [Indices -> Descriptors]]
      BY LinkEffect
    <2>4. nextPage' \in Nat /\ 2 <= nextPage'
      BY <1>2, <1>next
    <2>5. QED
      BY <1>2, <1>3, <2>2, <2>3, <2>4 DEF Inv, Types
  <1>5. Fresh'
    <2>1. \A p \in Pages : p >= nextPage' => p >= nextPage /\ p # mapping.page
      BY <1>2, <1>below, <1>next DEF Pages
    <2>2. QED
      BY <1>others, <1>3, <2>1 DEF Inv, Fresh
  <1>6. Linked'
    <2>1. nextPage \in 2..(nextPage' - 1)
          /\ \A n \in 2..(nextPage - 1) : n \in 2..(nextPage' - 1)
      BY <1>2, <1>next
    <2>2. QED
      BY <1>links, <1>3, <2>1 DEF Inv, Linked
  <1>7. OneParent'
    <2>1. \A p \in Pages, i \in Indices : tables[p][i].to # nextPage
      BY <1>next DEF Inv, Linked
    <2>2. QED
      BY <1>links, <1>3, <2>1 DEF Inv, OneParent
  <1>8. PICK va \in VirtualPages : va = mapping.va
    BY DEF Inv, Types, Mappings
  <1>9. PICK k \in {0, 1, 2} :
            /\ mapping.level = 4 - levels + k /\ k + 1 \in 0..(levels - 1)
            /\ depth[mapping.page] = k
            /\ va \in Addresses /\ Len(va.path) = levels
            /\ x = va.path[k + 1]
            /\ k = 0 => mapping.page = va.root
            /\ k = 1 => mapping.page = Depth1(va)
            /\ k = 2 => mapping.page = Depth2(va)
    BY <1>1, <1>8, CallPosition
  <1>10. PICK deeper : deeper = [depth EXCEPT ![nextPage] = k + 1]
    OBVIOUS
  <1>11. deeper \in Depths' /\ Layered(deeper)'
    BY <1>1, <1>below, <1>9, <1>10, LinkLayers
  <1>12. OnPath'
    <2>1. levels \in {3, 4} /\ levels' = levels
      BY <1>2 DEF Inv, Types, Granules
    <2>2. /\ mapping'.va = va /\ mapping'.page = nextPage
          /\ mapping'.level = 4 - levels' + k + 1
      <3>1. mapping \in Mappings
        BY DEF Inv, Types
      <3>2. mapping'.va = va /\ mapping'.page = nextPage /\ mapping'.level = mapping.level + 1
        BY <1>mapping, <1>8, <3>1 DEF Mappings
      <3>3. QED
        BY <1>9, <2>1, <3>2
    <2>3. /\ va.root \in {Nowhere} \cup 0..(nextPage - 1)
          /\ Depth1(va) \in {Nowhere} \cup 0..(nextPage - 1)
          /\ Depth2(va) \in {Nowhere} \cup 0..(nextPage - 1)
      <3>1. /\ Depth1(va) \in {Nowhere} \cup 2..(nextPage - 1)
            /\ Depth2(va) \in {Nowhere} \cup 2..(nextPage - 1)
        BY <1>9, WalkTyped DEF Inv
      <3>2. va.root \in {0, 1}
        BY DEF VirtualPages, Roots
      <3>3. QED
        BY <1>next, <3>1, <3>2
    <2>4. va.path[1] \in Indices /\ va.path[2] \in Indices /\ va.path[3] \in Indices
      BY <1>9, PathIndices DEF Inv, Types
    <2>5. /\ depth[va.root] = 0
          /\ Depth1(va) # Nowhere => depth[Depth1(va)] = 1
          /\ Depth2(va) # Nowhere => Depth1(va) # Nowhere
      BY <1>1, <1>9, PathDepths
    <2>6. k = 0 => nextPage = Depth1(va)'
      BY <1>9, <2>3, <2>4, LinkStep DEF Depth1
    <2>7. k # 0 => Depth1(va)' = Depth1(va)
      <3>1. k # 0 => va.root # mapping.page
        BY <1>9, <2>5
      <3>2. QED
        BY <3>1, <2>3, <2>4, LinkStep DEF Depth1
    <2>8. k = 1 => nextPage = Depth2(va)'
      <3>1. SUFFICES ASSUME k = 1 PROVE nextPage = Depth2(va)'
        OBVIOUS
      <3>2. PICK one : one = Depth1(va) /\ one = Depth1(va)'
        BY <3>1, <2>7
      <3>3. StepTo(one, va.path[2])' = nextPage
        <4>1. /\ one = mapping.page /\ va.path[2] = IndexAt(mapping.va, mapping.level)
              /\ one \in {Nowhere} \cup 0..(nextPage - 1) /\ va.path[2] \in Indices
          BY <1>9, <2>3, <2>4, <3>1, <3>2
        <4>2. QED
          BY <4>1, LinkStep
      <3>4. QED
        BY <3>2, <3>3 DEF Depth2, StepTo
    <2>9. k = 2 => nextPage = Depth3(va)'
      <3>1. SUFFICES ASSUME k = 2 PROVE nextPage = Depth3(va)'
        OBVIOUS
      <3>2. Depth2(va) = mapping.page /\ Depth1(va) # Nowhere /\ Depth1(va) # mapping.page
        BY <1>2, <1>9, <2>5, <3>1
      <3>3. PICK one : one = Depth1(va) /\ one = Depth1(va)'
        BY <3>1, <2>7
      <3>4. StepTo(one, va.path[2])' = StepTo(one, va.path[2])
        BY <2>3, <2>4, <3>2, <3>3, LinkStep
      <3>5. Depth2(va)' = Depth2(va)
        BY <3>3, <3>4 DEF Depth2, StepTo
      <3>6. PICK two : two = Depth2(va) /\ two = Depth2(va)'
        BY <3>5
      <3>7. StepTo(two, va.path[3])' = nextPage
        <4>1. /\ two = mapping.page /\ va.path[3] = IndexAt(mapping.va, mapping.level)
              /\ two \in {Nowhere} \cup 0..(nextPage - 1) /\ va.path[3] \in Indices
          BY <1>9, <2>3, <2>4, <3>1, <3>2, <3>6
        <4>2. QED
          BY <4>1, LinkStep
      <3>8. QED
        BY <3>6, <3>7 DEF Depth3, StepTo
    <2>10. QED
      BY <2>1, <2>2, <2>6, <2>8, <2>9, CallDescends
  <1>13. Under(deeper)'
    <2>1. mapping \in Mappings /\ levels \in {3, 4} /\ levels' = levels
      BY <1>2 DEF Inv, Types, Granules
    <2>2. mapping'.va = va /\ mapping'.page = nextPage /\ mapping'.level = mapping.level + 1
      BY <1>mapping, <1>8, <2>1 DEF Mappings
    <2>3. deeper[nextPage] = k + 1
      BY <1>2, <1>10 DEF Depths
    <2>4. mapping'.level \in Start'..3 /\ k + 1 = mapping'.level - Start'
      BY <1>9, <2>1, <2>2 DEF Start
    <2>5. nextPage \in Pages' /\ nextPage < nextPage'
      BY <1>2, <1>3, <1>next
    <2>6. va \in Addresses /\ Len(va.path) = levels'
      BY <1>9, <2>1
    <2>7. QED
      BY <1>12, <2>2, <2>3, <2>4, <2>5, <2>6 DEF Under
  <1>14. QED
    BY <1>4, <1>5, <1>6, <1>7, <1>11, <1>13 DEF Inv, Forest

\* The invariant is inductive.
LEMMA InvariantKept ==
    ASSUME Inv, [CallerNext]_tableVars
    PROVE  Inv'
  <1>1. CASE WriteLeaf
    BY <1>1, LeafKeeps
  <1>2. CASE MapFails
    BY <1>2, FailKeeps
  <1>3. CASE Descend
    BY <1>3, FollowKeeps, LinkKeeps
  <1>4. CASE \E q \in Calls : MapBegin(q)
    BY <1>4, BeginKeeps
  <1>5. CASE UNCHANGED tableVars
    <2>1. /\ levels' = levels /\ size' = size /\ tables' = tables /\ nextPage' = nextPage
          /\ mapping' = mapping /\ mapped' = mapped
      BY <1>5 DEF tableVars
    <2>2. Pages' = Pages /\ Depths' = Depths
      BY <2>1 DEF Pages, Depths
    <2>3. Types'
      BY <2>1, <2>2 DEF Inv, Types
    <2>4. (Fresh /\ Linked /\ OneParent)'
      BY <2>1, <2>2 DEF Inv, Fresh, Linked, OneParent
    <2>5. PICK depth \in Depths : Layered(depth) /\ Under(depth)
      BY DEF Inv, Forest
    <2>6. Layered(depth)'
      BY <2>1, <2>2, <2>5 DEF Layered
    <2>7. OnPath' = OnPath /\ Start' = Start
      BY <2>1 DEF OnPath, Start, Depth1, Depth2, Depth3, StepTo
    <2>8. Under(depth)'
      BY <2>1, <2>2, <2>5, <2>7 DEF Under
    <2>9. QED
      BY <2>2, <2>3, <2>4, <2>6, <2>8 DEF Inv, Forest
  <1>6. QED
    BY <1>1, <1>2, <1>3, <1>4, <1>5 DEF CallerNext, MapStep

\* In every state of a builder the linked tables form a forest over the two
\* roots, the pages not handed out are zero, and a call under way is at the
\* table its address leads to (Tables::map).
THEOREM TablesAreAForest == CallerSpec => []Inv
  <1>1. CallerInit => Inv
    BY InitialTables
  <1>2. Inv /\ [CallerNext]_tableVars => Inv'
    BY InvariantKept
  <1>3. QED
    BY <1>1, <1>2, PTL DEF CallerSpec

\* The buffer of a builder always holds descriptors, and Tables.next never
\* passes its end.
THEOREM TablesTyped == CallerSpec => []TablesTypeOK
  <1>1. Inv => TablesTypeOK
    <2>1. ASSUME Types PROVE nextPage \in 2..size /\ size \in Nat \ {0, 1}
      BY <2>1 DEF Types
    <2>2. ASSUME Types PROVE mapping.page \in Int /\ mapping.level \in Int
      BY <2>2 DEF Types, Mappings
    <2>3. QED
      BY <2>1, <2>2 DEF Inv, Types, TablesTypeOK
  <1>2. QED
    BY <1>1, TablesAreAForest, PTL

-----------------------------------------------------------------------------
(* The tables implement the dictionary                                     *)

\* Where a walk reads its leaf, for both granules.
LEMMA LastTableIs ==
    ASSUME NEW va
    PROVE  LastTable(va) = IF levels = 3 THEN Depth2(va) ELSE Depth3(va)
  BY DEF LastTable, Depth1, Depth2, Depth3

\* The last table of a walk depends on the tables above it only.
LEMMA SameLastTable ==
    ASSUME Inv, NEW va \in VirtualPages, Len(va.path) = levels, levels' = levels,
           \A p \in Pages, i \in Indices : tables'[p][i].to = tables[p][i].to
    PROVE  LastTable(va)' = LastTable(va)
  <1>1. Depth2(va)' = Depth2(va) /\ Depth3(va)' = Depth3(va)
    BY SameLinks
  <1>2. /\ LastTable(va) = IF levels = 3 THEN Depth2(va) ELSE Depth3(va)
        /\ LastTable(va)' = IF levels' = 3 THEN Depth2(va)' ELSE Depth3(va)'
    BY DEF LastTable, Depth1, Depth2, Depth3
  <1>3. QED
    BY <1>1, <1>2

\* Where a walk that ends somewhere reads its leaf.
LEMMA LastEntry ==
    ASSUME Inv, NEW va \in VirtualPages, Len(va.path) = levels
    PROVE  /\ LastTable(va) # Nowhere => LastTable(va) \in Pages
           /\ LastTable(va) \in {Nowhere} \cup 2..(nextPage - 1)
           /\ va.path[levels] \in Indices
  <1>1. LastTable(va) \in {Nowhere} \cup 2..(nextPage - 1)
    BY WalkTyped DEF Inv
  <1>2. nextPage \in Nat /\ size \in Nat /\ nextPage <= size
    BY DEF Inv, Types
  <1>3. LastTable(va) # Nowhere => LastTable(va) \in Pages
    BY <1>1, <1>2 DEF Pages
  <1>4. QED
    BY <1>1, <1>3, PathIndices DEF Inv, Types

Reached == {Nowhere} \cup 0..(nextPage - 1)

\* Two steps to one page are one step.
LEMMA StepInjective ==
    ASSUME Inv, NEW p \in Reached, NEW q \in Reached,
           NEW i \in Indices, NEW j \in Indices,
           StepTo(p, i) = StepTo(q, j), StepTo(p, i) # Nowhere
    PROVE  p = q /\ i = j /\ p # Nowhere
  <1>1. p # Nowhere /\ q # Nowhere
    BY DEF StepTo
  <1>2. nextPage \in Nat /\ size \in Nat /\ nextPage <= size
    BY DEF Inv, Types
  <1>3. p \in Pages /\ q \in Pages
    BY <1>1, <1>2 DEF Pages, Reached
  <1>4. tables[p][i].to = tables[q][j].to /\ tables[p][i].to # Nowhere
    BY <1>1 DEF StepTo
  <1>5. QED
    BY <1>1, <1>3, <1>4 DEF Inv, OneParent

\* Two addresses whose walks end in one entry are one address.
LEMMA WalkInjective ==
    ASSUME Inv, NEW a \in VirtualPages, Len(a.path) = levels,
           NEW b \in VirtualPages, Len(b.path) = levels,
           LastTable(a) = LastTable(b), LastTable(a) # Nowhere,
           a.path[levels] = b.path[levels]
    PROVE  a = b
  <1>1. /\ a.root \in Roots /\ b.root \in Roots
        /\ a.path[1] \in Indices /\ a.path[2] \in Indices /\ a.path[3] \in Indices
        /\ b.path[1] \in Indices /\ b.path[2] \in Indices /\ b.path[3] \in Indices
    BY PathIndices DEF Inv, Types
  <1>2. \A n \in {Nowhere} \cup 2..(nextPage - 1) : n \in Reached
    BY DEF Inv, Types, Reached
  <1>3. /\ a.root \in Reached
        /\ b.root \in Reached
    BY <1>1 DEF Inv, Types, Roots, Reached
  <1>4. /\ Depth1(a) \in Reached
        /\ Depth2(a) \in Reached
    BY <1>2, WalkTyped DEF Inv
  <1>5. /\ Depth1(b) \in Reached
        /\ Depth2(b) \in Reached
    BY <1>2, WalkTyped DEF Inv
  <1>6. Depth1(a) = Depth1(b) /\ Depth1(a) # Nowhere => a.root = b.root /\ a.path[1] = b.path[1]
    <2>1. SUFFICES ASSUME Depth1(a) = Depth1(b), Depth1(a) # Nowhere
                   PROVE  a.root = b.root /\ a.root # Nowhere /\ a.path[1] = b.path[1]
      OBVIOUS
    <2>2. PICK p \in Reached, q \in Reached,
               i \in Indices, j \in Indices :
             p = a.root /\ q = b.root /\ i = a.path[1] /\ j = b.path[1]
      BY <1>1, <1>3
    <2>3. StepTo(p, i) = StepTo(q, j) /\ StepTo(p, i) # Nowhere
      BY <2>1, <2>2 DEF Depth1
    <2>4. p = q /\ i = j /\ p # Nowhere
      BY <2>3, StepInjective
    <2>5. QED
      BY <2>2, <2>4
  <1>7. Depth2(a) = Depth2(b) /\ Depth2(a) # Nowhere =>
           Depth1(a) = Depth1(b) /\ Depth1(a) # Nowhere /\ a.path[2] = b.path[2]
    <2>1. SUFFICES ASSUME Depth2(a) = Depth2(b), Depth2(a) # Nowhere
                   PROVE  Depth1(a) = Depth1(b) /\ Depth1(a) # Nowhere /\ a.path[2] = b.path[2]
      OBVIOUS
    <2>2. PICK p \in Reached, q \in Reached,
               i \in Indices, j \in Indices :
             p = Depth1(a) /\ q = Depth1(b) /\ i = a.path[2] /\ j = b.path[2]
      BY <1>1, <1>4, <1>5
    <2>3. StepTo(p, i) = StepTo(q, j) /\ StepTo(p, i) # Nowhere
      BY <2>1, <2>2 DEF Depth2
    <2>4. p = q /\ i = j /\ p # Nowhere
      BY <2>3, StepInjective
    <2>5. QED
      BY <2>2, <2>4
  <1>8. Depth3(a) = Depth3(b) /\ Depth3(a) # Nowhere =>
           Depth2(a) = Depth2(b) /\ Depth2(a) # Nowhere /\ a.path[3] = b.path[3]
    <2>1. SUFFICES ASSUME Depth3(a) = Depth3(b), Depth3(a) # Nowhere
                   PROVE  Depth2(a) = Depth2(b) /\ Depth2(a) # Nowhere /\ a.path[3] = b.path[3]
      OBVIOUS
    <2>2. PICK p \in Reached, q \in Reached,
               i \in Indices, j \in Indices :
             p = Depth2(a) /\ q = Depth2(b) /\ i = a.path[3] /\ j = b.path[3]
      BY <1>1, <1>4, <1>5
    <2>3. StepTo(p, i) = StepTo(q, j) /\ StepTo(p, i) # Nowhere
      BY <2>1, <2>2 DEF Depth3
    <2>4. p = q /\ i = j /\ p # Nowhere
      BY <2>3, StepInjective
    <2>5. QED
      BY <2>2, <2>4
  <1>9. levels \in {3, 4}
    BY DEF Inv, Types, Granules
  <1>10. a.root = b.root /\ \A n \in 1..levels : a.path[n] = b.path[n]
    <2>1. CASE levels = 3
      <3>1. Depth2(a) = Depth2(b) /\ Depth2(a) # Nowhere
        BY <2>1, LastTableIs
      <3>2. QED
        BY <2>1, <3>1, <1>6, <1>7
    <2>2. CASE levels = 4
      <3>1. Depth3(a) = Depth3(b) /\ Depth3(a) # Nowhere
        BY <2>2, LastTableIs
      <3>2. QED
        BY <2>2, <3>1, <1>6, <1>7, <1>8
    <2>3. QED
      BY <1>9, <2>1, <2>2
  <1>11. a.path = b.path
    BY <1>10 DEF VirtualPages
  <1>12. QED
    BY <1>10, <1>11 DEF VirtualPages

\* A step that changes no link and no leaf maps nothing.
LEMMA FollowMapsNothing ==
    ASSUME Inv, Descend, Here # Zero, NEW va \in VirtualPages
    PROVE  LeafOf(va)' = LeafOf(va)
  <1>1. levels' = levels
    BY FollowEffect
  <1>2. CASE Len(va.path) # levels
    BY <1>1, <1>2 DEF LeafOf
  <1>3. CASE Len(va.path) = levels
    <2>1. \A p \in Pages, i \in Indices : tables'[p][i].to = tables[p][i].to
      BY FollowEffect
    <2>2. LastTable(va)' = LastTable(va)
      BY <1>1, <1>3, <2>1, SameLastTable
    <2>3. \A p \in Pages, i \in Indices : tables'[p][i].leaf = tables[p][i].leaf
      BY FollowEffect
    <2>4. QED
      BY <1>1, <1>3, <2>2, <2>3, LastEntry DEF LeafOf
  <1>4. QED
    BY <1>2, <1>3

\* How linking a page changes a walk: nowhere it led before it leads to the
\* new page, or not at all.
LEMMA LinkWalk ==
    ASSUME Inv, Descend, Here = Zero, NEW va \in VirtualPages, Len(va.path) = levels
    PROVE  \/ LastTable(va)' = LastTable(va)
           \/ LastTable(va) = Nowhere /\ LastTable(va)' = nextPage
  <1>1. /\ va.root \in Roots
        /\ va.path[1] \in Indices /\ va.path[2] \in Indices /\ va.path[3] \in Indices
    BY PathIndices DEF Inv, Types
  <1>2. \A n \in {Nowhere} \cup 2..(nextPage - 1) : n \in {Nowhere} \cup 0..(nextPage - 1)
    BY DEF Inv, Types
  <1>3. va.root \in {Nowhere} \cup 0..(nextPage - 1)
    BY <1>1 DEF Inv, Types, Roots
  <1>4. /\ Depth1(va) \in {Nowhere} \cup 0..(nextPage - 1)
        /\ Depth2(va) \in {Nowhere} \cup 0..(nextPage - 1)
    BY <1>2, WalkTyped DEF Inv
  <1>5. Depth1(va)' = Depth1(va) \/ (Depth1(va) = Nowhere /\ Depth1(va)' = nextPage)
    BY <1>1, <1>3, LinkStep DEF Depth1
  <1>6. Depth2(va)' = Depth2(va) \/ (Depth2(va) = Nowhere /\ Depth2(va)' = nextPage)
    <2>1. PICK p, q : p = Depth1(va) /\ q = Depth1(va)'
      OBVIOUS
    <2>2. p \in {Nowhere} \cup 0..(nextPage - 1) /\ (q = p \/ (p = Nowhere /\ q = nextPage))
      BY <1>4, <1>5, <2>1
    <2>3. \/ StepTo(q, va.path[2])' = StepTo(p, va.path[2])
          \/ StepTo(p, va.path[2]) = Nowhere /\ StepTo(q, va.path[2])' = nextPage
      BY <1>1, <2>2, LinkStep
    <2>4. QED
      BY <2>1, <2>3 DEF Depth2, StepTo
  <1>7. Depth3(va)' = Depth3(va) \/ (Depth3(va) = Nowhere /\ Depth3(va)' = nextPage)
    <2>1. PICK p, q : p = Depth2(va) /\ q = Depth2(va)'
      OBVIOUS
    <2>2. p \in {Nowhere} \cup 0..(nextPage - 1) /\ (q = p \/ (p = Nowhere /\ q = nextPage))
      BY <1>4, <1>6, <2>1
    <2>3. \/ StepTo(q, va.path[3])' = StepTo(p, va.path[3])
          \/ StepTo(p, va.path[3]) = Nowhere /\ StepTo(q, va.path[3])' = nextPage
      BY <1>1, <2>2, LinkStep
    <2>4. QED
      BY <2>1, <2>3 DEF Depth3, StepTo
  <1>8. levels' = levels
    BY LinkEffect
  <1>9. /\ LastTable(va) = IF levels = 3 THEN Depth2(va) ELSE Depth3(va)
        /\ LastTable(va)' = IF levels' = 3 THEN Depth2(va)' ELSE Depth3(va)'
    BY DEF LastTable, Depth1, Depth2, Depth3
  <1>10. QED
    BY <1>6, <1>7, <1>8, <1>9

\* A new page, linked on the way, maps nothing yet.
LEMMA LinkMapsNothing ==
    ASSUME Inv, Descend, Here = Zero, NEW va \in VirtualPages
    PROVE  LeafOf(va)' = LeafOf(va)
  <1>1. levels' = levels /\ nextPage \in Pages
    BY LinkEffect
  <1>2. CASE Len(va.path) # levels
    BY <1>1, <1>2 DEF LeafOf
  <1>3. CASE Len(va.path) = levels
    <2>1. \A p \in Pages, i \in Indices : tables'[p][i].leaf = tables[p][i].leaf
      BY LinkEffect
    <2>2. va.path[levels] \in Indices /\ (LastTable(va) # Nowhere => LastTable(va) \in Pages)
      BY <1>3, LastEntry
    <2>3. CASE LastTable(va)' = LastTable(va)
      BY <1>1, <1>3, <2>1, <2>2, <2>3 DEF LeafOf
    <2>4. CASE LastTable(va) = Nowhere /\ LastTable(va)' = nextPage
      <3>1. nextPage >= nextPage
        BY DEF Inv, Types
      <3>2. tables[nextPage][va.path[levels]] = Zero
        BY <1>1, <2>2, <3>1 DEF Inv, Fresh
      <3>3. tables'[nextPage][va.path[levels]].leaf = NoLeaf
        BY <1>1, <2>1, <2>2, <3>2 DEF Zero
      <3>4. QED
        BY <1>1, <1>3, <2>4, <3>3 DEF LeafOf
    <2>5. QED
      BY <1>3, <2>3, <2>4, LinkWalk
  <1>4. QED
    BY <1>2, <1>3

\* Writing a leaf maps the call's own address and no other.
LEMMA LeafMapsOne ==
    ASSUME Inv, WriteLeaf, NEW va \in VirtualPages
    PROVE  LeafOf(va)' = IF va = mapping.va THEN mapping.leaf ELSE LeafOf(va)
  <1>1. /\ levels' = levels /\ mapping.page # Nowhere /\ mapping.page = LastTable(mapping.va)
        /\ Len(mapping.va.path) = levels
    BY LeafEffect
  <1>2. CASE Len(va.path) # levels
    BY <1>1, <1>2 DEF LeafOf
  <1>3. CASE Len(va.path) = levels
    <2>1. \A p \in Pages, i \in Indices : tables'[p][i].to = tables[p][i].to
      BY LeafEffect
    <2>2. LastTable(va)' = LastTable(va)
      BY <1>1, <1>3, <2>1, SameLastTable
    <2>3. CASE LastTable(va) = Nowhere
      BY <1>1, <2>2, <2>3 DEF LeafOf
    <2>4. CASE LastTable(va) # Nowhere
      <3>1. LastTable(va) \in Pages /\ va.path[levels] \in Indices
        BY <1>3, <2>4, LastEntry
      <3>2. tables'[LastTable(va)][va.path[levels]] =
              IF LastTable(va) = mapping.page /\ va.path[levels] = mapping.va.path[levels]
              THEN Leaf(mapping.leaf) ELSE tables[LastTable(va)][va.path[levels]]
        BY <3>1, LeafEffect
      <3>3. LastTable(va) = mapping.page /\ va.path[levels] = mapping.va.path[levels]
              <=> va = mapping.va
        <4>1. mapping.va \in VirtualPages
          BY DEF Inv, Types, Mappings
        <4>2. QED
          BY <1>1, <1>3, <2>4, <4>1, WalkInjective
      <3>4. LeafOf(va)' = tables'[LastTable(va)][va.path[levels]].leaf
        BY <1>1, <1>3, <2>2, <2>4 DEF LeafOf
      <3>5. LeafOf(va) = tables[LastTable(va)][va.path[levels]].leaf
        BY <1>3, <2>4 DEF LeafOf
      <3>6. QED
        BY <3>2, <3>3, <3>4, <3>5 DEF Leaf
    <2>5. QED
      BY <2>3, <2>4
  <1>4. QED
    BY <1>2, <1>3

\* The dictionary, the call under way and the answer, as Space reads them.
Translations == [a \in Addresses |-> LeafOf(a)]
Underway == IF mapping.page = Nowhere THEN {} ELSE {[va |-> mapping.va, leaf |-> mapping.leaf]}

\* New tables map nothing.
LEMMA InitialSpace == CallerInit => Space!Init
  <1> SUFFICES ASSUME CallerInit PROVE Space!Init
    OBVIOUS
  <1>1. PICK l \in Granules, n \in Sizes : TablesInit(l, n)
    BY DEF CallerInit
  <1>2. Inv
    BY InitialTables
  <1>3. tables = [p \in Pages |-> [i \in Indices |-> Zero]]
    BY <1>1 DEF TablesInit, Pages
  <1>4. \A a \in Addresses : a \in VirtualPages
    BY TablesAssumption DEF VirtualPages
  <1>5. ASSUME NEW a \in Addresses PROVE LeafOf(a) = NoLeaf
    <2>1. CASE Len(a.path) # levels \/ LastTable(a) = Nowhere
      BY <2>1 DEF LeafOf
    <2>2. CASE Len(a.path) = levels /\ LastTable(a) # Nowhere
      <3>1. LastTable(a) \in Pages /\ a.path[levels] \in Indices
        BY <1>2, <1>4, <2>2, LastEntry
      <3>2. tables[LastTable(a)][a.path[levels]].leaf = NoLeaf
        BY <1>3, <3>1 DEF Zero
      <3>3. QED
        BY <2>2, <3>2 DEF LeafOf
    <2>3. QED
      BY <2>1, <2>2
  <1>6. mapping.page = Nowhere /\ mapped = "none"
    BY <1>1 DEF TablesInit, NoMapping
  <1>7. QED
    BY <1>5, <1>6 DEF Space!Init, Space!Empty

\* Every step of a builder is a step of the dictionary, or none.
LEMMA SpaceStep ==
    ASSUME Inv, [CallerNext]_tableVars
    PROVE  [Space!Next]_(Space!vars)
  <1>1. \A a \in Addresses : a \in VirtualPages
    BY TablesAssumption DEF VirtualPages
  <1>2. CASE WriteLeaf
    <2>1. mapping.page # Nowhere /\ mapping.va \in Addresses
      BY <1>2, LeafEffect
    <2>2. mapping'.page = Nowhere /\ mapped' = "OK"
      BY <1>2, LeafEffect DEF NoMapping
    <2>3. \A a \in Addresses :
             LeafOf(a)' = IF a = mapping.va THEN mapping.leaf ELSE LeafOf(a)
      BY <1>1, <1>2, LeafMapsOne
    <2>4. Translations' = [Translations EXCEPT ![mapping.va] = mapping.leaf]
      BY <2>1, <2>3 DEF Translations
    <2>5. [va |-> mapping.va, leaf |-> mapping.leaf] \in Underway /\ Underway' = {}
      BY <2>1, <2>2 DEF Underway
    <2>6. \E q \in Underway : Translations' = [Translations EXCEPT ![q.va] = q.leaf]
      BY <2>4, <2>5
    <2>7. Space!Succeed
      BY <2>2, <2>5, <2>6 DEF Space!Succeed, Translations, Underway
    <2>8. QED
      BY <2>7 DEF Space!Next
  <1>3. CASE MapFails
    <2>1. mapping.page # Nowhere /\ mapping'.page = Nowhere /\ mapped' = "OUT_OF_RESOURCES"
      BY <1>3, FailKeeps DEF MapFails, Returns, NoMapping
    <2>2. levels' = levels /\ tables' = tables
      BY <1>3 DEF MapFails
    <2>3. Translations' = Translations
      BY <2>2 DEF Translations, LeafOf, LastTable, StepTo
    <2>4. Underway # {} /\ Underway' = {}
      BY <2>1 DEF Underway
    <2>5. Space!RunOut
      BY <2>1, <2>3, <2>4 DEF Space!RunOut, Translations, Underway
    <2>6. QED
      BY <2>5 DEF Space!Next
  <1>4. CASE Descend
    <2>1. \A a \in Addresses : LeafOf(a)' = LeafOf(a)
      BY <1>1, <1>4, FollowMapsNothing, LinkMapsNothing
    <2>2. Translations' = Translations
      BY <2>1 DEF Translations
    <2>3. /\ mapping.page # Nowhere /\ mapping'.page # Nowhere /\ mapped' = mapped
          /\ mapping'.va = mapping.va /\ mapping'.leaf = mapping.leaf
      <3>1. mapping \in Mappings /\ nextPage # Nowhere
        BY DEF Inv, Types, Nowhere
      <3>2. PICK to : /\ mapping' = [mapping EXCEPT !.page = to, !.level = mapping.level + 1]
                      /\ to # Nowhere
        BY <1>4, <3>1, FollowEffect, LinkEffect
      <3>3. mapping.page # Nowhere /\ mapped' = mapped
        BY <1>4 DEF Descend
      <3>4. QED
        BY <3>1, <3>2, <3>3 DEF Mappings
    <2>4. Underway' = Underway
      BY <2>3 DEF Underway
    <2>5. UNCHANGED Space!vars
      BY <2>2, <2>3, <2>4 DEF Space!vars, Translations, Underway
    <2>6. QED
      BY <2>5
  <1>5. CASE \E q \in Calls : MapBegin(q)
    <2>1. PICK q \in Calls : MapBegin(q)
      BY <1>5
    <2>2. /\ q.va \in Addresses /\ q.va \in VirtualPages /\ q.leaf \in Leaves \cup {NoLeaf}
      BY <1>1, TablesAssumption
    <2>3. /\ mapping.page = Nowhere /\ mapped' = "none"
          /\ levels' = levels /\ tables' = tables
          /\ mapping'.va = q.va /\ mapping'.leaf = q.leaf /\ mapping'.page = q.va.root
      BY <2>1 DEF MapBegin
    <2>4. mapping'.page # Nowhere
      BY <2>2, <2>3 DEF VirtualPages, Roots, Nowhere
    <2>5. Translations' = Translations
      BY <2>3 DEF Translations, LeafOf, LastTable, StepTo
    <2>6. Underway = {} /\ Underway' = {[va |-> q.va, leaf |-> q.leaf]}
      BY <2>3, <2>4 DEF Underway
    <2>7. Space!Begin(q.va, q.leaf)
      BY <2>3, <2>5, <2>6 DEF Space!Begin, Translations, Underway
    <2>8. \E r \in Underway' : /\ r.va \in Addresses /\ r.leaf \in Leaves \cup {NoLeaf}
                               /\ Space!Begin(r.va, r.leaf)
      BY <2>2, <2>6, <2>7
    <2>9. QED
      BY <2>8 DEF Space!Next, Underway
  <1>6. CASE UNCHANGED tableVars
    <2>1. levels' = levels /\ tables' = tables /\ mapping' = mapping /\ mapped' = mapped
      BY <1>6 DEF tableVars
    <2>2. Translations' = Translations /\ Underway' = Underway
      BY <2>1 DEF Translations, Underway, LeafOf, LastTable, StepTo
    <2>3. QED
      BY <2>1, <2>2 DEF Space!vars, Translations, Underway
  <1>7. QED
    BY <1>2, <1>3, <1>4, <1>5, <1>6 DEF CallerNext, MapStep

\* For every set of addresses, leaves and calls and every size of its buffer
\* the page-table builder is a dictionary: a call that succeeds has set the
\* translation of its own page and of no other, one that runs out of pages
\* half-way has changed none, and the bounds check never fires (Tables::map).
THEOREM BuilderImplementsSpace == CallerSpec => TablesAreAMap
  <1>1. CallerInit => Space!Init
    BY InitialSpace
  <1>2. Inv /\ [CallerNext]_tableVars => [Space!Next]_(Space!vars)
    BY SpaceStep
  <1>3. QED
    BY <1>1, <1>2, TablesAreAForest, PTL DEF CallerSpec, TablesAreAMap, Space!Spec

-----------------------------------------------------------------------------
(* NXHAL: the inductive invariant                                          *)

Lines == [kind : {"TABLE", "HDR_READ", "LEN_CAP", "BODY_READ"}, addr : Nat, len : Nat]
PciSlots == [dev : 0..(Devices - 1), func : 0..(Functions - 1)]

\* What phys_copy can return.
CopyStatus ==
    {"OK", "NOT_FOUND", "BAD_BUFFER_SIZE", "INVALID_PARAMETER", "OUT_OF_RESOURCES", "ACCESS_DENIED"}

\* The steps that follow a root's acceptance, and those with both first lines.
EntrySteps == {"header", "table"}
HalSteps ==
    {"start", "guards", "config", "head", "extended", "full", "dump", "root", "body", "header",
     "table", "pci", "halt"}

HalTypes ==
    /\ bios \in Firmwares /\ halStep \in HalSteps
    /\ guard \in 1..5
    /\ report \in Seq(Lines)
    /\ nextEntry \in Nat /\ 1 <= nextEntry
    /\ nextSlot \in Nat /\ nextSlot <= Devices * Functions
    /\ pciFound \in Seq(PciSlots)
    /\ lastRead.map \in bios.maps \cup {NoMap}
    /\ halStep = "halt" <=> exitCode # "none"

\* The root that run accepted: as many entries as it reads.
RootAccepted ==
    /\ Root.sig \in {"XSDT", "RSDT"} /\ Root.len \in Nat /\ 36 <= Root.len
    /\ Count \in 1..MaxTables

\* The line that stands for entry i.
LineOf(line, i) ==
    /\ line.addr = Root.entries[i]
    /\ line.kind = "TABLE" => line.len = TableAt(line.addr).len
    /\ WellFormed(line.addr) => line.kind = "TABLE"

\* The report when run is about to read entry n.
ReportUpTo(n) ==
    /\ Len(report) = n + 1
    /\ report[1].addr = RsdpAddress /\ report[2].addr = RootAddress
    /\ \A i \in 1..(n - 1) : LineOf(report[i + 2], i)

\* The functions of bus 0 before the n-th.
Before(n) == {s \in bios.pci : s.dev * Functions + s.func < n}

ScannedSlots ==
    /\ Len(pciFound) = Cardinality(Before(nextSlot))
    /\ {pciFound[i] : i \in DOMAIN pciFound} = Before(nextSlot)

ReportByStep ==
    /\ halStep \in {"start", "guards", "config", "head", "extended", "full", "dump"} =>
          report = <<>>
    /\ halStep \in {"root", "body"} => Len(report) = 1 /\ report[1].addr = RsdpAddress
    /\ halStep \in HalSteps \ {"pci", "halt"} => nextSlot = 0 /\ pciFound = <<>>
    /\ halStep \in HalSteps \ {"header", "table", "pci", "halt"} => nextEntry = 1
    /\ halStep = "body" =>
          Root.len \in 36..MaxXsdtBytes /\ Root.sig \in {"XSDT", "RSDT"}
    /\ halStep \in EntrySteps => RootAccepted /\ nextEntry <= Count /\ ReportUpTo(nextEntry)
    /\ halStep = "table" => EntryAddress # 0 /\ ~LengthCapped(TableAt(EntryAddress).len)
    /\ halStep = "pci" =>
          /\ RootAccepted /\ nextEntry = Count + 1 /\ ReportUpTo(Count + 1)
          /\ nextSlot < Devices * Functions /\ ScannedSlots
    /\ exitCode = "DONE" =>
          RootAccepted /\ ReportUpTo(Count + 1) /\ nextSlot = Devices * Functions /\ ScannedSlots

HalInv == HalTypes /\ ReportByStep /\ ReadIsAcpi

-----------------------------------------------------------------------------
(* Lemmas about the operators                                              *)

\* A non-empty set of positions has a largest one, so Vendor's choice is
\* defined.
LEMMA HasLargest ==
    ASSUME NEW n \in Nat, NEW S \in SUBSET (1..n), S # {}
    PROVE  \E i \in S : \A j \in S : j <= i
<1> DEFINE T == {n - i : i \in S}
<1>1. T \subseteq Nat /\ T # {}
  <2>1. \A i \in S : n - i \in Nat
    OBVIOUS
  <2> QED
    BY <2>1
<1>2. PICK x \in T : \A y \in T : ~(<<y, x>> \in OpToRel(<, Nat))
  BY <1>1, WFMin, NatLessThanWellFounded
<1>3. \A y \in T : ~(y < x)
  BY <1>1, <1>2 DEF OpToRel
<1>4. PICK i \in S : x = n - i
  OBVIOUS
<1>5. ASSUME NEW j \in S PROVE j <= i
  BY <1>3, <1>4
<1> QED
  BY <1>4, <1>5

\* The address of a configuration entry is a number.
LEMMA VendorIsNat ==
    ASSUME bios \in Firmwares, NEW guid
    PROVE  Vendor(guid) \in Nat
<1> DEFINE of == {i \in DOMAIN bios.config : bios.config[i].guid = guid}
<1>1. bios.config \in Seq([guid : STRING, table : Nat])
  BY FirmwareAssumption
<1>2. CASE of = {}
  BY <1>2 DEF Vendor
<1>3. CASE of # {}
  <2>1. Len(bios.config) \in Nat /\ of \in SUBSET (1..Len(bios.config))
    BY <1>1
  <2>2. \E i \in of : \A j \in of : j <= i
    BY <1>3, <2>1, HasLargest
  <2> DEFINE latest == CHOOSE i \in of : \A j \in of : j <= i
  <2>3. latest \in of
    BY <2>2
  <2>4. Vendor(guid) = bios.config[latest].table
    BY <1>3, Zenon DEF Vendor
  <2> HIDE DEF latest, of
  <2>5. latest \in 1..Len(bios.config)
    BY <2>1, <2>3
  <2>6. bios.config[latest] \in [guid : STRING, table : Nat]
    BY <1>1, <2>5, ElementOfSeq
  <2> QED
    BY <2>4, <2>6
<1> QED
  BY <1>2, <1>3

\* So are the addresses and lengths that run takes from it.
LEMMA AddressesAreNat ==
    ASSUME bios \in Firmwares
    PROVE  RsdpAddress \in Nat /\ RootAddress \in Nat /\ RsdpLength \in Nat
<1>1. RsdpAddress \in Nat
  BY VendorIsNat DEF RsdpAddress
<1>2. {bios.rsdp.rsdt, bios.rsdp.xsdt, bios.rsdp.len} \subseteq Nat
  BY FirmwareAssumption
<1> QED
  BY <1>1, <1>2 DEF RootAddress, Xsdt, RsdpLength

\* What phys_copy accepts.
LEMMA CopyIsAcpi ==
    ASSUME NEW p \in Nat, NEW n \in Nat, NEW m, PhysCopy(p, n, m) = "OK",
           \A d \in m : {d.start, d.pages} \subseteq Nat
    PROVE  /\ n \in 1..MaxTableBytes
           /\ \A a \in p..(p + n - 1) :
                 /\ a \in 1..(LowMemory - 1)
                 /\ \E d \in m :
                       /\ d.type \in {"ACPI_RECLAIM", "ACPI_NON_VOLATILE"}
                       /\ a \in d.start..(d.start + d.pages * PageBytes - 1)
<1>1. /\ p # 0 /\ n # 0 /\ ~(n > MaxTableBytes)
      /\ ~(p + n > LowMemory) /\ Covered(m, p, p + n)
  BY DEF PhysCopy
<1>2. PICK d \in m : d.type \in {"ACPI_RECLAIM", "ACPI_NON_VOLATILE"} /\ Inside(d, p, p + n)
  BY <1>1 DEF Covered
<1>3. PICK bytes \in Nat : bytes = d.pages * PageBytes
  BY HalAssumption
<1>4. p >= d.start /\ p + n <= d.start + bytes
  BY <1>2, <1>3 DEF Inside
<1>5. n \in 1..MaxTableBytes
  BY <1>1, HalAssumption
<1>6. ASSUME NEW a \in p..(p + n - 1)
      PROVE  a \in 1..(LowMemory - 1) /\ a \in d.start..(d.start + bytes - 1)
  <2>1. d.start \in Nat /\ LowMemory \in Nat
    BY HalAssumption
  <2> QED
    BY <1>1, <1>4, <2>1
<1> QED
  BY <1>2, <1>3, <1>5, <1>6

\* What it returns.
LEMMA CopyReturns == ASSUME NEW p, NEW n, NEW m PROVE PhysCopy(p, n, m) \in CopyStatus
  BY DEF PhysCopy, CopyStatus

\* A table that can be read whole has a header that can be read.
LEMMA CopyPrefix ==
    ASSUME NEW p \in Nat, NEW n \in Nat, NEW k \in Nat, 1 <= k, k <= n, NEW m,
           PhysCopy(p, n, m) = "OK", \A d \in m : {d.start, d.pages} \subseteq Nat
    PROVE  PhysCopy(p, k, m) = "OK"
<1>1. /\ p # 0 /\ n # 0 /\ ~(n > MaxTableBytes) /\ ~(p + n >= AddressEnd)
      /\ ~(p + n > LowMemory) /\ m # NoMap /\ Covered(m, p, p + n)
  BY DEF PhysCopy
<1>2. PICK d \in m : d.type \in {"ACPI_RECLAIM", "ACPI_NON_VOLATILE"} /\ Inside(d, p, p + n)
  BY <1>1 DEF Covered
<1>3. PICK bytes \in Nat : bytes = d.pages * PageBytes
  BY HalAssumption
<1>4. Inside(d, p, p + k)
  BY <1>2, <1>3 DEF Inside
<1>5. Covered(m, p, p + k)
  BY <1>2, <1>4 DEF Covered
<1>6. k # 0 /\ ~(k > MaxTableBytes) /\ ~(p + k >= AddressEnd) /\ ~(p + k > LowMemory)
  BY <1>1, HalAssumption
<1> QED
  BY <1>1, <1>5, <1>6 DEF PhysCopy

\* One call of phys_copy keeps ReadIsAcpi.
LEMMA ReadsAcpi ==
    ASSUME NEW p \in Nat, NEW n \in Nat, bios \in Firmwares, Reads(p, n)
    PROVE  ReadIsAcpi' /\ lastRead'.map \in bios.maps
<1>1. PICK m \in bios.maps :
         lastRead' = [phys |-> p, len |-> n, map |-> m, status |-> PhysCopy(p, n, m)]
  BY DEF Reads
<1>2. CASE PhysCopy(p, n, m) = "OK"
  <2>1. m # NoMap
    BY <1>2 DEF PhysCopy
  <2>2. \A d \in m : {d.start, d.pages} \subseteq Nat
    BY <2>1, FirmwareAssumption
  <2>3. /\ n \in 1..MaxTableBytes
        /\ \A a \in p..(p + n - 1) :
              /\ a \in 1..(LowMemory - 1)
              /\ \E d \in m :
                    /\ d.type \in {"ACPI_RECLAIM", "ACPI_NON_VOLATILE"}
                    /\ a \in d.start..(d.start + d.pages * PageBytes - 1)
    BY <1>2, <2>2, CopyIsAcpi
  <2> QED
    BY <1>1, <2>3 DEF ReadIsAcpi
<1>3. CASE PhysCopy(p, n, m) # "OK"
  BY <1>1, <1>3 DEF ReadIsAcpi
<1> QED
  BY <1>1, <1>2, <1>3

\* The five tests of the read guard use numbers.
LEMMA GuardTestsNat ==
    ASSUME NEW g \in 1..5
    PROVE  GuardTests[g].phys \in Nat /\ GuardTests[g].len \in Nat
<1>1. /\ AddressEnd - 1 \in Nat /\ LowMemory - 1 \in Nat /\ Screen \in Nat
      /\ MaxTableBytes + 1 \in Nat
  BY HalAssumption DEF Screen
<1>2. g = 1 \/ g = 2 \/ g = 3 \/ g = 4 \/ g = 5
  OBVIOUS
<1> QED
  BY <1>1, <1>2 DEF GuardTests

\* A length field is a number; so is every entry of an accepted root.
LEMMA TableLength == ASSUME bios \in Firmwares, NEW a PROVE TableAt(a).len \in Nat
  BY FirmwareAssumption DEF TableAt, Blank

\* Every entry that run reads of an accepted root is a number.
LEMMA RootEntries ==
    ASSUME bios \in Firmwares, RootAccepted, NEW i \in 1..Count
    PROVE  Root.entries[i] \in Nat
<1>1. RootAddress \in DOMAIN bios.tables /\ Root = bios.tables[RootAddress]
  BY DEF RootAccepted, Root, TableAt, Blank
<1>2. i \in 1..MaxTables
  BY HalAssumption DEF RootAccepted
<1>3. \/ Root.sig = "XSDT" /\ 36 + 8 * i <= Root.len
      \/ Root.sig = "RSDT" /\ 36 + 4 * i <= Root.len
  <2>1. CASE Root.sig = "XSDT"
    <3>1. Count = (Root.len - 36) \div 8
      BY <2>1 DEF Count, EntrySize
    <3> QED
      BY <2>1, <3>1 DEF RootAccepted
  <2>2. CASE Root.sig = "RSDT"
    <3>1. Count = (Root.len - 36) \div 4
      BY <2>2 DEF Count, EntrySize
    <3> QED
      BY <2>2, <3>1 DEF RootAccepted
  <2> QED
    BY <2>1, <2>2 DEF RootAccepted
<1>4. Root.entries \in Seq(Nat) /\ i \in DOMAIN Root.entries
  BY <1>1, <1>2, <1>3, FirmwareAssumption
<1> QED
  BY <1>4

\* Every step leaves the firmware alone and copies ACPI memory only.
LEMMA ReadStep ==
    ASSUME HalInv, [HalNext]_halVars
    PROVE  bios' = bios /\ ReadIsAcpi' /\ lastRead'.map \in bios.maps \cup {NoMap}
<1> USE DEF HalInv, HalTypes
<1>1. CASE UNCHANGED halVars
  BY <1>1 DEF halVars, ReadIsAcpi
<1>2. ASSUME UNCHANGED <<bios, lastRead>>
      PROVE  bios' = bios /\ ReadIsAcpi' /\ lastRead'.map \in bios.maps \cup {NoMap}
  BY <1>2 DEF ReadIsAcpi
<1>3. ASSUME bios' = bios, \E p, n \in Nat : Reads(p, n)
      PROVE  bios' = bios /\ ReadIsAcpi' /\ lastRead'.map \in bios.maps \cup {NoMap}
  BY <1>3, ReadsAcpi
<1>4. CASE StartHal \/ FindRsdp \/ ScanFunction
  BY <1>2, <1>4 DEF StartHal, FindRsdp, ScanFunction
<1>5. CASE TestGuard
  <2>1. PICK p \in Nat, n \in Nat : p = GuardTests[guard].phys /\ n = GuardTests[guard].len
    BY GuardTestsNat
  <2>2. Reads(p, n)
    BY <1>5, <2>1 DEF TestGuard, Reads
  <2> QED
    BY <1>3, <1>5, <2>2 DEF TestGuard
<1>6. CASE ReadHead \/ ReadExtended \/ ReadFull \/ DumpRsdp
  <2>1. PICK p \in Nat, l \in Nat, k \in Nat :
           p = RsdpAddress /\ l = bios.rsdp.len /\ k = RsdpLength
    BY AddressesAreNat, FirmwareAssumption
  <2>2. Reads(p, 20) \/ Reads(p, 36) \/ Reads(p, l) \/ Reads(p, k)
    BY <1>6, <2>1 DEF ReadHead, ReadExtended, ReadFull, DumpRsdp, Reads
  <2>3. \E q, n \in Nat : Reads(q, n)
    BY <2>2
  <2> QED
    BY <1>3, <1>6, <2>3 DEF ReadHead, ReadExtended, ReadFull, DumpRsdp
<1>7. CASE ReadRoot \/ ReadBody
  <2>1. PICK p \in Nat, n \in Nat : p = RootAddress /\ n = Root.len
    BY AddressesAreNat, TableLength DEF Root
  <2>2. Reads(p, 36) \/ Reads(p, n)
    BY <1>7, <2>1 DEF ReadRoot, ReadBody, Reads
  <2>3. \E q, k \in Nat : Reads(q, k)
    BY <2>2
  <2> QED
    BY <1>3, <1>7, <2>3 DEF ReadRoot, ReadBody
<1>8. CASE ReadHeader \/ ReadTable
  <2>1. nextEntry \in 1..Count /\ RootAccepted
    <3>1. RootAccepted /\ nextEntry <= Count
      BY <1>8 DEF ReportByStep, EntrySteps, ReadHeader, ReadTable
    <3> QED
      BY <3>1 DEF RootAccepted
  <2>2. PICK p \in Nat, n \in Nat : p = EntryAddress /\ n = TableAt(EntryAddress).len
    BY <2>1, RootEntries, TableLength DEF EntryAddress
  <2>3. CASE Reads(p, 36) \/ Reads(p, n)
    <3>1. \E q, k \in Nat : Reads(q, k)
      BY <2>3
    <3> QED
      BY <1>3, <1>8, <3>1 DEF ReadHeader, ReadTable
  <2>4. CASE UNCHANGED <<bios, lastRead>>
    BY <1>2, <2>4
  <2> QED
    BY <1>8, <2>2, <2>3, <2>4 DEF ReadHeader, ReadTable, Reads
<1> QED
  BY <1>1, <1>4, <1>5, <1>6, <1>7, <1>8 DEF HalNext

\* The size of a bus.
LEMMA BusSize == Devices \in 1..32 /\ Functions \in 1..8
  BY HalAssumption

\* A position before the last function is a device's function.
LEMMA SlotRange ==
    ASSUME NEW n \in Nat, n < Devices * Functions
    PROVE  n \div Functions \in 0..(Devices - 1) /\ n % Functions \in 0..(Functions - 1)
<1>1. Devices \in Nat /\ Functions \in 1..8
  BY BusSize
<1>2. CASE Functions = 1
  BY <1>1, <1>2
<1>3. CASE Functions = 2
  BY <1>1, <1>3
<1>4. CASE Functions = 3
  BY <1>1, <1>4
<1>5. CASE Functions = 4
  BY <1>1, <1>5
<1>6. CASE Functions = 5
  BY <1>1, <1>6
<1>7. CASE Functions = 6
  BY <1>1, <1>7
<1>8. CASE Functions = 7
  BY <1>1, <1>8
<1>9. CASE Functions = 8
  BY <1>1, <1>9
<1> QED
  BY <1>1, <1>2, <1>3, <1>4, <1>5, <1>6, <1>7, <1>8, <1>9

\* The numbering of the functions is one to one.
LEMMA SlotOrder ==
    ASSUME NEW n \in Nat, NEW d \in Nat, NEW k \in 0..(Functions - 1)
    PROVE  d * Functions + k = n <=> d = n \div Functions /\ k = n % Functions
<1>1. Functions \in 1..8
  BY BusSize
<1>2. CASE Functions = 1
  BY <1>1, <1>2
<1>3. CASE Functions = 2
  BY <1>1, <1>3
<1>4. CASE Functions = 3
  BY <1>1, <1>4
<1>5. CASE Functions = 4
  BY <1>1, <1>5
<1>6. CASE Functions = 5
  BY <1>1, <1>6
<1>7. CASE Functions = 6
  BY <1>1, <1>7
<1>8. CASE Functions = 7
  BY <1>1, <1>8
<1>9. CASE Functions = 8
  BY <1>1, <1>9
<1> QED
  BY <1>1, <1>2, <1>3, <1>4, <1>5, <1>6, <1>7, <1>8, <1>9

\* Every function of bus 0 comes before the end of the scan.
LEMMA SlotBound ==
    ASSUME NEW d \in 0..(Devices - 1), NEW k \in 0..(Functions - 1)
    PROVE  d * Functions + k \in Nat /\ d * Functions + k < Devices * Functions
<1>1. Devices \in Nat /\ Functions \in 1..8
  BY BusSize
<1>2. CASE Functions = 1
  BY <1>1, <1>2
<1>3. CASE Functions = 2
  BY <1>1, <1>3
<1>4. CASE Functions = 3
  BY <1>1, <1>4
<1>5. CASE Functions = 4
  BY <1>1, <1>5
<1>6. CASE Functions = 5
  BY <1>1, <1>6
<1>7. CASE Functions = 6
  BY <1>1, <1>7
<1>8. CASE Functions = 7
  BY <1>1, <1>8
<1>9. CASE Functions = 8
  BY <1>1, <1>9
<1> QED
  BY <1>1, <1>2, <1>3, <1>4, <1>5, <1>6, <1>7, <1>8, <1>9

\* There is a function to look at.
LEMMA BusNotEmpty == 0 < Devices * Functions
<1>1. 0 \in 0..(Devices - 1) /\ 0 \in 0..(Functions - 1)
  BY BusSize
<1>2. Functions \in Nat
  BY BusSize
<1>3. 0 * Functions + 0 = 0
  BY <1>2
<1> QED
  BY <1>1, <1>3, SlotBound

\* The configuration address of a function selects that function.
LEMMA AddressSelects ==
    ASSUME NEW d \in 0..31, NEW k \in 0..7
    PROVE  Selected(ConfigAddress(d, k, 0)) = [dev |-> d, func |-> k]
<1>1. ConfigAddress(d, k, 0) = d * 2048 + k * 256
  BY DEF ConfigAddress
<1>2. ((d * 2048 + k * 256) \div 2048) % 32 = d /\ ((d * 2048 + k * 256) \div 256) % 8 = k
  OBVIOUS
<1> QED
  BY <1>1, <1>2 DEF Selected

\* What a turn of the scan does.
LEMMA ScanEffect ==
    ASSUME HalInv, ScanFunction
    PROVE  /\ Slot \in PciSlots
           /\ pciFound' = IF Slot \in bios.pci THEN Append(pciFound, Slot) ELSE pciFound
           /\ nextSlot' = nextSlot + 1 /\ nextSlot < Devices * Functions
           /\ Slot = [dev |-> nextSlot \div Functions, func |-> nextSlot % Functions]
<1>1. nextSlot \in Nat /\ nextSlot < Devices * Functions
  BY DEF HalInv, HalTypes, ReportByStep, ScanFunction
<1>2. PICK d \in 0..(Devices - 1), k \in 0..(Functions - 1) :
         d = nextSlot \div Functions /\ k = nextSlot % Functions
  BY <1>1, SlotRange
<1>3. Slot = [dev |-> d, func |-> k]
  BY <1>2 DEF Slot
<1>4. d \in 0..31 /\ k \in 0..7
  BY HalAssumption
<1>5. Selected(ConfigAddress(Slot.dev, Slot.func, 0)) = Slot
  BY <1>3, <1>4, AddressSelects
<1> QED
  BY <1>1, <1>2, <1>3, <1>5 DEF ScanFunction, Present, PciSlots

-----------------------------------------------------------------------------
(* Types and the report, step by step.                                     *)

\* What a turn of the loop over the root's entries does: it stops the run,
\* goes on to the table, or adds the entry's line.
LEMMA EntryEffect ==
    ASSUME HalInv, ReadHeader \/ ReadTable
    PROVE  \/ /\ UNCHANGED <<report, nextEntry>>
              /\ halStep' = "halt" /\ exitCode' = "COMPROMISED_DATA"
           \/ /\ UNCHANGED <<report, nextEntry, exitCode>> /\ halStep' = "table"
              /\ EntryAddress # 0 /\ ~LengthCapped(TableAt(EntryAddress).len)
           \/ /\ \E line \in Lines : LineOf(line, nextEntry) /\ report' = Append(report, line)
              /\ nextEntry' = nextEntry + 1 /\ UNCHANGED exitCode
              /\ halStep' = IF nextEntry = Count THEN "pci" ELSE "header"
<1>1. RootAccepted /\ nextEntry \in 1..Count /\ bios \in Firmwares
  <2>1. RootAccepted /\ nextEntry <= Count /\ nextEntry \in Nat /\ 1 <= nextEntry
    BY DEF HalInv, HalTypes, ReportByStep, EntrySteps, ReadHeader, ReadTable
  <2> QED
    BY <2>1 DEF RootAccepted, HalInv, HalTypes
<1>2. PICK a \in Nat, n \in Nat :
         a = EntryAddress /\ n = TableAt(EntryAddress).len /\ a = Root.entries[nextEntry]
  BY <1>1, RootEntries, TableLength DEF EntryAddress
<1> DEFINE Skip(k) == Line(k, a, 0)
           Whole == Line("TABLE", a, n)
<1>3. /\ \A k \in {"HDR_READ", "LEN_CAP", "BODY_READ"} : Skip(k) \in Lines
      /\ Whole \in Lines
  BY DEF Line, Lines
<1>4. LineOf(Whole, nextEntry)
  BY <1>2 DEF LineOf, Line
<1>5. ASSUME ~WellFormed(a), NEW k \in {"HDR_READ", "LEN_CAP", "BODY_READ"}
      PROVE  LineOf(Skip(k), nextEntry)
  BY <1>2, <1>5 DEF LineOf, Line
<1>6. ASSUME WellFormed(a), NEW m \in bios.maps
      PROVE  n \in 36..MaxTableBytes /\ PhysCopy(a, n, m) = "OK" /\ PhysCopy(a, 36, m) = "OK"
  <2>1. n \in 36..MaxTableBytes /\ PhysCopy(a, n, m) = "OK"
    BY <1>2, <1>6 DEF WellFormed, Readable
  <2>2. m # NoMap
    BY <2>1 DEF PhysCopy
  <2>3. \A d \in m : {d.start, d.pages} \subseteq Nat
    BY <1>1, <2>2, FirmwareAssumption
  <2>4. PhysCopy(a, 36, m) = "OK"
    BY <2>1, <2>3, CopyPrefix
  <2> QED
    BY <2>1, <2>4
<1>7. ASSUME NEW line \in Lines, LineOf(line, nextEntry), report' = Append(report, line),
             nextEntry' = nextEntry + 1, Go(IF nextEntry = Count THEN "pci" ELSE "header")
      PROVE  /\ \E ll \in Lines : LineOf(ll, nextEntry) /\ report' = Append(report, ll)
             /\ nextEntry' = nextEntry + 1 /\ UNCHANGED exitCode
             /\ halStep' = IF nextEntry = Count THEN "pci" ELSE "header"
  BY <1>7 DEF Go
<1> HIDE DEF Skip, Whole
<1>8. CASE ReadHeader
  <2>1. CASE EntryAddress = 0
    BY <1>8, <2>1 DEF ReadHeader, Exit
  <2>2. CASE EntryAddress # 0
    <3>1. PICK m \in bios.maps : lastRead'.status = PhysCopy(a, 36, m)
      BY <1>2, <1>8, <2>2 DEF ReadHeader, Reads
    <3>2. CASE lastRead'.status # "OK"
      <4>1. LineOf(Skip("HDR_READ"), nextEntry)
        BY <1>5, <1>6, <3>1, <3>2
      <4>2. EntryDone("HDR_READ", 0)
        BY <1>8, <2>2, <3>2 DEF ReadHeader
      <4> QED
        BY <1>2, <1>3, <1>7, <4>1, <4>2 DEF EntryDone, Skip
    <3>3. CASE lastRead'.status = "OK" /\ LengthCapped(n)
      <4>1. LineOf(Skip("LEN_CAP"), nextEntry)
        <5>1. ~WellFormed(a)
          BY <1>2, <3>3, HalAssumption DEF WellFormed, LengthCapped
        <5> QED
          BY <1>5, <5>1
      <4>2. EntryDone("LEN_CAP", 0)
        BY <1>2, <1>8, <2>2, <3>3 DEF ReadHeader
      <4> QED
        BY <1>2, <1>3, <1>7, <4>1, <4>2 DEF EntryDone, Skip
    <3>4. CASE lastRead'.status = "OK" /\ ~LengthCapped(n)
      BY <1>2, <1>8, <2>2, <3>4 DEF ReadHeader, Go
    <3> QED
      BY <3>2, <3>3, <3>4
  <2> QED
    BY <2>1, <2>2
<1>9. CASE ReadTable
  <2>1. PICK m \in bios.maps : lastRead'.status = PhysCopy(a, n, m)
    BY <1>2, <1>9 DEF ReadTable, Reads
  <2>2. CASE lastRead'.status # "OK"
    <3>1. LineOf(Skip("BODY_READ"), nextEntry)
      BY <1>5, <1>6, <2>1, <2>2
    <3>2. EntryDone("BODY_READ", 0)
      BY <1>9, <2>2 DEF ReadTable
    <3> QED
      BY <1>2, <1>3, <1>7, <3>1, <3>2 DEF EntryDone, Skip
  <2>3. CASE lastRead'.status = "OK"
    <3>1. EntryDone("TABLE", n)
      BY <1>2, <1>9, <2>3 DEF ReadTable
    <3> QED
      BY <1>2, <1>3, <1>4, <1>7, <3>1 DEF EntryDone, Whole
  <2> QED
    BY <2>2, <2>3
<1> QED
  BY <1>8, <1>9

\* The types.
LEMMA HalTypesStep ==
    ASSUME HalInv, [HalNext]_halVars
    PROVE  HalTypes'
<1> USE DEF HalInv, HalTypes, HalSteps, Go, Exit, Then
<1>0. bios' = bios /\ lastRead'.map \in bios'.maps \cup {NoMap}
  BY ReadStep
<1>1. CASE UNCHANGED halVars
  BY <1>1 DEF halVars
<1>2. CASE StartHal
  BY <1>0, <1>2 DEF StartHal
<1>3. CASE TestGuard
  BY <1>0, <1>3 DEF TestGuard, GuardTests
<1>4. CASE FindRsdp
  BY <1>0, <1>4 DEF FindRsdp
<1>5. CASE ReadHead \/ ReadExtended \/ ReadFull
  <2>1. lastRead'.status \in CopyStatus
    <3>1. \/ Reads(RsdpAddress, 20) \/ Reads(RsdpAddress, 36) \/ Reads(RsdpAddress, bios.rsdp.len)
      BY <1>5 DEF ReadHead, ReadExtended, ReadFull
    <3>2. \E p, n, m : lastRead'.status = PhysCopy(p, n, m)
      BY <3>1 DEF Reads
    <3> QED
      BY <3>2, CopyReturns
  <2> QED
    BY <1>0, <1>5, <2>1 DEF ReadHead, ReadExtended, ReadFull, CopyStatus
<1>6. CASE DumpRsdp
  <2>1. Line("TABLE", RsdpAddress, RsdpLength) \in Lines
    BY AddressesAreNat DEF Line, Lines
  <2>2. report' \in Seq(Lines)
    BY <1>6, <2>1 DEF DumpRsdp
  <2>3. lastRead'.status \in CopyStatus
    BY <1>6, CopyReturns DEF DumpRsdp, Reads
  <2> QED
    BY <1>0, <1>6, <2>2, <2>3 DEF DumpRsdp, CopyStatus
<1>7. CASE ReadRoot
  <2>1. lastRead'.status \in CopyStatus
    BY <1>7, CopyReturns DEF ReadRoot, Reads
  <2> QED
    BY <1>0, <1>7, <2>1 DEF ReadRoot, CopyStatus
<1>8. CASE ReadBody
  <2>1. Line("TABLE", RootAddress, Root.len) \in Lines
    BY AddressesAreNat, TableLength DEF Line, Lines, Root
  <2>2. report' \in Seq(Lines)
    BY <1>8, <2>1 DEF ReadBody
  <2>3. lastRead'.status \in CopyStatus
    BY <1>8, CopyReturns DEF ReadBody, Reads
  <2> QED
    BY <1>0, <1>8, <2>2, <2>3 DEF ReadBody, CopyStatus
<1>9. CASE ReadHeader \/ ReadTable
  <2>1. report' \in Seq(Lines) /\ nextEntry' \in Nat /\ 1 <= nextEntry'
    <3>1. \/ report' = report /\ nextEntry' = nextEntry
          \/ (\E line \in Lines : report' = Append(report, line)) /\ nextEntry' = nextEntry + 1
      BY <1>9, EntryEffect
    <3>2. CASE report' = report /\ nextEntry' = nextEntry
      BY <3>2
    <3>3. CASE (\E line \in Lines : report' = Append(report, line)) /\ nextEntry' = nextEntry + 1
      BY <3>3
    <3> QED
      BY <3>1, <3>2, <3>3
  <2>2. halStep' \in HalSteps /\ (halStep' = "halt" <=> exitCode' # "none")
    BY <1>9, EntryEffect DEF ReadHeader, ReadTable
  <2> QED
    BY <1>0, <1>9, <2>1, <2>2 DEF ReadHeader, ReadTable
<1>10. CASE ScanFunction
  <2>1. pciFound' \in Seq(PciSlots) /\ nextSlot' = nextSlot + 1 /\ nextSlot < Devices * Functions
    <3>1. /\ Slot \in PciSlots /\ nextSlot' = nextSlot + 1 /\ nextSlot < Devices * Functions
          /\ pciFound' = IF Slot \in bios.pci THEN Append(pciFound, Slot) ELSE pciFound
      BY <1>10, ScanEffect
    <3>2. pciFound \in Seq(PciSlots)
      OBVIOUS
    <3>3. pciFound' \in Seq(PciSlots)
      BY <3>1, <3>2
    <3> QED
      BY <3>1, <3>3
  <2>2. Devices * Functions \in Nat
    BY HalAssumption
  <2>3. nextSlot' \in Nat /\ nextSlot' <= Devices * Functions
    BY <2>1, <2>2
  <2> QED
    BY <1>0, <1>10, <2>1, <2>3 DEF ScanFunction
<1> QED
  BY <1>1, <1>2, <1>3, <1>4, <1>5, <1>6, <1>7, <1>8, <1>9, <1>10 DEF HalNext

\* What depends on the firmware only stays as it is.
LEMMA FirmwareStays ==
    ASSUME bios' = bios
    PROVE  /\ RsdpAddress' = RsdpAddress /\ RootAddress' = RootAddress /\ Root' = Root
           /\ Count' = Count /\ (RootAccepted' <=> RootAccepted)
           /\ \A a : TableAt(a)' = TableAt(a)
           /\ \A n : Before(n)' = Before(n)
           /\ \A line, i : LineOf(line, i)' <=> LineOf(line, i)
<1>1. \A a : TableAt(a)' = TableAt(a)
  BY DEF TableAt
<1>2. RootAddress' = RootAddress /\ RsdpAddress' = RsdpAddress
  BY DEF RootAddress, Xsdt, RsdpAddress, Vendor
<1>3. Root' = Root
  BY <1>2 DEF Root, TableAt
<1>4. Count' = Count
  BY <1>3 DEF Count, EntrySize
<1>5. RootAccepted' <=> RootAccepted
  BY <1>3, <1>4 DEF RootAccepted
<1>6. \A n : Before(n)' = Before(n)
  BY DEF Before
<1>7. ASSUME NEW line, NEW i PROVE LineOf(line, i)' <=> LineOf(line, i)
  <2>1. WellFormed(line.addr)' <=> WellFormed(line.addr)
    BY DEF WellFormed, Readable, TableAt
  <2> QED
    BY <1>1, <1>3, <2>1 DEF LineOf
<1> QED
  BY <1>1, <1>2, <1>3, <1>4, <1>5, <1>6, <1>7

\* A line added to a report of one line is the second.
LEMMA SecondLine ==
    ASSUME NEW T, NEW r \in Seq(T), NEW l \in T
    PROVE  Len(r) = 1 => Len(Append(r, l)) = 2 /\ Append(r, l)[1] = r[1] /\ Append(r, l)[2] = l
<1>1. PICK n \in Nat : n = Len(r)
  OBVIOUS
<1>2. Len(Append(r, l)) = n + 1 /\ Append(r, l)[n + 1] = l /\ \A i \in 1..n : Append(r, l)[i] = r[i]
  BY <1>1
<1> QED
  BY <1>1, <1>2

\* A report that is not added to stays right.
LEMMA ReportStays ==
    ASSUME bios' = bios, report' = report, NEW n
    PROVE  ReportUpTo(n)' <=> ReportUpTo(n)
  BY FirmwareStays DEF ReportUpTo

\* A line for entry n is added.
LEMMA ReportGrows ==
    ASSUME bios' = bios, report \in Seq(Lines), NEW n \in Nat, 1 <= n, ReportUpTo(n),
           NEW line \in Lines, LineOf(line, n), report' = Append(report, line)
    PROVE  ReportUpTo(n + 1)'
<1>1. Len(report') = n + 2
  BY DEF ReportUpTo
<1>2. \A i \in 1..(n + 1) : report'[i] = report[i]
  BY DEF ReportUpTo
<1>3. report'[n + 2] = line
  BY DEF ReportUpTo
<1>4. report'[1].addr = RsdpAddress /\ report'[2].addr = RootAddress
  BY <1>2 DEF ReportUpTo
<1>5. ASSUME NEW i \in 1..n PROVE LineOf(report[i + 2], i)'
  <2>1. PICK l : l = report'[i + 2]
    OBVIOUS
  <2>2. LineOf(l, i)
    <3>1. CASE i = n
      BY <1>3, <2>1, <3>1
    <3>2. CASE i # n
      <4>1. i \in 1..(n - 1) /\ i + 2 \in 1..(n + 1)
        BY <3>2
      <4>2. l = report[i + 2]
        BY <1>2, <2>1, <4>1
      <4> QED
        BY <4>1, <4>2 DEF ReportUpTo
    <3> QED
      BY <3>1, <3>2
  <2>3. LineOf(l, i)'
    BY <2>2, FirmwareStays
  <2> QED
    BY <2>1, <2>3 DEF LineOf
<1> QED
  BY <1>1, <1>4, <1>5, FirmwareStays DEF ReportUpTo

\* A turn of the PCI scan.
LEMMA ScanKeeps ==
    ASSUME HalInv, ScanFunction
    PROVE  ScannedSlots'
<1>1. ScannedSlots /\ bios \in Firmwares /\ nextSlot \in Nat /\ pciFound \in Seq(PciSlots)
      /\ bios' = bios
  BY DEF HalInv, HalTypes, ReportByStep, ScanFunction
<1>2. PICK s \in PciSlots, n \in Nat : s = Slot /\ n = nextSlot
  BY <1>1, ScanEffect
<1>3. /\ pciFound' = IF s \in bios.pci THEN Append(pciFound, s) ELSE pciFound
      /\ s.dev = n \div Functions /\ s.func = n % Functions /\ nextSlot' = n + 1
  BY <1>2, ScanEffect
<1>4. IsFiniteSet(bios.pci) /\ bios.pci \subseteq PciSlots
  BY <1>1, FirmwareAssumption DEF PciSlots
<1>5. ASSUME NEW t \in PciSlots
      PROVE  /\ t.dev * Functions + t.func \in Nat
             /\ t.dev * Functions + t.func = n <=> t = s
  <2>1. /\ t.dev \in 0..(Devices - 1) /\ t.func \in 0..(Functions - 1)
        /\ t = s <=> t.dev = s.dev /\ t.func = s.func
    BY DEF PciSlots
  <2>2. t.dev * Functions + t.func \in Nat
    BY <2>1, SlotBound
  <2>3. t.dev \in Nat
    BY <2>1, BusSize
  <2>4. t.dev * Functions + t.func = n <=> t.dev = n \div Functions /\ t.func = n % Functions
    BY <2>1, <2>3, SlotOrder
  <2> QED
    BY <1>3, <2>1, <2>2, <2>4
<1>6. ASSUME NEW t \in bios.pci
      PROVE  t \in Before(n + 1) <=> t \in Before(n) \/ t = s
  <2>1. PICK w \in Nat : w = t.dev * Functions + t.func
    BY <1>4, <1>5
  <2>2. w < n + 1 <=> w < n \/ w = n
    OBVIOUS
  <2> QED
    BY <1>4, <1>5, <2>1, <2>2 DEF Before
<1>7. Before(n) \subseteq bios.pci /\ Before(n + 1) \subseteq bios.pci
  BY DEF Before
<1>8. IsFiniteSet(Before(n)) /\ Cardinality(Before(n)) \in Nat
  BY <1>4, <1>7, FS_Subset, FS_CardinalityType
<1>9. Len(pciFound) = Cardinality(Before(n)) /\ {pciFound[i] : i \in DOMAIN pciFound} = Before(n)
  BY <1>1, <1>2 DEF ScannedSlots
<1>10. /\ Len(pciFound') = Cardinality(Before(n + 1))
       /\ {pciFound'[i] : i \in DOMAIN pciFound'} = Before(n + 1)
  <2>1. CASE s \in bios.pci
    <3>1. Before(n + 1) = Before(n) \cup {s}
      BY <1>6, <1>7, <2>1
    <3>2. s \notin Before(n)
      BY <1>5 DEF Before
    <3>3. Cardinality(Before(n + 1)) = Cardinality(Before(n)) + 1
      BY <1>8, <3>1, <3>2, FS_AddElement
    <3>4. pciFound' = Append(pciFound, s)
      BY <1>3, <2>1
    <3>5. {pciFound'[i] : i \in DOMAIN pciFound'} = {pciFound[i] : i \in DOMAIN pciFound} \cup {s}
      BY <1>1, <3>4
    <3>6. Len(pciFound') = Len(pciFound) + 1
      BY <1>1, <3>4
    <3> QED
      BY <1>9, <3>1, <3>3, <3>5, <3>6
  <2>2. CASE s \notin bios.pci
    <3>1. Before(n + 1) = Before(n)
      BY <1>6, <1>7, <2>2
    <3> QED
      BY <1>3, <1>9, <2>2, <3>1
  <2> QED
    BY <2>1, <2>2
<1>11. Before(n + 1)' = Before(n + 1)
  BY <1>1 DEF Before
<1> QED
  BY <1>3, <1>10, <1>11 DEF ScannedSlots, Before

\* Before the scan nothing was found.
LEMMA NothingBefore ==
    ASSUME bios \in Firmwares, nextSlot = 0, pciFound = <<>>
    PROVE  ScannedSlots
<1>1. Before(0) = {}
  <2>1. ASSUME NEW t \in bios.pci PROVE ~(t.dev * Functions + t.func < 0)
    <3>1. t.dev \in 0..(Devices - 1) /\ t.func \in 0..(Functions - 1)
      BY FirmwareAssumption
    <3>2. t.dev * Functions + t.func \in Nat
      BY <3>1, SlotBound
    <3> QED
      BY <3>2
  <2> QED
    BY <2>1 DEF Before
<1>2. Cardinality({}) = 0
  BY FS_EmptySet
<1>3. Len(pciFound) = 0 /\ {pciFound[i] : i \in DOMAIN pciFound} = {}
  OBVIOUS
<1> QED
  BY <1>1, <1>2, <1>3 DEF ScannedSlots

\* The steps up to the root's header.
LEMMA EarlySteps ==
    ASSUME HalInv,
           StartHal \/ TestGuard \/ FindRsdp \/ ReadHead \/ ReadExtended \/ ReadFull
    PROVE  ReportByStep'
<1> USE DEF HalInv, HalTypes, Go, Exit, Then
<1>1. /\ halStep' \in {"guards", "config", "head", "extended", "full", "dump", "halt"}
      /\ exitCode' # "DONE"
  <2>1. CASE StartHal
    BY <2>1 DEF StartHal
  <2>2. CASE TestGuard
    BY <2>2 DEF TestGuard
  <2>3. CASE FindRsdp
    BY <2>3 DEF FindRsdp
  <2>4. CASE ReadHead \/ ReadExtended \/ ReadFull
    <3>1. \/ Reads(RsdpAddress, 20) \/ Reads(RsdpAddress, 36) \/ Reads(RsdpAddress, bios.rsdp.len)
      BY <2>4 DEF ReadHead, ReadExtended, ReadFull
    <3>2. \E p, n, m : lastRead'.status = PhysCopy(p, n, m)
      BY <3>1 DEF Reads
    <3>3. lastRead'.status \in CopyStatus
      BY <3>2, CopyReturns
    <3> QED
      BY <2>4, <3>3 DEF ReadHead, ReadExtended, ReadFull, CopyStatus
  <2> QED
    BY <2>1, <2>2, <2>3, <2>4
<1>2. UNCHANGED <<report, nextEntry, nextSlot, pciFound>>
  BY DEF StartHal, TestGuard, FindRsdp, ReadHead, ReadExtended, ReadFull
<1>3. report = <<>> /\ nextEntry = 1 /\ nextSlot = 0 /\ pciFound = <<>>
  BY DEF ReportByStep, HalSteps, StartHal, TestGuard, FindRsdp, ReadHead, ReadExtended, ReadFull
<1> QED
  BY <1>1, <1>2, <1>3 DEF ReportByStep, EntrySteps

\* The RSDP's line and the root's header.
LEMMA RootSteps ==
    ASSUME HalInv, DumpRsdp \/ ReadRoot
    PROVE  ReportByStep'
<1> USE DEF HalInv, HalTypes, Go, Exit, Then
<1>0. bios' = bios
  BY ReadStep DEF HalNext
<1>1. nextEntry' = 1 /\ nextSlot' = 0 /\ pciFound' = <<>>
  BY DEF ReportByStep, HalSteps, DumpRsdp, ReadRoot
<1>2. lastRead'.status \in CopyStatus
  <2>1. \E p, n, m : lastRead'.status = PhysCopy(p, n, m)
    BY DEF DumpRsdp, ReadRoot, Reads
  <2> QED
    BY <2>1, CopyReturns
<1>3. CASE DumpRsdp
  <2>1. halStep' \in {"root", "halt"} /\ exitCode' # "DONE"
    BY <1>2, <1>3 DEF DumpRsdp, CopyStatus
  <2>2. halStep' = "root" => report' = Append(report, Line("TABLE", RsdpAddress, RsdpLength))
    BY <1>2, <1>3 DEF DumpRsdp, CopyStatus
  <2>3. report = <<>>
    BY <1>3 DEF DumpRsdp, ReportByStep
  <2>4. halStep' = "root" => Len(report') = 1 /\ report'[1].addr = RsdpAddress
    BY <2>2, <2>3 DEF Line
  <2> QED
    BY <1>0, <1>1, <2>1, <2>4, FirmwareStays DEF ReportByStep, EntrySteps
<1>4. CASE ReadRoot
  <2>1. halStep' \in {"body", "halt"} /\ exitCode' # "DONE"
    BY <1>2, <1>4 DEF ReadRoot, CopyStatus
  <2>2. halStep' = "body" => Root.len \in 36..MaxXsdtBytes /\ Root.sig \in {"XSDT", "RSDT"}
    BY <1>2, <1>4 DEF ReadRoot, CopyStatus
  <2>3. report' = report /\ Len(report) = 1 /\ report[1].addr = RsdpAddress
    BY <1>4 DEF ReadRoot, ReportByStep
  <2> QED
    BY <1>0, <1>1, <2>1, <2>2, <2>3, FirmwareStays DEF ReportByStep, EntrySteps
<1> QED
  BY <1>3, <1>4

\* The root's line: its entries are counted.
LEMMA BodyStep ==
    ASSUME HalInv, ReadBody
    PROVE  ReportByStep'
<1> USE DEF HalInv, HalTypes, Go, Exit, Then
<1>0. bios' = bios
  BY ReadStep DEF HalNext
<1>1. /\ nextEntry' = 1 /\ nextSlot' = 0 /\ pciFound' = <<>>
      /\ Len(report) = 1 /\ report[1].addr = RsdpAddress
      /\ Root.len \in 36..MaxXsdtBytes /\ Root.sig \in {"XSDT", "RSDT"}
  BY DEF ReportByStep, HalSteps, ReadBody
<1>2. lastRead'.status \in CopyStatus
  <2>1. \E p, n, m : lastRead'.status = PhysCopy(p, n, m)
    BY DEF ReadBody, Reads
  <2> QED
    BY <2>1, CopyReturns
<1>3. halStep' \in {"header", "halt"} /\ exitCode' # "DONE"
  BY <1>2 DEF ReadBody, CopyStatus
<1>4. CASE halStep' = "header"
  <2>1. report' = Append(report, Line("TABLE", RootAddress, Root.len)) /\ Count \in 1..MaxTables
    BY <1>2, <1>4 DEF ReadBody, CopyStatus
  <2>2. RootAccepted
    <3>1. Root.len \in Nat /\ 36 <= Root.len
      BY <1>1, HalAssumption
    <3> QED
      BY <1>1, <2>1, <3>1 DEF RootAccepted
  <2>3. Len(report') = 2 /\ report'[1].addr = RsdpAddress /\ report'[2].addr = RootAddress
    <3>1. PICK line \in Lines : line.addr = RootAddress /\ report' = Append(report, line)
      <4>1. RootAddress \in Nat /\ Root.len \in Nat
        BY AddressesAreNat, TableLength DEF Root
      <4> QED
        BY <2>1, <4>1 DEF Line, Lines
    <3>2. Len(report') = 2 /\ report'[1] = report[1] /\ report'[2] = line
      BY <1>1, <3>1, SecondLine
    <3> QED
      BY <1>1, <3>1, <3>2
  <2>4. ReportUpTo(1)'
    BY <1>0, <2>3, FirmwareStays DEF ReportUpTo
  <2>5. 1 <= Count
    BY <2>1, HalAssumption
  <2>6. ReportUpTo(nextEntry)'
    BY <1>1, <2>4 DEF ReportUpTo
  <2> QED
    BY <1>0, <1>1, <1>4, <1>3, <2>2, <2>5, <2>6, FirmwareStays DEF ReportByStep, EntrySteps
<1>5. CASE halStep' = "halt"
  BY <1>3, <1>5 DEF ReportByStep, EntrySteps
<1> QED
  BY <1>3, <1>4, <1>5

\* The loop over the entries.
LEMMA EntryStep ==
    ASSUME HalInv, ReadHeader \/ ReadTable
    PROVE  ReportByStep'
<1> USE DEF HalInv, HalTypes
<1>0. bios' = bios
  BY ReadStep DEF HalNext
<1>1. /\ nextSlot = 0 /\ pciFound = <<>> /\ nextSlot' = 0 /\ pciFound' = <<>> /\ exitCode = "none"
      /\ RootAccepted /\ nextEntry <= Count /\ ReportUpTo(nextEntry)
  BY DEF ReportByStep, HalSteps, EntrySteps, ReadHeader, ReadTable
<1>2. PICK e \in Nat, c \in Nat : e = nextEntry /\ c = Count /\ 1 <= e
  BY <1>1 DEF RootAccepted
<1>3. RootAccepted' /\ Count' = c
  BY <1>0, <1>1, <1>2, FirmwareStays
<1>4. CASE halStep' = "halt" /\ exitCode' = "COMPROMISED_DATA"
  BY <1>4 DEF ReportByStep, EntrySteps
<1>5. CASE /\ UNCHANGED <<report, nextEntry, exitCode>> /\ halStep' = "table"
           /\ EntryAddress # 0 /\ ~LengthCapped(TableAt(EntryAddress).len)
  <2>1. ReportUpTo(e)
    BY <1>1, <1>2 DEF ReportUpTo
  <2>2. ReportUpTo(e)'
    BY <1>0, <1>5, <2>1, ReportStays
  <2>3. ReportUpTo(nextEntry)'
    BY <1>2, <1>5, <2>2 DEF ReportUpTo
  <2>4. EntryAddress' = EntryAddress
    BY <1>0, <1>5, FirmwareStays DEF EntryAddress
  <2>5. (EntryAddress # 0 /\ ~LengthCapped(TableAt(EntryAddress).len))'
    BY <1>0, <1>5, <2>4 DEF LengthCapped, TableAt
  <2> QED
    BY <1>0, <1>1, <1>2, <1>3, <1>5, <2>3, <2>5 DEF ReportByStep, EntrySteps
<1>6. CASE /\ \E line \in Lines : LineOf(line, nextEntry) /\ report' = Append(report, line)
           /\ nextEntry' = nextEntry + 1 /\ UNCHANGED exitCode
           /\ halStep' = IF nextEntry = Count THEN "pci" ELSE "header"
  <2>1. ReportUpTo(e)
    BY <1>1, <1>2 DEF ReportUpTo
  <2>2. PICK line \in Lines : LineOf(line, e) /\ report' = Append(report, line)
    BY <1>2, <1>6 DEF LineOf
  <2>3. ReportUpTo(e + 1)'
    BY <1>0, <1>2, <2>1, <2>2, ReportGrows
  <2>4. ReportUpTo(nextEntry)'
    BY <1>2, <1>6, <2>3 DEF ReportUpTo
  <2>5. CASE e = c
    <3>1. halStep' = "pci" /\ nextEntry' = c + 1
      BY <1>2, <1>6, <2>5
    <3>2. ReportUpTo(Count + 1)'
      BY <1>3, <2>3, <2>5 DEF ReportUpTo
    <3>3. ScannedSlots'
      <4>1. ScannedSlots /\ UNCHANGED <<nextSlot, pciFound>>
        BY <1>1, NothingBefore DEF ReadHeader, ReadTable
      <4> QED
        BY <1>0, <4>1 DEF ScannedSlots, Before
    <3>4. nextSlot' < Devices * Functions
      BY <1>1, BusNotEmpty
    <3> QED
      BY <1>1, <1>3, <1>6, <3>1, <3>2, <3>3, <3>4 DEF ReportByStep, EntrySteps
  <2>6. CASE e # c
    <3>1. halStep' = "header" /\ nextEntry' <= Count'
      BY <1>1, <1>2, <1>3, <1>6, <2>6
    <3> QED
      BY <1>1, <1>3, <1>6, <2>4, <3>1 DEF ReportByStep, EntrySteps
  <2> QED
    BY <2>5, <2>6
<1> QED
  BY <1>4, <1>5, <1>6, EntryEffect

\* The scan.
LEMMA PciStep ==
    ASSUME HalInv, ScanFunction
    PROVE  ReportByStep'
<1> USE DEF HalInv, HalTypes
<1>0. bios' = bios /\ UNCHANGED <<report, nextEntry>>
  BY DEF ScanFunction
<1>1. /\ RootAccepted /\ nextEntry = Count + 1 /\ ReportUpTo(Count + 1) /\ exitCode = "none"
      /\ nextSlot < Devices * Functions
  BY DEF ReportByStep, HalSteps, ScanFunction
<1>2. PICK c : c = Count
  OBVIOUS
<1>3. ReportUpTo(c + 1)
  BY <1>1, <1>2 DEF ReportUpTo
<1>4. ReportUpTo(c + 1)'
  BY <1>0, <1>3, ReportStays
<1>5. RootAccepted' /\ Count' = c
  BY <1>0, <1>1, <1>2, FirmwareStays
<1>6. ReportUpTo(Count + 1)' /\ nextEntry' = Count' + 1
  BY <1>0, <1>1, <1>2, <1>4, <1>5 DEF ReportUpTo
<1>7. ScannedSlots'
  BY ScanKeeps
<1>8. PICK end \in Nat : end = Devices * Functions
  BY HalAssumption
<1>9. nextSlot' = nextSlot + 1 /\ nextSlot \in Nat /\ nextSlot < end
  BY <1>1, <1>8 DEF ScanFunction
<1>10. CASE nextSlot + 1 < end
  <2>1. halStep' = "pci" /\ exitCode' = "none"
    BY <1>1, <1>8, <1>10 DEF ScanFunction, Go
  <2> QED
    BY <1>5, <1>6, <1>7, <1>8, <1>9, <1>10, <2>1 DEF ReportByStep, EntrySteps
<1>11. CASE ~(nextSlot + 1 < end)
  <2>1. halStep' = "halt" /\ nextSlot' = end
    BY <1>8, <1>9, <1>11 DEF ScanFunction, Exit
  <2> QED
    BY <1>5, <1>6, <1>7, <1>8, <2>1 DEF ReportByStep, EntrySteps
<1> QED
  BY <1>10, <1>11

\* Every step keeps the report as it must be.
LEMMA HalReportStep ==
    ASSUME HalInv, [HalNext]_halVars
    PROVE  ReportByStep'
<1>1. CASE UNCHANGED halVars
  <2>1. UNCHANGED <<bios, halStep, report, nextEntry, nextSlot, pciFound, exitCode>>
    BY <1>1 DEF halVars
  <2>2. PICK e, c : e = nextEntry /\ c = Count
    OBVIOUS
  <2>3. ReportUpTo(nextEntry)' <=> ReportUpTo(nextEntry)
    <3>1. ReportUpTo(e)' <=> ReportUpTo(e)
      BY <2>1, ReportStays
    <3> QED
      BY <2>1, <2>2, <3>1 DEF ReportUpTo
  <2>4. Count' = c
    BY <2>1, <2>2, FirmwareStays
  <2>5. ReportUpTo(Count + 1)' <=> ReportUpTo(Count + 1)
    <3>1. ReportUpTo(c + 1)' <=> ReportUpTo(c + 1)
      BY <2>1, ReportStays
    <3> QED
      BY <2>2, <2>4, <3>1 DEF ReportUpTo
  <2>6. ScannedSlots' <=> ScannedSlots
    BY <2>1 DEF ScannedSlots, Before
  <2>7. EntryAddress' = EntryAddress /\ TableAt(EntryAddress)' = TableAt(EntryAddress)
    BY <2>1, FirmwareStays DEF EntryAddress, TableAt
  <2>8. /\ Root' = Root /\ RsdpAddress' = RsdpAddress /\ (RootAccepted' <=> RootAccepted)
        /\ Count' = Count
    BY <2>1, FirmwareStays
  <2> QED
    BY <2>1, <2>3, <2>5, <2>6, <2>7, <2>8 DEF HalInv, ReportByStep, LengthCapped
<1> QED
  BY <1>1, EarlySteps, RootSteps, BodyStep, EntryStep, PciStep DEF HalNext

\* The invariant holds before the first step.
LEMMA HalStarts == HalInit => HalInv
<1> SUFFICES ASSUME HalInit PROVE HalInv
  OBVIOUS
<1>1. HalTypes
  <2>1. <<>> \in Seq(Lines) /\ <<>> \in Seq(PciSlots)
    OBVIOUS
  <2>2. 0 <= Devices * Functions
    BY HalAssumption
  <2> QED
    BY <2>1, <2>2 DEF HalInit, HalTypes, HalSteps
<1>2. ReportByStep /\ ReadIsAcpi
  BY DEF HalInit, ReportByStep, EntrySteps, ReadIsAcpi
<1> QED
  BY <1>1, <1>2 DEF HalInv

-----------------------------------------------------------------------------
(* Theorems                                                                *)

\* NXHAL: its types, what its report and its PCI list hold at every step, and
\* what it may copy (run, phys_copy, dump_pci_bus0).
THEOREM HalInvariant == HalSpec => []HalInv
<1>1. HalInv /\ [HalNext]_halVars => HalInv'
  <2> SUFFICES ASSUME HalInv, [HalNext]_halVars PROVE HalInv'
    OBVIOUS
  <2> QED
    BY ReadStep, HalTypesStep, HalReportStep DEF HalInv
<1> QED
  BY <1>1, HalStarts, PTL DEF HalSpec

\* Every byte that phys_copy copies is ACPI memory of the map of that moment,
\* for every firmware and every map.
THEOREM ReadsAcpiOnly == HalSpec => []ReadIsAcpi
<1>1. HalInv => ReadIsAcpi
  BY DEF HalInv
<1> QED
  BY <1>1, HalInvariant, PTL

\* A run of NXHAL that ends with DONE has reported every table and every PCI
\* function, for every firmware and every size of the bus.
THEOREM DoneComplete == HalSpec => []DoneIsComplete
<1>1. ASSUME HalInv PROVE DoneIsComplete
  <2> SUFFICES ASSUME exitCode = "DONE" PROVE DoneIsComplete
    BY DEF DoneIsComplete
  <2>1. /\ RootAccepted /\ ReportUpTo(Count + 1) /\ nextSlot = Devices * Functions
        /\ ScannedSlots /\ bios \in Firmwares
    BY <1>1 DEF HalInv, HalTypes, ReportByStep
  <2>2. Before(nextSlot) = bios.pci
    <3>1. ASSUME NEW t \in bios.pci PROVE t.dev * Functions + t.func < Devices * Functions
      <4>1. t.dev \in 0..(Devices - 1) /\ t.func \in 0..(Functions - 1)
        BY <2>1, FirmwareAssumption
      <4> QED
        BY <4>1, SlotBound
    <3> QED
      BY <2>1, <3>1 DEF Before
  <2>3. PICK c \in Int : c = Count
    BY <2>1 DEF RootAccepted
  <2>4. /\ Len(report) = Count + 2
        /\ report[1].addr = RsdpAddress /\ report[2].addr = RootAddress
        /\ \A i \in 1..Count : LineOf(report[i + 2], i)
    <3>1. ReportUpTo(c + 1)
      BY <2>1, <2>3 DEF ReportUpTo
    <3>2. c + 1 + 1 = c + 2 /\ c + 1 - 1 = c
      OBVIOUS
    <3> QED
      BY <2>3, <3>1, <3>2 DEF ReportUpTo
  <2>5. Len(pciFound) = Cardinality(bios.pci) /\ {pciFound[i] : i \in DOMAIN pciFound} = bios.pci
    BY <2>1, <2>2 DEF ScannedSlots
  <2> QED
    BY <2>4, <2>5 DEF DoneIsComplete, LineOf
<1> QED
  BY <1>1, HalInvariant, PTL

-----------------------------------------------------------------------------
(* Slots of a ring                                                         *)

\* A product with a positive number is no smaller.
LEMMA Times ==
    ASSUME NEW C \in Nat, NEW k \in Int, k >= 1
    PROVE  C * k >= C
OBVIOUS

\* A number is its quotient and its remainder.
LEMMA ModBasic ==
    ASSUME NEW C \in Nat \ {0}, NEW a \in Nat
    PROVE  /\ a % C \in 0..(C - 1)
           /\ a \div C \in Nat
           /\ a = C * (a \div C) + (a % C)
<1>1. a % C \in Int /\ a \div C \in Int
  OBVIOUS
<1>2. a % C \in 0..(C - 1)
  <2>1. 0 <= a % C
    OBVIOUS
  <2>2. a % C < C
    OBVIOUS
  <2> QED
    BY <1>1, <2>1, <2>2
<1>3. a = C * (a \div C) + (a % C)
  BY Z3
<1>4. a \div C \in Nat
  <2>1. CASE a \div C <= -1
    <3>1. C * (-(a \div C)) >= C
      BY <2>1, <1>1, Times
    <3> QED
      BY <3>1, <1>1, <1>2, <1>3
  <2> QED
    BY <2>1, <1>1
<1> QED
  BY <1>2, <1>3, <1>4

\* There is only one way to write it so.
LEMMA QuotientUnique ==
    ASSUME NEW C \in Nat \ {0}, NEW k \in Int, NEW l \in Int, NEW r \in 0..(C - 1),
           NEW t \in 0..(C - 1), C * k + r = C * l + t
    PROVE  k = l /\ r = t
<1>1. C * (k - l) = t - r
  OBVIOUS
<1>2. ~(k - l >= 1)
  BY <1>1, Times
<1>3. C * (l - k) = r - t
  OBVIOUS
<1>4. ~(l - k >= 1)
  BY <1>3, Times
<1> QED
  BY <1>2, <1>4, <1>1

\* So a remainder that fits is the remainder.
LEMMA ModIs ==
    ASSUME NEW C \in Nat \ {0}, NEW a \in Nat, NEW k \in Int, NEW r \in 0..(C - 1), a = C * k + r
    PROVE  a % C = r
BY QuotientUnique, ModBasic

\* Two positions less than C apart have different slots.
LEMMA SlotsDiffer ==
    ASSUME NEW C \in Nat \ {0}, NEW a \in Nat, NEW b \in Nat, a < b, b < a + C
    PROVE  a % C # b % C
<1> SUFFICES ASSUME a % C = b % C PROVE FALSE
  OBVIOUS
<1>1. /\ a = C * (a \div C) + (a % C) /\ a \div C \in Nat
      /\ b = C * (b \div C) + (b % C) /\ b \div C \in Nat
  BY ModBasic
<1>2. C * ((b \div C) - (a \div C)) = b - a
  BY <1>1
<1>3. ~((b \div C) - (a \div C) >= 1)
  BY <1>1, <1>2, Times
<1>4. C * ((a \div C) - (b \div C)) = a - b
  BY <1>1
<1>5. ~((a \div C) - (b \div C) >= 0)
  BY <1>1, <1>4
<1> QED
  BY <1>1, <1>3, <1>5

\* A slot counted on from the slot of a is the slot counted on from a.
LEMMA SlotOnwards ==
    ASSUME NEW C \in Nat \ {0}, NEW a \in Nat, NEW b \in Nat
    PROVE  ((a % C) + b) % C = (a + b) % C
<1>1. PICK k \in Nat, r \in 0..(C - 1) : a = C * k + r /\ r = a % C
  BY ModBasic
<1>2. r + b \in Nat
  OBVIOUS
<1>3. PICK m \in Nat, t \in 0..(C - 1) : r + b = C * m + t /\ t = (r + b) % C
  BY <1>2, ModBasic
<1>4. a + b = C * (k + m) + t
  <2>1. C * (k + m) = C * k + C * m
    OBVIOUS
  <2>2. PICK x \in Int : x = C * k
    OBVIOUS
  <2>3. PICK y \in Int : y = C * m
    OBVIOUS
  <2>4. a = x + r /\ r + b = y + t /\ C * (k + m) = x + y
    BY <1>1, <1>3, <2>1, <2>2, <2>3
  <2>5. a + b = (x + y) + t
    BY <2>4
  <2> QED
    BY <2>4, <2>5
<1>5. (a + b) % C = t
  <2>1. k + m \in Int /\ a + b \in Nat
    OBVIOUS
  <2> QED
    BY <1>4, <2>1, ModIs
<1> QED
  BY <1>1, <1>3, <1>5

\* A whole turn of the ring leads to the same slot.
LEMMA SlotTurn ==
    ASSUME NEW C \in Nat \ {0}, NEW a \in Nat
    PROVE  (a + C) % C = a % C
<1>1. PICK k \in Nat, r \in 0..(C - 1) : a = C * k + r /\ r = a % C
  BY ModBasic
<1>2. a + C = C * (k + 1) + r
  <2>1. C * (k + 1) = C * k + C
    OBVIOUS
  <2> QED
    BY <1>1, <2>1
<1>3. (a + C) % C = r
  <2>1. k + 1 \in Int /\ a + C \in Nat
    OBVIOUS
  <2> QED
    BY <1>2, <2>1, ModIs
<1> QED
  BY <1>1, <1>3

-----------------------------------------------------------------------------
(* What is kept of a sequence                                              *)

\* A set of numbers with 0 and every successor has them all.
LEMMA SetInduction ==
    ASSUME NEW N, N \subseteq Nat, 0 \in N, \A n \in N : n + 1 \in N
    PROVE  N = Nat
<1> DEFINE T == Nat \ N
<1> SUFFICES ASSUME T # {} PROVE FALSE
  OBVIOUS
<1>1. PICK x \in T : \A y \in T : ~(<<y, x>> \in OpToRel(<, Nat))
  BY T \subseteq Nat, WFMin, NatLessThanWellFounded
<1>2. \A y \in T : ~(y < x)
  BY <1>1 DEF OpToRel
<1>3. x # 0 /\ x - 1 \in Nat
  OBVIOUS
<1>4. x - 1 \in N
  BY <1>2, <1>3
<1> QED
  BY <1>3, <1>4

\* k is what Kept computes on the way, up to the first n elements of s.
KeptUpTo(k, s, S, n) ==
    k = [i \in 0..n |-> IF i = 0 THEN <<>>
                        ELSE IF s[i] \in S THEN Append(k[i - 1], s[i]) ELSE k[i - 1]]

\* Such a function exists for any n.
LEMMA KeptExists ==
    ASSUME NEW s, NEW S, NEW n \in Nat
    PROVE  \E k : KeptUpTo(k, s, S, n)
<1> DEFINE N == {m \in Nat : \E k : KeptUpTo(k, s, S, m)}
<1>1. 0 \in N
  <2>1. KeptUpTo([i \in 0..0 |-> <<>>], s, S, 0)
    BY DEF KeptUpTo
  <2> QED
    BY <2>1
<1>2. ASSUME NEW m \in N PROVE m + 1 \in N
  <2>1. PICK k : KeptUpTo(k, s, S, m)
    OBVIOUS
  <2> DEFINE x == IF s[m + 1] \in S THEN Append(k[m], s[m + 1]) ELSE k[m]
             l == [i \in 0..(m + 1) |-> IF i = m + 1 THEN x ELSE k[i]]
  <2>2. \A i \in 0..m : k[i] = IF i = 0 THEN <<>>
                        ELSE IF s[i] \in S THEN Append(k[i - 1], s[i]) ELSE k[i - 1]
    BY <2>1 DEF KeptUpTo
  <2> HIDE DEF x
  <2>3. \A i \in 0..m : l[i] = k[i]
    OBVIOUS
  <2>4. l[m + 1] = IF s[m + 1] \in S THEN Append(l[m], s[m + 1]) ELSE l[m]
    BY <2>3 DEF x
  <2>5. ASSUME NEW i \in 0..(m + 1)
        PROVE  l[i] = IF i = 0 THEN <<>>
                      ELSE IF s[i] \in S THEN Append(l[i - 1], s[i]) ELSE l[i - 1]
    <3>1. CASE i = m + 1
      <4>1. i # 0 /\ i - 1 = m
        BY <3>1
      <4> HIDE DEF l
      <4> QED
        BY <3>1, <4>1, <2>4
    <3>2. CASE i # m + 1
      <4>1. i \in 0..m /\ (i # 0 => i - 1 \in 0..m)
        BY <3>2
      <4> HIDE DEF l
      <4> QED
        BY <4>1, <2>2, <2>3
    <3> QED
      BY <3>1, <3>2
  <2>6. l = [i \in 0..(m + 1) |-> l[i]]
    OBVIOUS
  <2>7. KeptUpTo(l, s, S, m + 1)
    <3> HIDE DEF l
    <3> QED
      BY <2>5, <2>6 DEF KeptUpTo
  <2> QED
    BY <2>7
<1>3. N = Nat
  <2> HIDE DEF N
  <2> SUFFICES N \subseteq Nat
    BY <1>1, <1>2, SetInduction
  <2> QED
    BY DEF N
<1> QED
  BY <1>3

\* Two of them agree as long as their sequences do.
LEMMA KeptAgree ==
    ASSUME NEW S, NEW s, NEW t, NEW k, NEW l, NEW m \in Nat, NEW n \in Nat, NEW j \in Nat,
           KeptUpTo(k, s, S, m), KeptUpTo(l, t, S, n), j <= m, j <= n,
           \A i \in 1..j : s[i] = t[i]
    PROVE  k[j] = l[j]
<1> DEFINE N == {i \in Nat : i <= j => k[i] = l[i]}
<1>0. /\ \A i \in 0..m : k[i] = IF i = 0 THEN <<>>
                         ELSE IF s[i] \in S THEN Append(k[i - 1], s[i]) ELSE k[i - 1]
      /\ \A i \in 0..n : l[i] = IF i = 0 THEN <<>>
                         ELSE IF t[i] \in S THEN Append(l[i - 1], t[i]) ELSE l[i - 1]
  BY DEF KeptUpTo
<1>1. 0 \in N
  <2>1. 0 \in 0..m /\ 0 \in 0..n
    OBVIOUS
  <2>2. k[0] = <<>> /\ l[0] = <<>>
    BY <1>0, <2>1
  <2> QED
    BY <2>2
<1>2. ASSUME NEW i \in N PROVE i + 1 \in N
  <2> SUFFICES ASSUME i + 1 <= j PROVE k[i + 1] = l[i + 1]
    OBVIOUS
  <2>1. k[i] = l[i] /\ s[i + 1] = t[i + 1] /\ i + 1 \in 0..m /\ i + 1 \in 0..n /\ i + 1 # 0
        /\ (i + 1) - 1 = i
    OBVIOUS
  <2> QED
    BY <1>0, <2>1
<1>3. N = Nat
  <2>1. N \subseteq Nat
    OBVIOUS
  <2> HIDE DEF N
  <2> QED
    BY <1>1, <1>2, <2>1, SetInduction
<1> QED
  BY <1>3

\* Kept is the last value of such a function.
LEMMA KeptIs ==
    ASSUME NEW s, NEW S, Len(s) \in Nat
    PROVE  \E k : KeptUpTo(k, s, S, Len(s)) /\ Kept(s, S) = k[Len(s)]
<1> DEFINE kept == CHOOSE k : KeptUpTo(k, s, S, Len(s))
<1>1. KeptUpTo(kept, s, S, Len(s))
  BY KeptExists
<1>2. Kept(s, S) = kept[Len(s)]
  BY DEF Kept, KeptUpTo
<1> QED
  BY <1>1, <1>2

\* Nothing is kept of nothing.
LEMMA KeptEmpty ==
    ASSUME NEW S
    PROVE  Kept(<<>>, S) = <<>>
<1>1. PICK k : KeptUpTo(k, <<>>, S, 0) /\ Kept(<<>>, S) = k[0]
  BY KeptIs, Len(<<>>) = 0
<1> QED
  BY <1>1 DEF KeptUpTo

\* The element added last is kept at the end, or not at all.
LEMMA KeptAppend ==
    ASSUME NEW T, NEW s \in Seq(T), NEW x \in T, NEW S
    PROVE  Kept(Append(s, x), S) = IF x \in S THEN Append(Kept(s, S), x) ELSE Kept(s, S)
<1> DEFINE t == Append(s, x)
<1>1. PICK n \in Nat : n = Len(s)
  OBVIOUS
<1>2. Len(t) = n + 1 /\ t[n + 1] = x /\ \A i \in 1..n : t[i] = s[i]
  BY <1>1
<1> HIDE DEF t
<1>3. PICK k : KeptUpTo(k, s, S, n) /\ Kept(s, S) = k[n]
  BY <1>1, KeptIs
<1>4. PICK l : KeptUpTo(l, t, S, n + 1) /\ Kept(t, S) = l[n + 1]
  BY <1>2, KeptIs
<1>5. k[n] = l[n]
  BY <1>2, <1>3, <1>4, KeptAgree
<1>6. l[n + 1] = IF t[n + 1] \in S THEN Append(l[n], t[n + 1]) ELSE l[n]
  <2>1. n + 1 \in 0..(n + 1) /\ n + 1 # 0 /\ (n + 1) - 1 = n
    OBVIOUS
  <2> QED
    BY <1>4, <2>1 DEF KeptUpTo
<1> QED
  BY <1>2, <1>3, <1>4, <1>5, <1>6 DEF t

\* What is kept is a sequence of elements of S.
LEMMA KeptType ==
    ASSUME NEW T, NEW s \in Seq(T), NEW S
    PROVE  Kept(s, S) \in Seq(T \cap S)
<1>1. PICK k : KeptUpTo(k, s, S, Len(s)) /\ Kept(s, S) = k[Len(s)]
  BY KeptIs
<1> DEFINE N == {n \in Nat : n <= Len(s) => k[n] \in Seq(T \cap S)}
<1>2. 0 \in N
  BY <1>1 DEF KeptUpTo
<1>3. ASSUME NEW n \in N PROVE n + 1 \in N
  <2> SUFFICES ASSUME n + 1 <= Len(s) PROVE k[n + 1] \in Seq(T \cap S)
    OBVIOUS
  <2>1. k[n] \in Seq(T \cap S) /\ s[n + 1] \in T
    OBVIOUS
  <2>2. k[n + 1] = IF s[n + 1] \in S THEN Append(k[n], s[n + 1]) ELSE k[n]
    <3>1. n + 1 \in 0..Len(s) /\ n + 1 # 0 /\ (n + 1) - 1 = n
      OBVIOUS
    <3> QED
      BY <1>1, <3>1 DEF KeptUpTo
  <2> QED
    BY <2>1, <2>2
<1>4. N = Nat
  <2>1. N \subseteq Nat
    OBVIOUS
  <2> HIDE DEF N
  <2> QED
    BY <1>2, <1>3, <2>1, SetInduction
<1> QED
  BY <1>1, <1>4

\* Nothing is kept when no element is in S.
LEMMA KeptNone ==
    ASSUME NEW T, NEW s \in Seq(T), NEW S, \A i \in 1..Len(s) : s[i] \notin S
    PROVE  Kept(s, S) = <<>>
<1>1. PICK k : KeptUpTo(k, s, S, Len(s)) /\ Kept(s, S) = k[Len(s)]
  BY KeptIs
<1> DEFINE N == {n \in Nat : n <= Len(s) => k[n] = <<>>}
<1>2. 0 \in N
  BY <1>1 DEF KeptUpTo
<1>3. ASSUME NEW n \in N PROVE n + 1 \in N
  <2> SUFFICES ASSUME n + 1 <= Len(s) PROVE k[n + 1] = <<>>
    OBVIOUS
  <2>1. k[n] = <<>> /\ s[n + 1] \notin S
    OBVIOUS
  <2>2. k[n + 1] = IF s[n + 1] \in S THEN Append(k[n], s[n + 1]) ELSE k[n]
    <3>1. n + 1 \in 0..Len(s) /\ n + 1 # 0 /\ (n + 1) - 1 = n
      OBVIOUS
    <3> QED
      BY <1>1, <3>1 DEF KeptUpTo
  <2> QED
    BY <2>1, <2>2
<1>4. N = Nat
  <2>1. N \subseteq Nat
    OBVIOUS
  <2> HIDE DEF N
  <2> QED
    BY <1>2, <1>3, <2>1, SetInduction
<1> QED
  BY <1>1, <1>4

-----------------------------------------------------------------------------
(* Bounded arrays                                                          *)

\* The array f holds the first n elements of e.
HoldsFront(f, n, e) ==
    /\ DOMAIN f = Slots(n)
    /\ \A i \in 1..Len(e) : i <= n => f[i - 1] = e[i]

\* The array f holds the last n elements of e, each in the slot its position
\* leads to.
HoldsTail(f, n, e) ==
    /\ DOMAIN f = Slots(n)
    /\ \A i \in 1..Len(e) : i > Len(e) - n => f[(i - 1) % n] = e[i]

\* An array that is full ignores the next element, any other stores it.
LEMMA FrontStored ==
    ASSUME NEW T, NEW e \in Seq(T), NEW x \in T, NEW n \in Nat \ {0}, NEW f, HoldsFront(f, n, e)
    PROVE  HoldsFront(IF Len(e) < n THEN [f EXCEPT ![Len(e)] = x] ELSE f, n, Append(e, x))
<1>1. PICK m \in Nat : m = Len(e)
  OBVIOUS
<1>2. Len(Append(e, x)) = m + 1 /\ Append(e, x)[m + 1] = x /\ \A i \in 1..m : Append(e, x)[i] = e[i]
  BY <1>1
<1>3. DOMAIN f = 0..(n - 1) /\ \A i \in 1..m : i <= n => f[i - 1] = e[i]
  BY <1>1 DEF HoldsFront, Slots
<1> DEFINE g == [f EXCEPT ![m] = x]
<1>4. CASE m < n
  <2>1. DOMAIN g = 0..(n - 1)
    BY <1>3
  <2>2. g[m] = x /\ \A j \in 0..(n - 1) : j # m => g[j] = f[j]
    BY <1>3, <1>4
  <2> HIDE DEF g
  <2>3. ASSUME NEW i \in 1..(m + 1), i <= n PROVE g[i - 1] = Append(e, x)[i]
    <3>1. CASE i = m + 1
      BY <3>1, <1>2, <2>2
    <3>2. CASE i # m + 1
      <4>1. i \in 1..m /\ i - 1 \in 0..(n - 1) /\ i - 1 # m
        BY <2>3, <3>2
      <4> QED
        BY <4>1, <2>3, <1>2, <1>3, <2>2
    <3> QED
      BY <3>1, <3>2
  <2>4. HoldsFront(g, n, Append(e, x))
    BY <1>2, <2>1, <2>3 DEF HoldsFront, Slots
  <2> QED
    BY <1>1, <1>4, <2>4 DEF g
<1>5. CASE ~(m < n)
  <2>1. \A i \in 1..(m + 1) : i <= n => i \in 1..m
    BY <1>5
  <2> QED
    BY <1>1, <1>2, <1>3, <1>5, <2>1 DEF HoldsFront, Slots
<1> QED
  BY <1>4, <1>5

\* The next element of a ring replaces the oldest.
LEMMA TailStored ==
    ASSUME NEW T, NEW e \in Seq(T), NEW x \in T, NEW n \in Nat \ {0}, NEW f, HoldsTail(f, n, e)
    PROVE  HoldsTail([f EXCEPT ![Len(e) % n] = x], n, Append(e, x))
<1>1. PICK m \in Nat : m = Len(e)
  OBVIOUS
<1>2. Len(Append(e, x)) = m + 1 /\ Append(e, x)[m + 1] = x /\ \A i \in 1..m : Append(e, x)[i] = e[i]
  BY <1>1
<1>3. DOMAIN f = 0..(n - 1) /\ \A i \in 1..m : i > m - n => f[(i - 1) % n] = e[i]
  BY <1>1 DEF HoldsTail, Slots
<1> DEFINE g == [f EXCEPT ![m % n] = x]
<1>4. m % n \in 0..(n - 1)
  BY ModBasic
<1>5. DOMAIN g = 0..(n - 1) /\ g[m % n] = x /\ \A j \in 0..(n - 1) : j # m % n => g[j] = f[j]
  BY <1>3, <1>4
<1> HIDE DEF g
<1>6. ASSUME NEW i \in 1..(m + 1), i > m + 1 - n PROVE g[(i - 1) % n] = Append(e, x)[i]
  <2>1. CASE i = m + 1
    BY <2>1, <1>2, <1>5
  <2>2. CASE i # m + 1
    <3>1. i \in 1..m /\ i - 1 \in Nat /\ i > m - n /\ i - 1 < m /\ m < (i - 1) + n
      BY <1>6, <2>2
    <3>2. (i - 1) % n # m % n
      BY <3>1, SlotsDiffer
    <3>3. (i - 1) % n \in 0..(n - 1)
      BY <3>1, ModBasic
    <3> QED
      BY <3>1, <3>2, <3>3, <1>2, <1>3, <1>5
  <2> QED
    BY <2>1, <2>2
<1>7. HoldsTail(g, n, Append(e, x))
  <2>1. PICK y : y = Append(e, x)
    OBVIOUS
  <2>2. Len(y) = m + 1 /\ \A i \in 1..(m + 1) : i > m + 1 - n => g[(i - 1) % n] = y[i]
    BY <1>2, <1>6, <2>1
  <2>3. HoldsTail(g, n, y)
    BY <1>5, <2>2 DEF HoldsTail, Slots
  <2> QED
    BY <2>1, <2>3
<1> QED
  BY <1>1, <1>7 DEF g

\* The front is reported in order.
LEMMA FrontReported ==
    ASSUME NEW T, NEW e \in Seq(T), NEW n \in Nat \ {0}, NEW f, HoldsFront(f, n, e)
    PROVE  [i \in 1..Least(Len(e), n) |-> f[i - 1]] = Front_(e, n)
<1>1. PICK m \in Nat : m = Least(Len(e), n) /\ m <= Len(e) /\ m <= n
  BY DEF Least
<1>2. \A i \in 1..m : f[i - 1] = e[i]
  BY <1>1 DEF HoldsFront
<1>3. SubSeq(e, 1, m) = [i \in 1..m |-> e[i]]
  BY <1>1
<1>4. [i \in 1..m |-> f[i - 1]] = [i \in 1..m |-> e[i]]
  BY <1>2
<1> QED
  BY <1>1, <1>3, <1>4 DEF Front_

\* So is the tail, from the slot after the newest element on.
LEMMA TailReported ==
    ASSUME NEW T, NEW e \in Seq(T), NEW n \in Nat \ {0}, NEW f, HoldsTail(f, n, e)
    PROVE  [i \in 1..Least(Len(e), n) |-> f[(Len(e) - Least(Len(e), n) + i - 1) % n]] = Tail_(e, n)
<1>1. PICK m \in Nat : m = Least(Len(e), n) /\ m <= Len(e) /\ m <= n
  BY DEF Least
<1>2. PICK l \in Nat : l = Len(e)
  OBVIOUS
<1>3. ASSUME NEW i \in 1..m PROVE f[(l - m + i - 1) % n] = e[l - m + i]
  <2>1. l - m + i \in 1..l /\ l - m + i > l - n /\ (l - m + i) - 1 = l - m + i - 1
    BY <1>1, <1>2
  <2> QED
    BY <2>1, <1>2 DEF HoldsTail
<1>4. SubSeq(e, l - m + 1, l) = [i \in 1..m |-> e[l - m + i]]
  <2>1. PICK a \in Int : a = l - m + 1
    OBVIOUS
  <2>2. \A i \in a..l : e[i] \in T
    BY <1>1, <1>2, <2>1
  <2>3. /\ SubSeq(e, a, l) \in Seq(T)
        /\ Len(SubSeq(e, a, l)) = IF a <= l THEN l - a + 1 ELSE 0
        /\ \A i \in 1..(l - a + 1) : SubSeq(e, a, l)[i] = e[a + i - 1]
    BY <2>2, SubSeqProperties
  <2>4. Len(SubSeq(e, a, l)) = m /\ l - a + 1 = m
    BY <2>1, <2>3
  <2>5. \A i \in 1..m : a + i - 1 = l - m + i
    BY <2>1
  <2>6. \A i \in 1..m : SubSeq(e, a, l)[i] = e[l - m + i]
    BY <2>3, <2>4, <2>5
  <2>7. SubSeq(e, a, l) = [i \in 1..m |-> SubSeq(e, a, l)[i]]
    BY <2>3, <2>4
  <2> QED
    BY <2>1, <2>6, <2>7
<1>5. [i \in 1..m |-> f[(l - m + i - 1) % n]] = [i \in 1..m |-> e[l - m + i]]
  BY <1>3
<1> QED
  BY <1>1, <1>2, <1>4, <1>5 DEF Tail_

-----------------------------------------------------------------------------
(* One more request                                                        *)

\* One more fetch is one more step.
LEMMA StepAdded ==
    ASSUME NEW f \in Seq(Fetches), NEW q \in Fetches
    PROVE  /\ Steps(f) \in Seq(FlowEdges)
           /\ f = <<>> => Steps(Append(f, q)) = <<>> /\ Steps(f) = <<>>
           /\ f # <<>> =>
                 /\ f[Len(f)].address \in Nat
                 /\ Edge(Len(f) + 1, f[Len(f)].address, q.address) \in FlowEdges
                 /\ Steps(Append(f, q)) =
                      Append(Steps(f), Edge(Len(f) + 1, f[Len(f)].address, q.address))
<1>1. PICK m \in Nat : m = Len(f)
  OBVIOUS
<1>2. \A x \in Fetches : x.address \in Nat
  BY MemoryTraceAssumption DEF Fetches
<1>3. \A i \in 1..m : f[i].address \in Nat
  BY <1>1, <1>2
<1>4. \A i, a, b \in Nat : Edge(i, a, b) \in FlowEdges
  BY DEF Edge, FlowEdges
<1>5. CASE f = <<>>
  <2>1. Steps(f) = <<>>
    BY <1>5 DEF Steps
  <2>2. Append(f, q) # <<>> /\ Len(Append(f, q)) = 1
    BY <1>5
  <2>3. Steps(Append(f, q)) = <<>>
    BY <2>2 DEF Steps
  <2> QED
    BY <1>5, <2>1, <2>3, EmptySeq
<1>6. CASE f # <<>>
  <2>1. m \in Nat \ {0} /\ Append(f, q) # <<>> /\ Len(Append(f, q)) = m + 1
        /\ Append(f, q)[m + 1] = q /\ \A i \in 1..m : Append(f, q)[i] = f[i]
    BY <1>1, <1>6
  <2> DEFINE s == [i \in 1..(m - 1) |-> Edge(i + 1, f[i].address, f[i + 1].address)]
             x == Edge(m + 1, f[m].address, q.address)
  <2>2. Steps(f) = s
    BY <1>1, <1>6 DEF Steps
  <2>3. \A i \in 1..(m - 1) : Edge(i + 1, f[i].address, f[i + 1].address) \in FlowEdges
    BY <1>3, <1>4
  <2>4. s \in Seq(FlowEdges) /\ Len(s) = m - 1
    BY <2>1, <2>3
  <2>5. x \in FlowEdges /\ f[m].address \in Nat
    BY <1>2, <1>3, <1>4, <2>1
  <2>6. Steps(Append(f, q)) =
          [i \in 1..m |-> Edge(i + 1, Append(f, q)[i].address, Append(f, q)[i + 1].address)]
    BY <2>1 DEF Steps
  <2>7. ASSUME NEW i \in 1..m
        PROVE  Append(s, x)[i] = Edge(i + 1, Append(f, q)[i].address, Append(f, q)[i + 1].address)
    <3>1. CASE i = m
      <4>1. Append(s, x)[m] = x
        BY <2>4, <2>5
      <4> QED
        BY <3>1, <4>1, <2>1
    <3>2. CASE i # m
      <4>1. i \in 1..(m - 1) /\ i \in 1..m /\ i + 1 \in 1..m
        BY <3>2
      <4>2. Append(s, x)[i] = s[i]
        BY <2>4, <2>5, <4>1
      <4> HIDE DEF x
      <4> QED
        BY <4>1, <4>2, <2>1
    <3> QED
      BY <3>1, <3>2
  <2>8. Append(s, x) = [i \in 1..m |-> Append(s, x)[i]]
    <3> HIDE DEF s, x
    <3>1. Append(s, x) \in Seq(FlowEdges) /\ Len(Append(s, x)) = m
      BY <2>1, <2>4, <2>5
    <3>2. Append(s, x) \in [1..m -> FlowEdges]
      BY <3>1, LenProperties
    <3> QED
      BY <3>2
  <2>9. Append(s, x) = Steps(Append(f, q))
    <3> HIDE DEF s, x
    <3> QED
      BY <2>6, <2>7, <2>8
  <2> QED
    BY <1>1, <1>6, <2>2, <2>4, <2>5, <2>9
<1> QED
  BY <1>5, <1>6

\* The edges numbered below n.
Below(n) == {e \in FlowEdges : e.sequence < n}

\* A later edge is followed once a branch was taken at the watched address.
LEMMA AfterAdded ==
    ASSUME NEW e, NEW x \in FlowEdges, e \in Seq(Below(x.sequence))
    PROVE  After(Append(e, x)) = IF Kept(Append(e, x), Branches) = <<>> THEN After(e)
                                 ELSE Append(After(e), x)
<1> DEFINE taken == Kept(e, Branches)
<1>1. e \in Seq(FlowEdges)
  <2>1. Below(x.sequence) \subseteq FlowEdges
    BY DEF Below
  <2> QED
    BY <2>1, SeqMonotonic
<1>2. taken \in Seq(Below(x.sequence) \cap Branches)
  BY KeptType
<1>3. Kept(Append(e, x), Branches) = IF x \in Branches THEN Append(taken, x) ELSE taken
  BY <1>1, KeptAppend
<1> HIDE DEF taken
<1>4. CASE taken # <<>>
  <2>1. taken[1] \in Below(x.sequence)
    BY <1>2, <1>4
  <2>2. x \in From(taken[1].sequence)
    BY <2>1 DEF Below, From, FlowEdges
  <2>3. Kept(Append(e, x), Branches) # <<>> /\ Kept(Append(e, x), Branches)[1] = taken[1]
    BY <1>2, <1>3, <1>4
  <2>4. After(Append(e, x)) = Kept(Append(e, x), From(taken[1].sequence))
    BY <2>3 DEF After
  <2>5. After(e) = Kept(e, From(taken[1].sequence))
    BY <1>4 DEF After, taken
  <2>6. Kept(Append(e, x), From(taken[1].sequence)) = Append(Kept(e, From(taken[1].sequence)), x)
    BY <1>1, <2>2, KeptAppend
  <2> QED
    BY <2>3, <2>4, <2>5, <2>6
<1>5. CASE taken = <<>> /\ x \in Branches
  <2>1. Kept(Append(e, x), Branches) = <<x>>
    BY <1>3, <1>5
  <2>2. After(Append(e, x)) = Kept(Append(e, x), From(x.sequence))
    BY <2>1 DEF After
  <2>3. \A i \in 1..Len(e) : e[i] \notin From(x.sequence)
    <3>1. \A y \in Below(x.sequence) : y \notin From(x.sequence)
      BY DEF Below, From, FlowEdges
    <3> QED
      BY <3>1
  <2>4. Kept(e, From(x.sequence)) = <<>>
    BY <1>1, <2>3, KeptNone
  <2>5. x \in From(x.sequence)
    BY DEF From, FlowEdges
  <2>6. Kept(Append(e, x), From(x.sequence)) = Append(Kept(e, From(x.sequence)), x)
    BY <1>1, <2>5, KeptAppend
  <2>7. After(e) = <<>>
    BY <1>5 DEF After, taken
  <2> QED
    BY <2>1, <2>2, <2>4, <2>6, <2>7
<1>6. CASE taken = <<>> /\ x \notin Branches
  BY <1>3, <1>6 DEF After, taken
<1> QED
  BY <1>4, <1>5, <1>6

\* What is followed is a sequence of edges.
LEMMA AfterType ==
    ASSUME NEW e \in Seq(FlowEdges)
    PROVE  After(e) \in Seq(FlowEdges)
<1>1. ASSUME NEW S PROVE Kept(e, S) \in Seq(FlowEdges)
  <2>1. Kept(e, S) \in Seq(FlowEdges \cap S)
    BY KeptType
  <2> QED
    BY <2>1, SeqMonotonic, FlowEdges \cap S \subseteq FlowEdges
<1> QED
  BY <1>1 DEF After

\* One more load passes the threshold or does not.
LEMMA CrossingAdded ==
    ASSUME NEW l \in Seq(WatchedLoads), NEW q \in WatchedLoads
    PROVE  Crossings(Append(l, q)) =
             Crossings(l) \cup
               (IF l # <<>> /\ l[Len(l)].address < Threshold /\ q.address >= Threshold
                THEN {Len(l) + 1} ELSE {})
<1>1. PICK m \in Nat : m = Len(l)
  OBVIOUS
<1>2. Len(Append(l, q)) = m + 1 /\ Append(l, q)[m + 1] = q /\ \A i \in 1..m : Append(l, q)[i] = l[i]
  BY <1>1
<1>3. (l # <<>>) <=> m # 0
  BY <1>1
<1> DEFINE P(i) == Append(l, q)[i - 1].address < Threshold /\ Append(l, q)[i].address >= Threshold
<1>4. Crossings(Append(l, q)) = {i \in 2..(m + 1) : P(i)}
  BY <1>2 DEF Crossings
<1>5. \A i \in 2..m : P(i) <=> (l[i - 1].address < Threshold /\ l[i].address >= Threshold)
  <2>1. \A i \in 2..m : i \in 1..m /\ i - 1 \in 1..m
    OBVIOUS
  <2> QED
    BY <1>2, <2>1
<1>6. {i \in 2..m : P(i)} = Crossings(l)
  <2> HIDE DEF P
  <2> QED
    BY <1>1, <1>5 DEF Crossings
<1>7. m # 0 => (P(m + 1) <=> (l[m].address < Threshold /\ q.address >= Threshold))
  <2>1. m # 0 => m \in 1..m /\ (m + 1) - 1 = m
    OBVIOUS
  <2> QED
    BY <1>2, <2>1
<1> HIDE DEF P
<1>8. CASE m = 0
  <2>1. 2..(m + 1) = 2..m
    BY <1>8
  <2> QED
    BY <1>1, <1>3, <1>4, <1>6, <1>8, <2>1
<1>9. CASE m # 0
  <2>1. 2..(m + 1) = (2..m) \cup {m + 1}
    BY <1>9
  <2> QED
    BY <1>1, <1>3, <1>4, <1>6, <1>7, <1>9, <2>1
<1> QED
  BY <1>8, <1>9

\* A set of numbers has a least one, and Min is it.
LEMMA MinIs ==
    ASSUME NEW S, S \subseteq Nat, S # {}
    PROVE  Min(S) \in S /\ \A y \in S : Min(S) <= y
<1>1. PICK x \in S : \A y \in S : ~(<<y, x>> \in OpToRel(<, Nat))
  BY WFMin, NatLessThanWellFounded
<1>2. \A y \in S : ~(y < x)
  BY <1>1 DEF OpToRel
<1>3. \A y \in S : x <= y
  BY <1>2
<1> QED
  BY <1>3 DEF Min

\* A larger number does not change the least one.
LEMMA MinStays ==
    ASSUME NEW S, S \subseteq Nat, S # {}, NEW n \in Nat, \A y \in S : y < n
    PROVE  Min(S \cup {n}) = Min(S)
<1>1. Min(S) \in S /\ \A y \in S : Min(S) <= y
  BY MinIs
<1>2. Min(S \cup {n}) \in S \cup {n} /\ \A y \in S \cup {n} : Min(S \cup {n}) <= y
  BY MinIs
<1>3. PICK a \in Nat : a = Min(S)
  BY <1>1
<1>4. PICK b \in Nat : b = Min(S \cup {n})
  BY <1>2
<1>5. a \in S /\ a < n /\ b <= a
  BY <1>1, <1>2, <1>3, <1>4
<1>6. b \in S /\ a <= b
  BY <1>1, <1>2, <1>3, <1>4, <1>5
<1> QED
  BY <1>3, <1>4, <1>5, <1>6

-----------------------------------------------------------------------------
(* The trace: the inductive invariant                                      *)

Numbered == [i \in 1..Len(history) |-> [sequence |-> i, request |-> history[i]]]
Fetched == Kept(history, Fetches)
Taken == Kept(Edges, Branches)
LoadsTaken == Kept(history, WatchedLoads)

\* The edges that n fetches can have.
EdgesOf(n) == {e \in FlowEdges : e.sequence \in 2..n}

\* Both rings hold the last requests.
RingInv ==
    /\ history \in Seq(Requests)
    /\ total = Len(history)
    /\ HoldsTail(ring, Capacity, Numbered)
    /\ mring = ring /\ mnext = total % Capacity /\ mlen = Least(total, Capacity)

\* The flow remembers the last fetch, its counters count and its arrays hold
\* the edges at both ends.
FlowInv ==
    /\ Edges \in Seq(EdgesOf(Len(Fetched)))
    /\ flow = [fetches |-> Len(Fetched),
               previous |-> IF Fetched = <<>> THEN NoPc ELSE <<Fetched[Len(Fetched)].address>>,
               edges |-> Len(Edges)]
    /\ HoldsFront(first, FirstEdges, Edges)
    /\ HoldsTail(last, LastEdges, Edges)

\* The fetch watch has the first branch taken and the front of what follows.
WatchInv ==
    /\ watch.visits \in Nat /\ watch.fallthrough \in Nat
    /\ watch.taken = IF Taken = <<>> THEN None ELSE Taken[1]
    /\ watch.count = Least(Len(After(Edges)), FollowEdges)
    /\ HoldsFront(watch.follow, FollowEdges, After(Edges))
    /\ watch.visits = watch.fallthrough + Len(Taken)

\* The load watch remembers the last successful load and the first crossing.
LoadInv ==
    /\ load \in [requests : Nat, successful : Nat, firstAddress : Nat, lastAddress : Nat,
                 lastValue : Nat, forward : Nat, backward : Nat, repeated : Nat, changes : Nat,
                 crossed : FlowEdges]
    /\ load.successful = Len(LoadsTaken)
    /\ LoadsTaken = <<>> => load.forward + load.backward + load.repeated = 0
    /\ LoadsTaken # <<>> => /\ load.lastAddress = LoadsTaken[Len(LoadsTaken)].address
                        /\ load.forward + load.backward + load.repeated + 1 = load.successful
    /\ Crossings(LoadsTaken) = {} => load.crossed = None
    /\ Crossings(LoadsTaken) # {} =>
          load.crossed = Edge(Min(Crossings(LoadsTaken)), LoadsTaken[Min(Crossings(LoadsTaken)) - 1].address,
                              LoadsTaken[Min(Crossings(LoadsTaken))].address)

\* The store watch counts every store after the first in one direction.
StoreInv ==
    /\ store \in [requests : Nat, successful : Nat, firstAddress : Nat, firstValue : Nat,
                  lastAddress : Nat, lastValue : Nat, forward : Nat, backward : Nat,
                  repeated : Nat]
    /\ store.successful = 0 => store.forward + store.backward + store.repeated = 0
    /\ store.successful > 0 =>
          store.forward + store.backward + store.repeated + 1 = store.successful

TraceInv == RingInv /\ FlowInv /\ WatchInv /\ LoadInv /\ StoreInv

-----------------------------------------------------------------------------
(* The trace: the steps                                                    *)

\* A request is stored in both rings.
LEMMA RingStep ==
    ASSUME RingInv, NEW q \in Requests, Observe(q)
    PROVE  RingInv'
<1> USE DEF RingInv
<1>1. /\ history' = Append(history, q)
      /\ ring' = [ring EXCEPT ![total % Capacity] = [sequence |-> total + 1, request |-> q]]
      /\ mring' = [mring EXCEPT ![mnext] = [sequence |-> total + 1, request |-> q]]
      /\ total' = total + 1
      /\ mnext' = (mnext + 1) % Capacity
      /\ mlen' = IF mlen < Capacity THEN mlen + 1 ELSE Capacity
  BY DEF Observe, RecordRing, RecordMemory, Entry
<1>2. PICK n \in Nat : n = Len(history) /\ n = total
  OBVIOUS
<1>3. Capacity \in Nat \ {0}
  BY MemoryTraceAssumption
<1>4. history' \in Seq(Requests) /\ Len(history') = n + 1
  BY <1>1, <1>2
<1> DEFINE x == [sequence |-> n + 1, request |-> q]
           T == [sequence : Nat, request : Requests]
<1>5. x \in T
  OBVIOUS
<1>6. Numbered \in Seq(T) /\ Len(Numbered) = n
  <2>1. \A i \in 1..n : [sequence |-> i, request |-> history[i]] \in T
    BY <1>2
  <2> QED
    BY <1>2, <2>1 DEF Numbered
<1>7. Numbered' = Append(Numbered, x)
  <2>1. \A i \in 1..n : Numbered[i] = [sequence |-> i, request |-> history[i]]
    BY <1>2 DEF Numbered
  <2> HIDE DEF x, T
  <2>2. Append(Numbered, x) \in Seq(T) /\ Len(Append(Numbered, x)) = n + 1
        /\ Append(Numbered, x)[n + 1] = x /\ \A i \in 1..n : Append(Numbered, x)[i] = Numbered[i]
    BY <1>5, <1>6
  <2>3. Append(Numbered, x) = [i \in 1..(n + 1) |-> Append(Numbered, x)[i]]
    <3>1. Append(Numbered, x) \in [1..(n + 1) -> T]
      BY <2>2, LenProperties
    <3> QED
      BY <3>1
  <2>4. history'[n + 1] = q /\ \A i \in 1..n : history'[i] = history[i]
    BY <1>1, <1>2
  <2>5. Numbered' = [i \in 1..(n + 1) |-> [sequence |-> i, request |-> history'[i]]]
    BY <1>4 DEF Numbered
  <2>6. ASSUME NEW i \in 1..(n + 1)
        PROVE  Append(Numbered, x)[i] = [sequence |-> i, request |-> history'[i]]
    <3>1. CASE i = n + 1
      BY <3>1, <2>2, <2>4 DEF x
    <3>2. CASE i # n + 1
      <4>1. i \in 1..n
        BY <3>2
      <4> QED
        BY <4>1, <2>1, <2>2, <2>4
    <3> QED
      BY <3>1, <3>2
  <2> QED
    BY <2>3, <2>5, <2>6
<1>8. HoldsTail(ring', Capacity, Numbered')
  <2>1. ring' = [ring EXCEPT ![Len(Numbered) % Capacity] = x]
    BY <1>1, <1>2, <1>6
  <2>2. HoldsTail(ring, Capacity, Numbered)
    OBVIOUS
  <2> HIDE DEF x, T
  <2> QED
    BY <1>3, <1>5, <1>6, <1>7, <2>1, <2>2, TailStored
<1>9. mnext' = total' % Capacity
  BY <1>1, <1>2, <1>3, SlotOnwards
<1>10. mlen' = Least(total', Capacity)
  BY <1>1, <1>2, <1>3 DEF Least
<1> QED
  BY <1>1, <1>2, <1>4, <1>8, <1>9, <1>10 DEF HoldsTail

\* What a fetch adds to the history.
LEMMA FetchAdded ==
    ASSUME RingInv, NEW q \in Requests, history' = Append(history, q)
    PROVE  /\ Fetched \in Seq(Fetches)
           /\ Fetched' = IF q \in Fetches THEN Append(Fetched, q) ELSE Fetched
           /\ q \notin Fetches => Edges' = Edges
           /\ q \in Fetches /\ Fetched = <<>> => Edges' = <<>> /\ Edges = <<>>
           /\ q \in Fetches /\ Fetched # <<>> =>
                 LET x == Edge(Len(Fetched) + 1, Fetched[Len(Fetched)].address, q.address)
                 IN  /\ x \in FlowEdges
                     /\ Edges' = IF x \in Jumps THEN Append(Edges, x) ELSE Edges
<1>1. Fetched \in Seq(Fetches)
  <2>1. Fetched \in Seq(Requests \cap Fetches)
    BY KeptType DEF RingInv, Fetched
  <2> QED
    BY <2>1, SeqMonotonic, Requests \cap Fetches \subseteq Fetches
<1>2. Fetched' = IF q \in Fetches THEN Append(Fetched, q) ELSE Fetched
  BY KeptAppend DEF RingInv, Fetched
<1>3. Edges = Kept(Steps(Fetched), Jumps) /\ Edges' = Kept(Steps(Fetched'), Jumps)
  BY DEF Edges, Fetched
<1> HIDE DEF Fetched, Edges
<1>4. ASSUME q \notin Fetches PROVE Edges' = Edges
  BY <1>2, <1>3, <1>4
<1>5. ASSUME q \in Fetches, Fetched = <<>> PROVE Edges' = <<>> /\ Edges = <<>>
  <2>1. Steps(Fetched') = <<>> /\ Steps(Fetched) = <<>>
    BY <1>1, <1>2, <1>5, StepAdded
  <2> QED
    BY <1>3, <2>1, KeptEmpty
<1>6. ASSUME q \in Fetches, Fetched # <<>>
      PROVE  LET x == Edge(Len(Fetched) + 1, Fetched[Len(Fetched)].address, q.address)
             IN  /\ x \in FlowEdges
                 /\ Edges' = IF x \in Jumps THEN Append(Edges, x) ELSE Edges
  <2> DEFINE x == Edge(Len(Fetched) + 1, Fetched[Len(Fetched)].address, q.address)
  <2>1. x \in FlowEdges /\ Steps(Fetched) \in Seq(FlowEdges)
        /\ Steps(Fetched') = Append(Steps(Fetched), x)
    BY <1>1, <1>2, <1>6, StepAdded
  <2> HIDE DEF x
  <2>2. Edges' = IF x \in Jumps THEN Append(Edges, x) ELSE Edges
    BY <1>3, <2>1, KeptAppend
  <2> QED
    BY <2>1, <2>2 DEF x
<1> QED
  BY <1>1, <1>2, <1>4, <1>5, <1>6

\* The edges of n fetches are those of any more.
LEMMA EdgesOfMore ==
    ASSUME NEW n \in Nat, NEW s \in Seq(EdgesOf(n))
    PROVE  s \in Seq(EdgesOf(n + 1))
<1>1. EdgesOf(n) \subseteq EdgesOf(n + 1)
  BY DEF EdgesOf
<1> QED
  BY <1>1, SeqMonotonic

\* A fetch that is no edge moves the flow on and leaves its arrays alone.
LEMMA FlowMoves ==
    ASSUME RingInv, FlowInv, NEW q \in Fetches, history' = Append(history, q), Edges' = Edges,
           first' = first, last' = last,
           flow' = [fetches |-> flow.fetches + 1, previous |-> <<q.address>>, edges |-> flow.edges]
    PROVE  FlowInv'
<1>1. q \in Requests
  BY DEF Fetches
<1>2. Fetched \in Seq(Fetches) /\ Fetched' = Append(Fetched, q)
  BY <1>1, FetchAdded
<1>3. PICK n \in Nat : n = Len(Fetched)
  BY <1>2
<1>4. Len(Fetched') = n + 1 /\ Fetched' # <<>> /\ Fetched'[n + 1] = q
  BY <1>2, <1>3
<1>5. Edges' \in Seq(EdgesOf(Len(Fetched')))
  BY <1>3, <1>4, EdgesOfMore DEF FlowInv
<1>6. flow' = [fetches |-> n + 1, previous |-> <<q.address>>, edges |-> Len(Edges)]
  BY <1>3 DEF FlowInv
<1>7. HoldsFront(first, FirstEdges, Edges)' /\ HoldsTail(last, LastEdges, Edges)'
  BY DEF FlowInv, HoldsFront, HoldsTail
<1> QED
  BY <1>4, <1>5, <1>6, <1>7 DEF FlowInv

\* An edge is stored at both ends.
LEMMA FlowStores ==
    ASSUME RingInv, FlowInv, NEW q \in Fetches, history' = Append(history, q),
           NEW x \in FlowEdges, x.sequence = Len(Fetched) + 1, Fetched # <<>>,
           Edges' = Append(Edges, x),
           first' = IF flow.edges < FirstEdges THEN [first EXCEPT ![flow.edges] = x] ELSE first,
           last' = [last EXCEPT ![flow.edges % LastEdges] = x],
           flow' = [fetches |-> flow.fetches + 1, previous |-> <<q.address>>,
                    edges |-> flow.edges + 1]
    PROVE  FlowInv'
<1>1. q \in Requests
  BY DEF Fetches
<1>2. Fetched \in Seq(Fetches) /\ Fetched' = Append(Fetched, q)
  BY <1>1, FetchAdded
<1>3. PICK n \in Nat \ {0} : n = Len(Fetched)
  BY <1>2
<1>4. Len(Fetched') = n + 1 /\ Fetched' # <<>> /\ Fetched'[n + 1] = q
  BY <1>2, <1>3
<1>5. x \in EdgesOf(n + 1)
  BY <1>3 DEF EdgesOf
<1>6. Edges \in Seq(EdgesOf(n + 1))
  BY <1>3, EdgesOfMore DEF FlowInv
<1>7. Edges' \in Seq(EdgesOf(n + 1)) /\ Len(Edges') = Len(Edges) + 1
  BY <1>5, <1>6
<1>8. flow.fetches = n /\ flow.edges = Len(Edges)
  BY <1>3 DEF FlowInv
<1>9. {FirstEdges, LastEdges} \subseteq Nat \ {0}
  BY MemoryTraceAssumption
<1>10. HoldsFront(first', FirstEdges, Edges')
  BY <1>5, <1>6, <1>8, <1>9, FrontStored DEF FlowInv
<1>11. HoldsTail(last', LastEdges, Edges')
  BY <1>5, <1>6, <1>8, <1>9, TailStored DEF FlowInv
<1>12. HoldsFront(first, FirstEdges, Edges)' /\ HoldsTail(last, LastEdges, Edges)'
  BY <1>10, <1>11 DEF HoldsFront, HoldsTail
<1> QED
  BY <1>4, <1>7, <1>8, <1>12 DEF FlowInv

\* The edges are numbered, and a branch taken is one of them.
LEMMA EdgesTyped ==
    ASSUME RingInv, FlowInv
    PROVE  /\ Len(Fetched) \in Nat
           /\ Edges \in Seq(FlowEdges)
           /\ Edges \in Seq(Below(Len(Fetched) + 1))
           /\ Taken \in Seq(EdgesOf(Len(Fetched)))
           /\ Taken # <<>> => Taken[1] # None /\ Taken[1] \in FlowEdges
           /\ After(Edges) \in Seq(FlowEdges)
<1>1. PICK n \in Nat : n = Len(Fetched)
  <2>1. Fetched \in Seq(Requests \cap Fetches)
    BY KeptType DEF RingInv, Fetched
  <2> QED
    BY <2>1
<1>2. Edges \in Seq(EdgesOf(n))
  BY <1>1 DEF FlowInv
<1>3. EdgesOf(n) \subseteq FlowEdges /\ EdgesOf(n) \subseteq Below(n + 1)
  BY DEF EdgesOf, Below
<1>4. Edges \in Seq(FlowEdges) /\ Edges \in Seq(Below(n + 1))
  BY <1>2, <1>3, SeqMonotonic
<1>5. Taken \in Seq(EdgesOf(n))
  <2>1. Taken \in Seq(EdgesOf(n) \cap Branches)
    BY <1>2, KeptType DEF Taken
  <2> QED
    BY <2>1, SeqMonotonic, EdgesOf(n) \cap Branches \subseteq EdgesOf(n)
<1>6. ASSUME Taken # <<>> PROVE Taken[1] # None /\ Taken[1] \in FlowEdges
  <2>1. Taken[1] \in EdgesOf(n)
    BY <1>5, <1>6
  <2>2. Taken[1].sequence # 0 /\ None.sequence = 0
    BY <2>1 DEF EdgesOf, None
  <2> QED
    BY <2>1, <2>2 DEF EdgesOf
<1>7. After(Edges) \in Seq(FlowEdges)
  BY <1>4, AfterType
<1> QED
  BY <1>1, <1>4, <1>5, <1>6, <1>7

\* A fetch that is no edge is at most a visit that falls through.
LEMMA WatchStays ==
    ASSUME RingInv, FlowInv, WatchInv, Edges' = Edges,
           watch'.taken = watch.taken, watch'.count = watch.count, watch'.follow = watch.follow,
           NEW d \in Nat, watch'.visits = watch.visits + d,
           watch'.fallthrough = watch.fallthrough + d
    PROVE  WatchInv'
<1>1. Taken' = Taken
  BY DEF Taken
<1>2. After(Edges)' = After(Edges)
  BY DEF After
<1>3. HoldsFront(watch.follow, FollowEdges, After(Edges))'
  BY <1>2 DEF WatchInv, HoldsFront
<1>4. watch'.visits \in Nat /\ watch'.fallthrough \in Nat
  BY DEF WatchInv
<1>5. PICK t \in Nat : t = Len(Taken)
  BY EdgesTyped
<1>6. watch'.visits = watch'.fallthrough + t
  BY <1>5 DEF WatchInv
<1> QED
  BY <1>1, <1>2, <1>3, <1>4, <1>5, <1>6 DEF WatchInv

\* An edge is the first branch at the watched address, is followed, or both.
LEMMA WatchStores ==
    ASSUME RingInv, FlowInv, WatchInv, NEW x \in Jumps, x.sequence = Len(Fetched) + 1,
           Edges' = Append(Edges, x), watch' = WatchRecord(watch, x.from, x.to, x.sequence)
    PROVE  WatchInv'
<1>1. PICK n \in Nat : n = Len(Fetched)
  BY EdgesTyped
<1>2. x \in FlowEdges /\ ~Sequential(x.from, x.to) /\ x.sequence = n + 1
  BY <1>1 DEF Jumps
<1>3. (x \in Branches) <=> x.from = WatchFrom
  BY <1>2 DEF Branches
<1>4. Edge(x.sequence, x.from, x.to) = x /\ x # None
  BY <1>2 DEF Edge, FlowEdges, None
<1> DEFINE taken == IF x \in Branches /\ watch.taken = None THEN x ELSE watch.taken
           follows == taken # None /\ watch.count < FollowEdges
<1>5. watch' = [visits |-> watch.visits + (IF x \in Branches THEN 1 ELSE 0),
                fallthrough |-> watch.fallthrough + 0,
                taken |-> taken,
                count |-> watch.count + (IF follows THEN 1 ELSE 0),
                follow |-> IF follows THEN [watch.follow EXCEPT ![watch.count] = x]
                           ELSE watch.follow]
  BY <1>2, <1>3, <1>4, Zenon DEF WatchRecord, Follows
<1>6. Taken \in Seq(EdgesOf(n)) /\ (Taken # <<>> => Taken[1] # None) /\ Edges \in Seq(FlowEdges)
      /\ After(Edges) \in Seq(FlowEdges)
  BY <1>1, EdgesTyped
<1>7. Taken' = IF x \in Branches THEN Append(Taken, x) ELSE Taken
  BY <1>2, <1>6, KeptAppend DEF Taken
<1>8. PICK t \in Nat : t = Len(Taken)
  BY <1>6
<1>9. Len(Taken') = t + (IF x \in Branches THEN 1 ELSE 0)
  BY <1>6, <1>7, <1>8
<1>10. taken = IF Taken' = <<>> THEN None ELSE Taken'[1]
  <2>1. watch.taken = IF Taken = <<>> THEN None ELSE Taken[1]
    BY DEF WatchInv
  <2>2. CASE Taken = <<>>
    BY <2>1, <2>2, <1>7
  <2>3. CASE Taken # <<>>
    <3>1. Taken' # <<>> /\ Taken'[1] = Taken[1]
      BY <1>6, <1>7, <2>3
    <3> QED
      BY <3>1, <2>1, <2>3, <1>6
  <2> QED
    BY <2>2, <2>3
<1>11. (taken = None) <=> (Taken' = <<>>)
  <2>1. watch.taken = IF Taken = <<>> THEN None ELSE Taken[1]
    BY DEF WatchInv
  <2>2. CASE Taken = <<>>
    BY <2>1, <2>2, <1>7, <1>4
  <2>3. CASE Taken # <<>>
    <3>1. Taken' # <<>>
      BY <1>6, <1>7, <2>3
    <3> QED
      BY <3>1, <2>1, <2>3, <1>6, <1>4
  <2> QED
    BY <2>2, <2>3
<1>12. After(Edges') = IF Taken' = <<>> THEN After(Edges) ELSE Append(After(Edges), x)
  <2>1. Edges \in Seq(Below(x.sequence))
    BY <1>1, <1>2, EdgesTyped
  <2>2. Taken' = Kept(Append(Edges, x), Branches)
    BY DEF Taken
  <2> QED
    BY <1>2, <2>1, <2>2, AfterAdded
<1>13. PICK a \in Nat : a = Len(After(Edges))
  BY <1>6
<1>14. FollowEdges \in Nat \ {0} /\ watch.count = IF a < FollowEdges THEN a ELSE FollowEdges
  BY <1>13, MemoryTraceAssumption DEF WatchInv, Least
<1> HIDE DEF taken
<1>15. watch'.count = Least(Len(After(Edges')), FollowEdges)
       /\ HoldsFront(watch'.follow, FollowEdges, After(Edges'))
  <2>1. CASE taken = None
    <3>1. ~follows /\ After(Edges') = After(Edges)
      BY <2>1, <1>11, <1>12
    <3>2. watch'.count = watch.count /\ watch'.follow = watch.follow
      BY <1>5, <1>14, <3>1
    <3> QED
      BY <3>1, <3>2 DEF WatchInv
  <2>2. CASE taken # None
    <3>1. After(Edges') = Append(After(Edges), x) /\ Len(After(Edges')) = a + 1
      BY <2>2, <1>2, <1>6, <1>11, <1>12, <1>13
    <3>2. follows <=> a < FollowEdges
      BY <2>2, <1>14
    <3>3. watch'.follow = IF Len(After(Edges)) < FollowEdges
                          THEN [watch.follow EXCEPT ![Len(After(Edges))] = x] ELSE watch.follow
      BY <3>2, <1>5, <1>13, <1>14
    <3>4. HoldsFront(watch.follow, FollowEdges, After(Edges))
      BY DEF WatchInv
    <3>5. HoldsFront(watch'.follow, FollowEdges, After(Edges'))
      <4>1. PICK y \in Seq(FlowEdges) : y = After(Edges)
        BY <1>6
      <4>2. PICK f : f = watch.follow
        OBVIOUS
      <4>3. HoldsFront(f, FollowEdges, y)
        BY <3>4, <4>1, <4>2
      <4>4. HoldsFront(IF Len(y) < FollowEdges THEN [f EXCEPT ![Len(y)] = x] ELSE f,
                       FollowEdges, Append(y, x))
        BY <1>2, <1>14, <4>3, FrontStored
      <4> QED
        BY <3>1, <3>3, <4>1, <4>2, <4>4
    <3>6. watch'.count = watch.count + (IF a < FollowEdges THEN 1 ELSE 0)
      BY <3>2, <1>5
    <3>7. watch'.count = Least(a + 1, FollowEdges)
      BY <3>6, <1>14 DEF Least
    <3> QED
      BY <3>1, <3>5, <3>7
  <2> QED
    BY <2>1, <2>2
<1>16. watch'.visits \in Nat /\ watch'.fallthrough \in Nat
       /\ watch'.visits = watch'.fallthrough + Len(Taken')
  <2>1. watch.visits \in Nat /\ watch.fallthrough \in Nat /\ watch.visits = watch.fallthrough + t
    BY <1>8 DEF WatchInv
  <2>2. watch'.visits = watch.visits + (IF x \in Branches THEN 1 ELSE 0)
        /\ watch'.fallthrough = watch.fallthrough
    BY <1>5, <2>1
  <2> QED
    BY <2>1, <2>2, <1>9
<1>17. watch'.taken = taken
  BY <1>5
<1>18. HoldsFront(watch.follow, FollowEdges, After(Edges))'
  BY <1>15 DEF HoldsFront, After
<1>19. After(Edges)' = After(Edges')
  BY DEF After
<1> QED
  BY <1>10, <1>15, <1>16, <1>17, <1>18, <1>19 DEF WatchInv

\* A request moves the flow and the fetch watch only when it is a fetch that
\* succeeded.
LEMMA FlowStep ==
    ASSUME RingInv, FlowInv, WatchInv, NEW q \in Requests, Observe(q)
    PROVE  FlowInv' /\ WatchInv'
<1>1. history' = Append(history, q)
  BY DEF Observe
<1>2. CASE q \notin Fetches
  <2>1. UNCHANGED <<flow, first, last, watch>>
    BY <1>2 DEF Observe, Fetches
  <2>2. Fetched' = Fetched /\ Edges' = Edges
    BY <1>1, <1>2, FetchAdded
  <2>3. FlowInv'
    BY <2>1, <2>2 DEF FlowInv, HoldsFront, HoldsTail
  <2>4. WatchInv'
    <3>1. /\ 0 \in Nat /\ watch'.visits = watch.visits + 0
          /\ watch'.fallthrough = watch.fallthrough + 0
      BY <2>1 DEF WatchInv
    <3> QED
      BY <2>1, <2>2, <3>1, WatchStays
  <2> QED
    BY <2>3, <2>4
<1>3. CASE q \in Fetches
  <2>1. FlowRecord(q.address)
    BY <1>3 DEF Observe, Fetches
  <2>2. Fetched \in Seq(Fetches) /\ flow.fetches = Len(Fetched) /\ flow.edges = Len(Edges)
        /\ flow.previous = IF Fetched = <<>> THEN NoPc ELSE <<Fetched[Len(Fetched)].address>>
    BY <1>1, FetchAdded DEF FlowInv
  <2>3. flow.edges \in Nat /\ flow.fetches \in Nat
    BY <2>2, EdgesTyped
  <2>4. CASE Fetched = <<>>
    <3>1. flow.previous = NoPc
      BY <2>2, <2>4
    <3>2. watch' = watch /\ first' = first /\ last' = last
          /\ flow' = [fetches |-> flow.fetches + 1, previous |-> <<q.address>>,
                      edges |-> flow.edges + 0]
      BY <2>1, <3>1 DEF FlowRecord
    <3>3. Edges' = Edges
      BY <1>1, <1>3, <2>4, FetchAdded
    <3>4. FlowInv'
      BY <1>1, <1>3, <2>3, <3>2, <3>3, FlowMoves
    <3>5. /\ 0 \in Nat /\ watch'.visits = watch.visits + 0
          /\ watch'.fallthrough = watch.fallthrough + 0
      BY <3>2 DEF WatchInv
    <3> QED
      BY <3>2, <3>3, <3>4, <3>5, WatchStays
  <2>5. CASE Fetched # <<>>
    <3>1. PICK p : p = Fetched[Len(Fetched)].address
      OBVIOUS
    <3>2. flow.previous = <<p>> /\ flow.previous # NoPc /\ flow.previous[1] = p
      BY <2>2, <2>5, <3>1 DEF NoPc
    <3>3. PICK x : x = Edge(Len(Fetched) + 1, p, q.address)
      OBVIOUS
    <3>4. x \in FlowEdges /\ Edges' = IF x \in Jumps THEN Append(Edges, x) ELSE Edges
      BY <1>1, <1>3, <2>5, <3>1, <3>3, FetchAdded
    <3>5. x.sequence = Len(Fetched) + 1 /\ x.from = p /\ x.to = q.address
      BY <3>3 DEF Edge
    <3>6. (x \in Jumps) <=> ~Sequential(p, q.address)
      BY <3>4, <3>5 DEF Jumps
    <3>7. watch' = WatchRecord(watch, p, q.address, flow.fetches + 1)
      BY <2>1, <3>2 DEF FlowRecord
    <3>8. CASE x \in Jumps
      <4>1. /\ first' = IF flow.edges < FirstEdges THEN [first EXCEPT ![flow.edges] = x] ELSE first
            /\ last' = [last EXCEPT ![flow.edges % LastEdges] = x]
            /\ flow' = [fetches |-> flow.fetches + 1, previous |-> <<q.address>>,
                        edges |-> flow.edges + 1]
        BY <2>1, <2>2, <3>2, <3>3, <3>6, <3>8 DEF FlowRecord
      <4>2. FlowInv'
        BY <1>1, <1>3, <2>5, <3>4, <3>5, <3>8, <4>1, FlowStores
      <4>3. WatchInv'
        BY <2>2, <3>4, <3>5, <3>7, <3>8, WatchStores
      <4> QED
        BY <4>2, <4>3
    <3>9. CASE x \notin Jumps
      <4>1. /\ first' = first /\ last' = last
            /\ flow' = [fetches |-> flow.fetches + 1, previous |-> <<q.address>>,
                        edges |-> flow.edges + 0]
        BY <2>1, <3>2, <3>6, <3>9 DEF FlowRecord
      <4>2. FlowInv'
        BY <1>1, <1>3, <2>3, <3>4, <3>9, <4>1, FlowMoves
      <4>3. PICK d \in Nat : d = IF p = WatchFrom THEN 1 ELSE 0
        OBVIOUS
      <4>4. /\ watch'.taken = watch.taken /\ watch'.count = watch.count + 0
            /\ watch'.follow = watch.follow
            /\ watch'.visits = watch.visits + d /\ watch'.fallthrough = watch.fallthrough + d
        BY <3>6, <3>7, <3>9, <4>3 DEF WatchRecord
      <4>5. watch.count \in Nat
        <5>1. Len(After(Edges)) \in Nat
          BY EdgesTyped
        <5> QED
          BY <5>1, MemoryTraceAssumption DEF WatchInv, Least
      <4>6. WatchInv'
        BY <3>4, <3>9, <4>3, <4>4, <4>5, WatchStays
      <4> QED
        BY <4>2, <4>6
    <3> QED
      BY <3>8, <3>9
  <2> QED
    BY <2>4, <2>5
<1> QED
  BY <1>2, <1>3

\* One access after the first is counted in one direction.
LEMMA DirectionCounted ==
    ASSUME NEW f \in Nat, NEW b \in Nat, NEW r \in Nat, NEW n \in Nat, NEW d,
           n = 0 => f + b + r = 0, n # 0 => f + b + r + 1 = n,
           n = 0 => d = "none", n # 0 => d \in {"forward", "backward", "repeated"},
           NEW x, NEW y, NEW z,
           x = IF d = "forward" THEN f + 1 ELSE f,
           y = IF d = "backward" THEN b + 1 ELSE b,
           z = IF d = "repeated" THEN r + 1 ELSE r
    PROVE  x + y + z + 1 = n + 1
<1>1. CASE n = 0
  BY <1>1
<1>2. CASE n # 0 /\ d = "forward"
  BY <1>2
<1>3. CASE n # 0 /\ d = "backward"
  BY <1>3
<1>4. CASE n # 0 /\ d = "repeated"
  BY <1>4
<1> QED
  BY <1>1, <1>2, <1>3, <1>4

\* The load watch after one more request.
LEMMA LoadStep ==
    ASSUME RingInv, LoadInv, NEW q \in Requests, Observe(q)
    PROVE  LoadInv'
<1>1. history' = Append(history, q) /\ load' = LoadRecord(q)
  BY DEF Observe
<1>2. q.address \in Nat /\ q.value \in Nat
  BY MemoryTraceAssumption
<1>3. LoadsTaken \in Seq(WatchedLoads)
  <2>1. LoadsTaken \in Seq(Requests \cap WatchedLoads)
    BY KeptType DEF RingInv, LoadsTaken
  <2> QED
    BY <2>1, SeqMonotonic, Requests \cap WatchedLoads \subseteq WatchedLoads
<1>4. LoadsTaken' = IF q \in WatchedLoads THEN Append(LoadsTaken, q) ELSE LoadsTaken
  BY <1>1, KeptAppend DEF RingInv, LoadsTaken
<1>5. PICK l \in Seq(WatchedLoads) : l = LoadsTaken
  BY <1>3
<1>6. PICK n \in Nat : n = Len(l)
  OBVIOUS
<1>7. PICK w : w = load
  OBVIOUS
<1>8. /\ w \in [requests : Nat, successful : Nat, firstAddress : Nat, lastAddress : Nat,
                lastValue : Nat, forward : Nat, backward : Nat, repeated : Nat, changes : Nat,
                crossed : FlowEdges]
      /\ w.successful = n
      /\ l = <<>> => w.forward + w.backward + w.repeated = 0
      /\ l # <<>> => /\ w.lastAddress = l[n].address
                     /\ w.forward + w.backward + w.repeated + 1 = n
      /\ Crossings(l) = {} => w.crossed = None
      /\ Crossings(l) # {} =>
           w.crossed = Edge(Min(Crossings(l)), l[Min(Crossings(l)) - 1].address,
                            l[Min(Crossings(l))].address)
  BY <1>5, <1>6, <1>7 DEF LoadInv
<1>9. CASE q \notin WatchedLoads
  <2>1. load' = load \/ load' = [load EXCEPT !.requests = @ + 1]
    BY <1>1, <1>9 DEF LoadRecord, WatchedLoads
  <2>2. LoadsTaken' = LoadsTaken
    BY <1>4, <1>9
  <2>3. /\ load' \in [requests : Nat, successful : Nat, firstAddress : Nat, lastAddress : Nat,
                      lastValue : Nat, forward : Nat, backward : Nat, repeated : Nat,
                      changes : Nat, crossed : FlowEdges]
        /\ load'.successful = load.successful /\ load'.lastAddress = load.lastAddress
        /\ load'.forward = load.forward /\ load'.backward = load.backward
        /\ load'.repeated = load.repeated /\ load'.crossed = load.crossed
    <3>1. CASE load' = load
      BY <3>1, <1>7, <1>8
    <3>2. CASE load' = [load EXCEPT !.requests = @ + 1]
      <4>1. load' = [w EXCEPT !.requests = w.requests + 1]
        BY <3>2, <1>7
      <4>2. w.requests + 1 \in Nat
        BY <1>8
      <4> QED
        BY <4>1, <4>2, <1>7, <1>8
    <3> QED
      BY <2>1, <3>1, <3>2
  <2> QED
    BY <2>2, <2>3 DEF LoadInv
<1>10. CASE q \in WatchedLoads
  <2>1. q.op = "LOAD" /\ q.pc = WatchPc /\ q.result = "OK"
    BY <1>10 DEF WatchedLoads
  <2> DEFINE d == Direction(w, q.address)
             c == IF Crosses(q.address) THEN Edge(n + 1, w.lastAddress, q.address) ELSE w.crossed
  <2>2. load' = [requests |-> w.requests + 1,
                 successful |-> n + 1,
                 firstAddress |-> IF n = 0 THEN q.address ELSE w.firstAddress,
                 lastAddress |-> q.address,
                 lastValue |-> q.value,
                 forward |-> Bump(w.forward, d = "forward"),
                 backward |-> Bump(w.backward, d = "backward"),
                 repeated |-> Bump(w.repeated, d = "repeated"),
                 changes |-> Bump(w.changes, n > 0 /\ q.value # w.lastValue),
                 crossed |-> c]
    BY <1>1, <1>7, <1>8, <2>1, Zenon DEF LoadRecord
  <2>3. PICK k \in Seq(WatchedLoads) : k = Append(l, q) /\ k = LoadsTaken'
    BY <1>4, <1>5, <1>10
  <2>4. Len(k) = n + 1 /\ k # <<>> /\ k[n + 1] = q /\ \A i \in 1..n : k[i] = l[i]
    <3>1. Len(Append(l, q)) = n + 1 /\ Append(l, q)[n + 1] = q
          /\ \A i \in 1..n : Append(l, q)[i] = l[i]
      BY <1>6, <1>10
    <3>2. Len(k) # 0
      BY <2>3, <3>1
    <3> QED
      BY <2>3, <3>1, <3>2, Len(<<>>) = 0
  <2>5. n = 0 <=> l = <<>>
    BY <1>6
  <2>6. (n = 0 => d = "none") /\ (n # 0 => d \in {"forward", "backward", "repeated"})
    BY <1>8 DEF Direction
  <2>7. c \in FlowEdges
    BY <1>2, <1>8 DEF Edge, FlowEdges
  <2> HIDE DEF c, d
  <2>8. load' \in [requests : Nat, successful : Nat, firstAddress : Nat, lastAddress : Nat,
                   lastValue : Nat, forward : Nat, backward : Nat, repeated : Nat, changes : Nat,
                   crossed : FlowEdges]
    <3>2. {w.requests, w.forward, w.backward, w.repeated, w.changes, w.firstAddress} \subseteq Nat
      BY <1>8
    <3>3. Bump(w.forward, d = "forward") \in Nat
      BY <3>2 DEF Bump
    <3>4. Bump(w.backward, d = "backward") \in Nat
      BY <3>2 DEF Bump
    <3>5. Bump(w.repeated, d = "repeated") \in Nat
      BY <3>2 DEF Bump
    <3>6. Bump(w.changes, n > 0 /\ q.value # w.lastValue) \in Nat
      BY <3>2 DEF Bump
    <3> QED
      BY <1>2, <2>2, <2>7, <3>2, <3>3, <3>4, <3>5, <3>6
  <2>9. load'.forward + load'.backward + load'.repeated + 1 = n + 1
    <3>1. PICK f \in Nat, b \in Nat, r \in Nat :
             f = w.forward /\ b = w.backward /\ r = w.repeated
      BY <1>8
    <3>2. /\ load'.forward = IF d = "forward" THEN f + 1 ELSE f
          /\ load'.backward = IF d = "backward" THEN b + 1 ELSE b
          /\ load'.repeated = IF d = "repeated" THEN r + 1 ELSE r
      BY <2>2, <3>1 DEF Bump
    <3>3. (n = 0 => f + b + r = 0) /\ (n # 0 => f + b + r + 1 = n)
      BY <1>8, <2>5, <3>1
    <3> QED
      BY <2>6, <3>2, <3>3, DirectionCounted
  <2>10. Crossings(k) = Crossings(l) \cup
           (IF l # <<>> /\ l[n].address < Threshold /\ q.address >= Threshold THEN {n + 1} ELSE {})
    BY <1>6, <1>10, <2>3, CrossingAdded
  <2>11. Crossings(l) \subseteq 2..n
    BY <1>6 DEF Crossings
  <2>12. CASE Crossings(l) # {}
    <3>1. PICK m \in Nat : m = Min(Crossings(l)) /\ m \in Crossings(l)
      BY <2>11, <2>12, MinIs
    <3>2. m \in 2..n /\ m - 1 \in 1..n /\ m \in 1..n
      BY <2>11, <3>1
    <3>3. Min(Crossings(k)) = m
      <4>1. Crossings(l) \subseteq Nat /\ \A y \in Crossings(l) : y < n + 1
        BY <2>11
      <4>2. Min(Crossings(l) \cup {n + 1}) = m
        BY <2>12, <3>1, <4>1, MinStays
      <4>3. Crossings(k) = Crossings(l) \/ Crossings(k) = Crossings(l) \cup {n + 1}
        BY <2>10
      <4> QED
        BY <3>1, <4>2, <4>3
    <3>4. w.crossed = Edge(m, l[m - 1].address, l[m].address)
      BY <1>8, <2>12, <3>1
    <3>5. w.crossed # None
      BY <3>2, <3>4 DEF Edge, None
    <3>6. c = w.crossed
      BY <1>7, <3>5 DEF c, Crosses
    <3>7. Crossings(k) # {}
      BY <2>10, <2>12
    <3>8. load'.crossed = Edge(m, k[m - 1].address, k[m].address)
      BY <2>2, <2>4, <3>2, <3>4, <3>6
    <3> QED
      BY <2>2, <2>3, <2>4, <2>8, <2>9, <3>3, <3>7, <3>8 DEF LoadInv
  <2>13. CASE Crossings(l) = {}
    <3>1. w.crossed = None
      BY <1>8, <2>13
    <3>2. Crosses(q.address) <=> (l # <<>> /\ l[n].address < Threshold /\ q.address >= Threshold)
      BY <1>7, <1>8, <2>5, <3>1 DEF Crosses
    <3>3. CASE Crosses(q.address)
      <4>1. Crossings(k) = {n + 1} /\ n # 0 /\ w.lastAddress = l[n].address
        BY <1>8, <2>5, <2>10, <2>13, <3>2, <3>3
      <4>2. Min(Crossings(k)) = n + 1
        <5>1. {n + 1} \subseteq Nat /\ {n + 1} # {}
          OBVIOUS
        <5>2. Min({n + 1}) \in {n + 1}
          BY <5>1, MinIs
        <5> QED
          BY <4>1, <5>2
      <4>3. k[(n + 1) - 1] = l[n] /\ k[n + 1] = q
        BY <2>4, <4>1
      <4>4. load'.crossed = Edge(n + 1, k[(n + 1) - 1].address, k[n + 1].address)
        BY <2>2, <3>3, <4>1, <4>3 DEF c
      <4> QED
        BY <2>2, <2>3, <2>4, <2>8, <2>9, <4>1, <4>2, <4>4 DEF LoadInv
    <3>4. CASE ~Crosses(q.address)
      <4>1. Crossings(k) = {}
        BY <2>10, <2>13, <3>2, <3>4
      <4>2. load'.crossed = None
        BY <2>2, <3>1, <3>4 DEF c
      <4> QED
        BY <2>2, <2>3, <2>4, <2>8, <2>9, <4>1, <4>2 DEF LoadInv
    <3> QED
      BY <3>3, <3>4
  <2> QED
    BY <2>12, <2>13
<1> QED
  BY <1>9, <1>10

\* The store watch after one more request.
LEMMA StoreStep ==
    ASSUME StoreInv, NEW q \in Requests, Observe(q)
    PROVE  StoreInv'
<1>1. store' = StoreRecord(q)
  BY DEF Observe
<1>2. q.address \in Nat /\ q.value \in Nat
  BY MemoryTraceAssumption
<1>3. PICK w : w = store
  OBVIOUS
<1>4. /\ w \in [requests : Nat, successful : Nat, firstAddress : Nat, firstValue : Nat,
                lastAddress : Nat, lastValue : Nat, forward : Nat, backward : Nat, repeated : Nat]
      /\ w.successful = 0 => w.forward + w.backward + w.repeated = 0
      /\ w.successful > 0 => w.forward + w.backward + w.repeated + 1 = w.successful
  BY <1>3 DEF StoreInv
<1>5. CASE store' = store \/ store' = [store EXCEPT !.requests = @ + 1]
  <2>1. /\ store' \in [requests : Nat, successful : Nat, firstAddress : Nat, firstValue : Nat,
                       lastAddress : Nat, lastValue : Nat, forward : Nat, backward : Nat,
                       repeated : Nat]
        /\ store'.successful = w.successful /\ store'.forward = w.forward
        /\ store'.backward = w.backward /\ store'.repeated = w.repeated
    BY <1>3, <1>4, <1>5
  <2> QED
    BY <1>4, <2>1 DEF StoreInv
<1>6. CASE q.op = "STORE" /\ q.pc = WatchPc /\ q.result = "OK"
  <2> DEFINE d == Direction(w, q.address)
  <2>1. store' = [requests |-> w.requests + 1,
                  successful |-> w.successful + 1,
                  firstAddress |-> IF w.successful = 0 THEN q.address ELSE w.firstAddress,
                  firstValue |-> IF w.successful = 0 THEN q.value ELSE w.firstValue,
                  lastAddress |-> q.address,
                  lastValue |-> q.value,
                  forward |-> Bump(w.forward, d = "forward"),
                  backward |-> Bump(w.backward, d = "backward"),
                  repeated |-> Bump(w.repeated, d = "repeated")]
    BY <1>1, <1>3, <1>6, Zenon DEF StoreRecord
  <2>2. (w.successful = 0 => d = "none")
        /\ (w.successful # 0 => d \in {"forward", "backward", "repeated"})
    BY DEF Direction
  <2> HIDE DEF d
  <2>3. {w.requests, w.successful, w.forward, w.backward, w.repeated, w.firstAddress,
         w.firstValue} \subseteq Nat
    BY <1>4
  <2>4. Bump(w.forward, d = "forward") \in Nat /\ Bump(w.backward, d = "backward") \in Nat
        /\ Bump(w.repeated, d = "repeated") \in Nat
    BY <2>3 DEF Bump
  <2>5. store' \in [requests : Nat, successful : Nat, firstAddress : Nat, firstValue : Nat,
                    lastAddress : Nat, lastValue : Nat, forward : Nat, backward : Nat,
                    repeated : Nat]
    BY <1>2, <2>1, <2>3, <2>4
  <2>6. /\ store'.successful = w.successful + 1
        /\ store'.forward = IF d = "forward" THEN w.forward + 1 ELSE w.forward
        /\ store'.backward = IF d = "backward" THEN w.backward + 1 ELSE w.backward
        /\ store'.repeated = IF d = "repeated" THEN w.repeated + 1 ELSE w.repeated
    BY <2>1 DEF Bump
  <2>7. store'.forward + store'.backward + store'.repeated + 1 = store'.successful
    <3>1. PICK f \in Nat, b \in Nat, r \in Nat, n \in Nat :
             f = w.forward /\ b = w.backward /\ r = w.repeated /\ n = w.successful
      BY <2>3
    <3>2. (n = 0 => f + b + r = 0) /\ (n # 0 => f + b + r + 1 = n)
      BY <1>4, <3>1
    <3> QED
      <4>1. /\ n = 0 => d = "none"
            /\ n # 0 => d \in {"forward", "backward", "repeated"}
        BY <2>2, <3>1
      <4>2. /\ store'.forward = IF d = "forward" THEN f + 1 ELSE f
            /\ store'.backward = IF d = "backward" THEN b + 1 ELSE b
            /\ store'.repeated = IF d = "repeated" THEN r + 1 ELSE r
            /\ store'.successful = n + 1
        BY <2>6, <3>1
      <4> QED
        BY <3>2, <4>1, <4>2, DirectionCounted
  <2> QED
    BY <2>3, <2>5, <2>6, <2>7 DEF StoreInv
<1> QED
  BY <1>1, <1>5, <1>6 DEF StoreRecord

\* The empty trace satisfies the invariant.
LEMMA TraceStarts == TraceInit => TraceInv
<1> SUFFICES ASSUME TraceInit PROVE TraceInv
  OBVIOUS
<1>1. history = <<>> /\ Fetched = <<>> /\ LoadsTaken = <<>>
  BY KeptEmpty DEF TraceInit, Fetched, LoadsTaken
<1>2. Steps(Fetched) = <<>>
  BY <1>1 DEF Steps
<1>3. Edges = <<>>
  BY <1>2, KeptEmpty DEF Edges, Fetched
<1>4. Taken = <<>> /\ After(Edges) = <<>>
  BY <1>3, KeptEmpty DEF Taken, After
<1>5. Len(<<>>) = 0 /\ 1..0 = {}
  OBVIOUS
<1>6. {Capacity, FirstEdges, LastEdges, FollowEdges} \subseteq Nat \ {0}
  BY MemoryTraceAssumption
<1>7. RingInv
  <2>1. Numbered = <<>>
    BY <1>1 DEF Numbered
  <2>2. HoldsTail(ring, Capacity, Numbered)
    BY <1>5, <2>1 DEF TraceInit, HoldsTail
  <2>3. 0 % Capacity = 0 /\ Least(0, Capacity) = 0
    <3>1. 0 = Capacity * 0 + 0 /\ 0 \in 0..(Capacity - 1)
      BY <1>6
    <3> QED
      BY <1>6, <3>1, ModIs DEF Least
  <2> QED
    BY <1>1, <2>2, <2>3 DEF RingInv, TraceInit, MemoryStart
<1>8. FlowInv
  <2>1. HoldsFront(first, FirstEdges, Edges) /\ HoldsTail(last, LastEdges, Edges)
    BY <1>3, <1>5 DEF TraceInit, FlowStart, HoldsFront, HoldsTail
  <2> QED
    BY <1>1, <1>3, <2>1, EmptySeq DEF FlowInv, TraceInit, FlowStart
<1>9. WatchInv
  <2>1. HoldsFront(watch.follow, FollowEdges, After(Edges))
    BY <1>4, <1>5 DEF TraceInit, WatchStart, HoldsFront
  <2> QED
    BY <1>4, <1>6, <2>1 DEF WatchInv, TraceInit, WatchStart, Least
<1>10. LoadInv
  <2>1. Crossings(LoadsTaken) = {}
    BY <1>1 DEF Crossings
  <2> QED
    BY <1>1, <2>1 DEF LoadInv, TraceInit, LoadStart, None, FlowEdges
<1>11. StoreInv
  BY DEF StoreInv, TraceInit, StoreStart
<1> QED
  BY <1>7, <1>8, <1>9, <1>10, <1>11 DEF TraceInv

\* The invariant of the observers: the bounded arrays hold what the whole
\* history of requests says they should, for any capacities and requests.
THEOREM TraceInvariant == TraceSpec => []TraceInv
<1>1. TraceInv /\ [TraceNext]_traceVars => TraceInv'
  <2> SUFFICES ASSUME TraceInv, [TraceNext]_traceVars PROVE TraceInv'
    OBVIOUS
  <2>1. ASSUME NEW q \in Requests, Observe(q) PROVE TraceInv'
    BY <2>1, RingStep, FlowStep, LoadStep, StoreStep DEF TraceInv
  <2>2. CASE UNCHANGED traceVars
    <3> USE <2>2 DEF traceVars
    <3>1. RingInv'
      BY DEF TraceInv, RingInv, HoldsTail, Numbered
    <3>2. Fetched' = Fetched /\ Edges' = Edges /\ Taken' = Taken /\ LoadsTaken' = LoadsTaken
      BY DEF Fetched, Edges, Taken, LoadsTaken
    <3>3. FlowInv'
      BY <3>2 DEF TraceInv, FlowInv, HoldsFront, HoldsTail
    <3>4. WatchInv'
      BY <3>2 DEF TraceInv, WatchInv, HoldsFront, After
    <3>5. LoadInv'
      BY <3>2 DEF TraceInv, LoadInv
    <3>6. StoreInv'
      BY DEF TraceInv, StoreInv
    <3> QED
      BY <3>1, <3>3, <3>4, <3>5, <3>6 DEF TraceInv
  <2> QED
    BY <2>1, <2>2 DEF TraceNext
<1> QED
  BY <1>1, TraceStarts, PTL DEF TraceSpec

\* The windows the invariant speaks of are the ones that are reported.
LEMMA RingReported ==
    ASSUME RingInv
    PROVE  RingIsTail
<1> USE DEF RingInv
<1>1. PICK n \in Nat : n = Len(history) /\ n = total
  OBVIOUS
<1>2. PICK c \in Nat \ {0} : c = Capacity
  BY MemoryTraceAssumption
<1>3. PICK m \in Nat : m = Least(n, c) /\ m <= n /\ m <= c /\ (m = c \/ m = n)
  BY DEF Least
<1>4. Numbered \in Seq([sequence : Nat, request : Requests]) /\ Len(Numbered) = n
  <2>1. \A i \in 1..n :
           [sequence |-> i, request |-> history[i]] \in [sequence : Nat, request : Requests]
    BY <1>1
  <2> QED
    BY <1>1, <2>1 DEF Numbered
<1>5. Reported = Tail_(Numbered, Capacity)
  BY <1>1, <1>2, <1>4, TailReported DEF Reported
<1>6. Entries = [i \in 1..m |-> ring[((IF m = c THEN n % c ELSE 0) + i - 1) % c]]
  BY <1>1, <1>2, <1>3 DEF Entries
<1>7. Reported = [i \in 1..m |-> ring[(n - m + i - 1) % c]]
  BY <1>1, <1>2, <1>3 DEF Reported
<1>8. ASSUME NEW i \in 1..m
      PROVE  ((IF m = c THEN n % c ELSE 0) + i - 1) % c = (n - m + i - 1) % c
  <2>1. CASE m = c
    <3>1. PICK b \in Nat : b = i - 1
      OBVIOUS
    <3>2. PICK a \in Nat : a = n - m + i - 1
      BY <1>3
    <3>3. ((n % c) + b) % c = (n + b) % c
      BY SlotOnwards
    <3>4. n + b = a + c
      BY <2>1, <3>1, <3>2
    <3>5. (a + c) % c = a % c
      BY SlotTurn
    <3>6. n % c \in Nat
      BY ModBasic
    <3>7. (n % c) + i - 1 = (n % c) + b
      BY <3>1, <3>6
    <3> QED
      BY <2>1, <3>2, <3>3, <3>4, <3>5, <3>7
  <2>2. CASE m # c
    <3>1. 0 + i - 1 = n - m + i - 1
      BY <2>2, <1>3
    <3> QED
      BY <2>2, <3>1
  <2> QED
    BY <2>1, <2>2
<1>9. Entries = Reported
  BY <1>6, <1>7, <1>8
<1> QED
  BY <1>5, <1>9 DEF RingIsTail, Numbered

\* The flow reports both ends of the edges.
LEMMA FlowReported ==
    ASSUME RingInv, FlowInv
    PROVE  FlowIsExact
<1>1. PICK e \in Seq(FlowEdges) : e = Edges
  BY EdgesTyped
<1>2. PICK n \in Nat : n = Len(e)
  OBVIOUS
<1>3. flow.edges = n /\ HoldsFront(first, FirstEdges, e) /\ HoldsTail(last, LastEdges, e)
  BY <1>1, <1>2 DEF FlowInv
<1>4. {FirstEdges, LastEdges} \subseteq Nat \ {0}
  BY MemoryTraceAssumption
<1>5. FirstReported = Front_(e, FirstEdges)
  BY <1>2, <1>3, <1>4, FrontReported DEF FirstReported
<1>6. LastReported = IF n > FirstEdges THEN Tail_(e, LastEdges) ELSE <<>>
  <2>1. CASE n > FirstEdges
    <3>1. [i \in 1..Least(Len(e), LastEdges) |->
              last[(Len(e) - Least(Len(e), LastEdges) + i - 1) % LastEdges]] = Tail_(e, LastEdges)
      BY <1>3, <1>4, TailReported
    <3> QED
      BY <1>2, <1>3, <2>1, <3>1 DEF LastReported
  <2>2. CASE ~(n > FirstEdges)
    BY <1>3, <2>2 DEF LastReported
  <2> QED
    BY <2>1, <2>2
<1> QED
  BY <1>1, <1>2, <1>3, <1>5, <1>6 DEF FlowIsExact

\* The bounded arrays the observers report from agree with the whole history
\* of requests, before and after they wrap, whatever their capacities and the
\* requests (mapped_trace.rs, memory_observation.rs).
THEOREM WindowsExact == TraceSpec => []WindowsAreExact
<1>1. ASSUME TraceInv PROVE WindowsAreExact
  <2>1. RingIsTail /\ FlowIsExact
    BY <1>1, RingReported, FlowReported DEF TraceInv
  <2>2. WatchIsExact
    <3>1. After(Edges) \in Seq(FlowEdges) /\ FollowEdges \in Nat \ {0}
      BY <1>1, EdgesTyped, MemoryTraceAssumption DEF TraceInv
    <3>2. Followed = Front_(After(Edges), FollowEdges)
      BY <1>1, <3>1, FrontReported DEF TraceInv, WatchInv, Followed
    <3> QED
      BY <1>1, <3>2 DEF TraceInv, WatchInv, WatchIsExact, Taken
  <2>3. LoadsAreExact
    BY <1>1 DEF TraceInv, LoadInv, StoreInv, LoadsAreExact, LoadsTaken
  <2> QED
    BY <2>1, <2>2, <2>3 DEF WindowsAreExact
<1> QED
  BY <1>1, TraceInvariant, PTL

-----------------------------------------------------------------------------
(* The JIT probes: what run_case compares.                                 *)

\* A case that looks at the runner's status, and not for the one with which
\* the runner answers a refused callback.
LooksAtStatus(w) == "status" \in DOMAIN w /\ w["status"] # 5

\* Both keeps what its first record says, and takes the rest from the other.
LEMMA BothLooks ==
    ASSUME NEW f, NEW g,
           LooksAtStatus(f) \/ (LooksAtStatus(g) /\ "status" \notin DOMAIN f)
    PROVE  LooksAtStatus(Both(f, g))
BY DEF Both, LooksAtStatus

\* The expectations of the five probes.
LEMMA WantsLook ==
    /\ \A k, va : LooksAtStatus(MmuWant(k, va))
    /\ \A kind \in 0..2 : LooksAtStatus(DynamicWant(kind))
    /\ \A va, invalid : LooksAtStatus(DtWant(va, invalid))
    /\ \A l, upper, a1, tag : LooksAtStatus(AsidCase(l, upper, a1, tag).want)
    /\ \A q, target, entry : LooksAtStatus(HierarchyWant(q, target, entry))
<1>1. ASSUME NEW k, NEW va PROVE LooksAtStatus(MmuWant(k, va))
  BY BothLooks DEF MmuWant, LooksAtStatus
<1>2. ASSUME NEW kind \in 0..2 PROVE LooksAtStatus(DynamicWant(kind))
  BY BothLooks DEF DynamicWant, LooksAtStatus
<1>3. ASSUME NEW va, NEW invalid PROVE LooksAtStatus(DtWant(va, invalid))
  BY BothLooks DEF DtWant, LooksAtStatus
<1>4. ASSUME NEW l, NEW upper, NEW a1, NEW tag
      PROVE  LooksAtStatus(AsidCase(l, upper, a1, tag).want)
  BY DEF AsidCase, LooksAtStatus
<1>5. ASSUME NEW q, NEW target, NEW entry PROVE LooksAtStatus(HierarchyWant(q, target, entry))
  BY BothLooks DEF HierarchyWant, LooksAtStatus
<1> QED
  BY <1>1, <1>2, <1>3, <1>4, <1>5

\* The kinds of NXMMU are a sequence.
LEMMA MmuKindsCount == Len(MmuKinds) \in Nat
<1> DEFINE b1 == PairRow("offset", 0, FALSE)
           b2 == PairRow("pre", 0, FALSE)
           b3 == PairRow("post", 0, FALSE)
           C == [i \in 1..8 |-> PairRow("offset", <<1, 1, 2, 2, 4, 4, 5, 5>>[i], i % 2 = 0)]
           d1 == PairRow("offset", 3, FALSE)
           d2 == FetchRow(FALSE)
           d3 == FetchRow(TRUE)
           E == [i \in 1..10 |-> SplitRow(i % 2 = 1, <<0, 0, 1, 1, 2, 2, 4, 4, 5, 5>>[i])]
           f1 == SplitRow(TRUE, 3)
           B == <<b1, b2, b3>>
           D == <<d1, d2, d3>>
           F == <<f1>>
           Rows == {Scalars[i] : i \in 1..13} \cup {C[i] : i \in 1..8} \cup {E[i] : i \in 1..10}
                     \cup {b1, b2, b3, d1, d2, d3, f1}
<1>1. Scalars \in Seq({Scalars[i] : i \in 1..13})
  <2>1. Scalars = [i \in 1..13 |-> Scalars[i]]
    BY DEF Scalars
  <2> QED
    BY <2>1
<1>2. /\ Scalars \in Seq(Rows)
      /\ C \in Seq(Rows)
      /\ E \in Seq(Rows)
  <2> DEFINE SC == {Scalars[i] : i \in 1..13}
             SE == {C[i] : i \in 1..8}
             SF == {E[i] : i \in 1..10}
  <2>1. Scalars \in Seq(SC)
    BY <1>1
  <2>2. C \in [1..8 -> SE] /\ E \in [1..10 -> SF]
    OBVIOUS
  <2>a. /\ C = [i \in 1..8 |-> C[i]] /\ \A i \in 1..8 : C[i] \in SE
        /\ E = [i \in 1..10 |-> E[i]] /\ \A i \in 1..10 : E[i] \in SF
    BY <2>2
  <2>3. SC \subseteq Rows /\ SE \subseteq Rows /\ SF \subseteq Rows
    OBVIOUS
  <2> HIDE DEF SC, SE, SF, C, E, Rows
  <2>4. C \in Seq(SE)
    BY <2>a
  <2>5. E \in Seq(SF)
    BY <2>a
  <2> QED
    BY <2>1, <2>3, <2>4, <2>5, SeqMonotonic
<1>a. MmuKinds = Scalars \o B \o C \o D \o E \o F
  BY DEF MmuKinds
<1> HIDE DEF C, E, b1, b2, b3, d1, d2, d3, f1
<1>3. B \in Seq(Rows) /\ D \in Seq(Rows) /\ F \in Seq(Rows)
  OBVIOUS
<1>4. MmuKinds = Scalars \o B \o C \o D \o E \o F
  BY <1>a
<1> HIDE DEF B, C, D, E, F, Rows
<1>5. MmuKinds \in Seq(Rows)
  BY <1>1, <1>2, <1>3, <1>4
<1> QED
  BY <1>5

\* The cases of a probe are a sequence, and each of them looks at the status.
LEMMA CasesLook ==
    ASSUME NEW p \in Probes
    PROVE  \E S : CasesOf[p] \in Seq(S) /\ \A c \in S : LooksAtStatus(c.want)
<1>1. CASE p = "NXMMU"
  <2> DEFINE of(l, va) == [i \in 1..Len(MmuKinds) |-> MmuCase(MmuKinds[i], l, va)]
             Cases == {MmuCase(MmuKinds[i], l, va) :
                         i \in 1..Len(MmuKinds), l \in {3, 4}, va \in {0, Upper}}
  <2>1. ASSUME NEW l \in {3, 4}, NEW va \in {0, Upper} PROVE of(l, va) \in Seq(Cases)
    BY MmuKindsCount
  <2>2. CasesOf[p] = of(4, 0) \o of(4, Upper) \o of(3, 0) \o of(3, Upper)
    BY <1>1 DEF CasesOf, MmuCases
  <2>3. \A c \in Cases : LooksAtStatus(c.want)
    BY WantsLook DEF MmuCase
  <2> HIDE DEF of, Cases
  <2>4. CasesOf[p] \in Seq(Cases)
    BY <2>1, <2>2
  <2> QED
    BY <2>3, <2>4
<1>2. CASE p = "NXDYN"
  <2> DEFINE cs == CasesOf[p]
             Cases == {cs[i] : i \in 1..6}
  <2>1. cs = [i \in 1..6 |-> cs[i]]
    BY <1>2 DEF CasesOf, DynamicCases
  <2>2. ASSUME NEW i \in 1..6 PROVE LooksAtStatus(cs[i].want)
    <3>1. cs[i].want = DynamicWant((i - 1) % 3)
      BY <1>2 DEF CasesOf, DynamicCases, DynamicCase
    <3>2. (i - 1) % 3 \in 0..2
      OBVIOUS
    <3> QED
      BY <3>1, <3>2, WantsLook
  <2> HIDE DEF cs
  <2>3. \A c \in Cases : LooksAtStatus(c.want)
    BY <2>2
  <2>4. \A i \in 1..6 : cs[i] \in Cases
    OBVIOUS
  <2> HIDE DEF Cases
  <2>5. cs \in Seq(Cases)
    BY <2>1, <2>4
  <2> QED
    BY <2>3, <2>5 DEF cs
<1>3. CASE p = "NXDT"
  <2> DEFINE cs == CasesOf[p]
             Cases == {cs[i] : i \in 1..8}
  <2>1. cs = [i \in 1..8 |-> cs[i]]
    BY <1>3 DEF CasesOf, DtCases
  <2>2. ASSUME NEW i \in 1..8 PROVE LooksAtStatus(cs[i].want)
    <3>1. \E va, invalid : cs[i].want = DtWant(va, invalid)
      BY <1>3 DEF CasesOf, DtCases, DtCase
    <3> QED
      BY <3>1, WantsLook
  <2> HIDE DEF cs
  <2>3. \A c \in Cases : LooksAtStatus(c.want)
    BY <2>2
  <2>4. \A i \in 1..8 : cs[i] \in Cases
    OBVIOUS
  <2> HIDE DEF Cases
  <2>5. cs \in Seq(Cases)
    BY <2>1, <2>4
  <2> QED
    BY <2>3, <2>5 DEF cs
<1>4. CASE p = "NXASID"
  <2> DEFINE cs == CasesOf[p]
             Cases == {cs[i] : i \in 1..32}
  <2>1. cs = [i \in 1..32 |-> cs[i]]
    BY <1>4 DEF CasesOf, AsidCases
  <2>2. ASSUME NEW i \in 1..32 PROVE LooksAtStatus(cs[i].want)
    <3>1. \E l, upper, a1, tag : cs[i] = AsidCase(l, upper, a1, tag)
      BY <1>4 DEF CasesOf, AsidCases
    <3> QED
      BY <3>1, WantsLook
  <2> HIDE DEF cs
  <2>3. \A c \in Cases : LooksAtStatus(c.want)
    BY <2>2
  <2>4. \A i \in 1..32 : cs[i] \in Cases
    OBVIOUS
  <2> HIDE DEF Cases
  <2>5. cs \in Seq(Cases)
    BY <2>1, <2>4
  <2> QED
    BY <2>3, <2>5 DEF cs
<1>5. CASE p = "NXPERM"
  <2> DEFINE q == [ap |-> 1, parent |-> 2, xn |-> 0, el |-> 1, warm |-> FALSE, op |-> "FETCH"]
             opening == HierarchyCase(q, 4)
             of(l) == [i \in 1..240 |-> HierarchyCase(HierarchyAttempts[i], l)]
             four == of(4)
             three == of(3)
             Cases == {opening} \cup {four[i] : i \in 1..240} \cup {three[i] : i \in 1..240}
  <2>1. CasesOf[p] = <<opening>> \o four \o three
    BY <1>5 DEF CasesOf, HierarchyCases
  <2>2. ASSUME NEW r, NEW l PROVE LooksAtStatus(HierarchyCase(r, l).want)
    BY WantsLook DEF HierarchyCase
  <2>3. /\ LooksAtStatus(opening.want)
        /\ \A i \in 1..240 : LooksAtStatus(four[i].want) /\ LooksAtStatus(three[i].want)
    BY <2>2
  <2>4. /\ four = [i \in 1..240 |-> four[i]]
        /\ three = [i \in 1..240 |-> three[i]]
    OBVIOUS
  <2> HIDE DEF opening, four, three
  <2>5. \A c \in Cases : LooksAtStatus(c.want)
    BY <2>3
  <2>6. opening \in Cases /\ \A i \in 1..240 : four[i] \in Cases /\ three[i] \in Cases
    OBVIOUS
  <2> HIDE DEF Cases
  <2>7. <<opening>> \in Seq(Cases) /\ four \in Seq(Cases) /\ three \in Seq(Cases)
    BY <2>4, <2>6
  <2>8. CasesOf[p] \in Seq(Cases)
    BY <2>1, <2>7
  <2> QED
    BY <2>5, <2>8
<1> QED
  BY <1>1, <1>2, <1>3, <1>4, <1>5 DEF Probes, CasesOf

-----------------------------------------------------------------------------
(* The JIT probes: what a success says of the firmware.                    *)

\* Which case runs, and which pages it holds.  While the code pages are
\* still writable the runner has not stepped, so that its status is 0, or 5
\* after a refused callback; a refusal that did not end the case is seen in
\* that status, or in code pages that stayed executable.
RefusalInv ==
    /\ JitTypeOK
    /\ phase \in {"start", "case", "stale", "commit", "map", "open", "service", "run",
                  "compare", "end"}
    /\ phase \notin {"start", "case", "end"} => number \in 1..Len(CasesOf[probe])
    /\ phase \notin {"run", "compare", "end"} => refusal = "none" /\ code = "writable"
    /\ phase \in {"stale", "commit", "map", "open", "service"} =>
         "status" \in DOMAIN guest /\ guest["status"] = 0
    /\ phase = "run" /\ code = "writable" =>
         "status" \in DOMAIN guest /\ guest["status"] \in {0, 5}
    /\ phase = "run" => refusal = "none" \/ guest["status"] = 5
    /\ phase = "compare" => refusal = "none" \/ guest["status"] = 5 \/ code = "executable"
    /\ phase # "end" => outcome = "running"
    /\ NoRefusalPasses

\* The number of cases of each probe.
LEMMA CaseCount == \A p \in Probes : Len(CasesOf[p]) \in Nat
BY CasesLook, LenProperties

\* A case that passes was refused nothing.
LEMMA PassedClean ==
    ASSUME RefusalInv, phase = "compare", Passed
    PROVE  refusal = "none" /\ code = "writable"
<1>1. code = "writable" /\ \A f \in DOMAIN job.want : Observed[f] = job.want[f]
  BY DEF Passed
<1>2. probe \in Probes /\ number \in 1..Len(CasesOf[probe])
  BY DEF RefusalInv, JitTypeOK
<1>3. LooksAtStatus(job.want)
  <2>1. PICK S : CasesOf[probe] \in Seq(S) /\ \A c \in S : LooksAtStatus(c.want)
    BY <1>2, CasesLook
  <2>2. CasesOf[probe][number] \in S
    BY <1>2, <2>1, ElementOfSeq
  <2> QED
    BY <2>1, <2>2 DEF job
<1>4. Observed["status"] = guest["status"]
  BY DEF Observed, Both, Fields
<1>5. guest["status"] # 5
  BY <1>1, <1>3, <1>4 DEF LooksAtStatus
<1> QED
  BY <1>1, <1>5 DEF RefusalInv

LEMMA RefusalStart == JitInit => RefusalInv
<1> SUFFICES ASSUME JitInit PROVE RefusalInv
  OBVIOUS
<1>1. probe \in Probes /\ number = 1 /\ Len(CasesOf[probe]) \in Nat
  BY CaseCount DEF JitInit
<1> QED
  BY <1>1 DEF JitInit, RefusalInv, JitTypeOK, NoRefusalPasses

LEMMA RefusalStep ==
    ASSUME RefusalInv, [JitNext]_jitVars
    PROVE  RefusalInv'
<1> USE DEF RefusalInv, JitTypeOK, NoRefusalPasses, guestVars
<1>len. probe \in Probes /\ number \in 1..(Len(CasesOf[probe]) + 1)
        /\ Len(CasesOf[probe]) \in Nat
  BY CaseCount
<1>1. CASE StartProbe
  BY <1>1 DEF StartProbe, Goto, Fail
<1>2. CASE AllocateCase
  <2>1. "status" \in DOMAIN guest' /\ guest'["status"] = 0
    BY <1>2 DEF AllocateCase, GuestStart
  <2>2. number \in 1..Len(CasesOf[probe])
    BY <1>2, <1>len DEF AllocateCase
  <2> QED
    BY <1>2, <2>1, <2>2 DEF AllocateCase, Fail
<1>3. CASE LedgerFails
  BY <1>3 DEF LedgerFails, Fail
<1>4. CASE CommitStale
  BY <1>4 DEF CommitStale, Goto, Fail
<1>5. CASE CommitFresh
  BY <1>5 DEF CommitFresh, Goto
<1>6. CASE BuildNext
  BY <1>6 DEF BuildNext
<1>7. CASE BuildStep
  BY <1>7 DEF BuildStep, probeVars
<1>8. CASE BuildDone
  BY <1>8 DEF BuildDone, Goto, Fail
<1>9. CASE OpenProtection
  BY <1>9 DEF OpenProtection, Goto, Fail
<1>10. CASE NewService
  <2>1. "status" \in DOMAIN guest /\ guest["status"] = 0
    BY <1>10 DEF NewService
  <2>2. ASSUME NEW S PROVE "status" \in DOMAIN Looked(guest, S) /\ Looked(guest, S)["status"] = 0
    BY <2>1 DEF Looked, Read
  <2>3. "status" \in DOMAIN guest' /\ guest'["status"] = 0
    BY <1>10, <2>1, <2>2 DEF NewService
  <2> QED
    BY <1>10, <2>3 DEF NewService, Goto, Fail
<1>11. CASE RunGuest
  <2>1. CASE GuestStep /\ code' = "executable" /\ UNCHANGED refusal
    <3>1. UNCHANGED <<variant, probe, number, phase, held, outcome, refusal>> /\ guest["status"] = 0
      BY <1>11, <2>1 DEF RunGuest, GuestStep
    <3> QED
      BY <1>11, <2>1, <3>1 DEF RunGuest
  <2>2. CASE /\ guest.status = 0 /\ code = "writable"
             /\ guest' = Stopped(guest, 5) /\ refusal' = "protect"
             /\ UNCHANGED <<variant, probe, number, ram, code>>
    <3>1. "status" \in DOMAIN guest' /\ guest'["status"] = 5
      BY <1>11, <2>2 DEF RunGuest, Stopped
    <3> QED
      BY <1>11, <2>2, <3>1 DEF RunGuest
  <2> QED
    BY <1>11, <2>1, <2>2 DEF RunGuest
<1>12. CASE RestoreProtection
  BY <1>12 DEF RestoreProtection, Goto
<1>13. CASE CompareCase
  <2>1. CASE Passed
    <3>1. refusal = "none" /\ code = "writable"
      BY <1>13, <2>1, PassedClean DEF CompareCase
    <3>2. number' \in 1..(Len(CasesOf[probe]) + 1)
      BY <1>13, <2>1, <1>len DEF CompareCase
    <3> QED
      BY <1>13, <2>1, <3>1, <3>2 DEF CompareCase
  <2>2. CASE ~Passed
    BY <1>13, <2>2 DEF CompareCase, Fail
  <2> QED
    BY <2>1, <2>2
<1>14. CASE FinishProbe
  BY <1>14 DEF FinishProbe, Fail
<1>15. CASE UNCHANGED jitVars
  BY <1>15 DEF jitVars, probeVars
<1> QED
  BY <1>1, <1>2, <1>3, <1>4, <1>5, <1>6, <1>7, <1>8, <1>9, <1>10, <1>11, <1>12, <1>13, <1>14,
     <1>15 DEF JitNext

\* A probe that reports success was refused nothing on the way, whatever the
\* machine it exercises does, and it holds its three page ranges exactly
\* while it runs a case (main and run_case of the five probes).
THEOREM RefusalNeverPasses == JitSpec => [](NoRefusalPasses /\ JitTypeOK)
<1>1. JitInit => RefusalInv
  BY RefusalStart
<1>2. RefusalInv /\ [JitNext]_jitVars => RefusalInv'
  BY RefusalStep
<1>3. RefusalInv => NoRefusalPasses /\ JitTypeOK
  BY DEF RefusalInv
<1> QED
  BY <1>1, <1>2, <1>3, PTL DEF JitSpec
=============================================================================
