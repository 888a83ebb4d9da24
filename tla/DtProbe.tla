------------------------------- MODULE DtProbe -------------------------------
(***************************************************************************)
(* The cases of NXDT (dt_probe.rs): a device tree committed into guest     *)
(* memory through the reservation ledger, read back by the guest.  The     *)
(* reservations of run_case are the pages 0 to 4 of RAM: guard, code, tree,*)
(* stack and output.  Wire stands for the materialised tree.               *)
(***************************************************************************)
EXTENDS GuestCode

ValueOffset == 12
Wire == [i \in 1..28 |-> i]
Guard == 165
Marker == 43981
MarkerBytes == <<205, 171, 0, 0>>

\* instructions(value_offset).
DtText ==
    LET offsets == <<0, 4, ValueOffset, ValueOffset + 4, ValueOffset + 8, ValueOffset + 12>>
    IN  <<Add(3, 0)>>
          \o [i \in 1..12 |-> LET out == (i - 1) \div 2
                              IN  IF i % 2 = 1 THEN Ldst(2, 1, 2, 0, offsets[out + 1])
                                  ELSE Ldst(2, 0, 2, 1, 4 * out)]
          \o <<Movz(2, Marker), Ldst(2, 0, 2, 1, 24), Hlt>>

\* RAM before and after the tree has been committed.
DtRam == (2 :> Filled(Guard)) @@ (4 :> Filled(Guard))
Committed(memory) == [memory EXCEPT ![2] = Patch(@, 0, Wire)]

DtRegisters(va) ==
    <<Word(va + 2 * GranuleBytes), Word(va + 4 * GranuleBytes), Word(324508639), Word(610839776)>>

DtWant(va, invalid) ==
    LET entry == va + GranuleBytes
        tree == va + 2 * GranuleBytes
        retired == IF invalid THEN 1 ELSE 16
        output == SubSeq(Wire, 1, 8) \o SubSeq(Wire, ValueOffset + 1, ValueOffset + 16)
                    \o MarkerBytes
        common ==
        [status |-> IF invalid THEN 17 ELSE 1, provider |-> 0, retired |-> retired,
         pc |-> entry + 4 * retired, blocks |-> IF invalid THEN 2 ELSE 16,
         regs |-> IF invalid THEN DtRegisters(va)
                  ELSE [DtRegisters(va) EXCEPT ![3] = Word(Marker)],
         esr |-> IF invalid THEN Syndrome(37, 7, FALSE) ELSE NoSyndrome,
         far |-> IF invalid THEN tree ELSE 0,
         fetch |-> IF invalid THEN 2 ELSE 16, data |-> IF invalid THEN 1 ELSE 13,
         completed |-> IF invalid THEN 0 ELSE 13,
         reply |-> IF invalid THEN "FAULT" ELSE "OK", fsc |-> IF invalid THEN 7 ELSE 0,
         fault |-> IF invalid THEN DtText[2] ELSE NoInstruction,
         ram |-> IF invalid THEN Committed(DtRam)
                 ELSE [Committed(DtRam) EXCEPT ![4] = Patch(@, 0, output)]]
    IN  IF invalid THEN Both(common, [last |-> tree]) ELSE common

DtCase(l, va, invalid) ==
    [probe |-> "NXDT", budget |-> 32, levels |-> l, size |-> 16, entry |-> va + GranuleBytes, el |-> 1,
     on |-> TRUE, flat |-> FALSE, warm |-> FALSE, tagged |-> FALSE, target |-> 0,
     regs |-> DtRegisters(va), system |-> <<>>, text |-> (1 :> DtText), ram |-> DtRam,
     maps |-> <<PlainCall(l, va + GranuleBytes, LeafAt(1)),
                PlainCall(l, va + 2 * GranuleBytes, IF invalid THEN NoLeaf ELSE LeafAt(2)),
                PlainCall(l, va + 4 * GranuleBytes, LeafAt(4)),
                PlainCall(l, va + 3 * GranuleBytes, LeafAt(3))>>,
     want |-> DtWant(va, invalid)]

\* main: granule, half, and whether the tree's page is left unmapped.
DtCases ==
    [i \in 1..8 |-> DtCase(IF i <= 4 THEN 4 ELSE 3, IF ((i - 1) \div 2) % 2 = 1 THEN Upper ELSE 0,
                           i % 2 = 0)]
=============================================================================
