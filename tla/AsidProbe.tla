------------------------------ MODULE AsidProbe ------------------------------
(***************************************************************************)
(* The cases of NXASID (asid_probe.rs): tagged translation bases, one data *)
(* page reached through both halves of the address space, and the guest's  *)
(* own reading of the control registers.  The two control profiles the     *)
(* code repeats every case for differ in nothing the model has.            *)
(***************************************************************************)
EXTENDS GuestCode

\* WORDS.
AsidText ==
    <<Ldst(3, 0, 2, 0, 0), Ldst(3, 1, 3, 1, 0), [op |-> "CMP", rn |-> 3, rm |-> 2],
      Jump("BNE", 24), Mrs(0, "mmfr0"), Mrs(1, "tcr"), Mrs(2, "ttbr0"), Mrs(3, "ttbr1"), Hlt,
      Jump("B", 0)>>

\* The tag is in bits 63:48 of a base.
Tagged(root, tag) == [Word(root) EXCEPT ![7] = tag]

AsidSystem(l, a1, tag) ==
    [mmfr0 |-> Word(252706821),
     tcr |-> [Word(l) EXCEPT ![3] = IF a1 THEN 64 ELSE 0, ![5] = 5],
     ttbr0 |-> Tagged(0, tag), ttbr1 |-> Tagged(GranuleBytes, 255 - tag)]

AsidCase(l, upper, a1, tag) ==
    LET data == 4 * GranuleBytes
        entry == IF upper THEN Upper ELSE 0
        system == AsidSystem(l, a1, tag)
    IN  [probe |-> "NXASID", budget |-> 32, levels |-> l, size |-> 16, entry |-> entry, el |-> 1, on |-> TRUE,
         flat |-> FALSE, warm |-> FALSE, tagged |-> TRUE, target |-> 0,
         regs |-> <<Word(data), Word(Upper + data), Value, Word(0)>>,
         system |-> system, text |-> (0 :> AsidText), ram |-> (4 :> Filled(0)),
         maps |-> <<PlainCall(l, 0, LeafAt(0)), PlainCall(l, data, LeafAt(4)),
                    PlainCall(l, Upper, LeafAt(0)), PlainCall(l, Upper + data, LeafAt(4))>>,
         want |-> [status |-> 1, retired |-> 9, pc |-> entry + 36, fault |-> NoInstruction,
                   native |-> TRUE,
                   regs |-> <<system.mmfr0, system.tcr, system.ttbr0, system.ttbr1>>,
                   esr |-> NoSyndrome, provider |-> 0, fetch |-> 9, data |-> 2,
                   completed |-> 2, reply |-> "OK",
                   ram |-> (4 :> Patch(Filled(0), 0, Value))]]

\* main: granule, half, a1 and tag, the tag fastest.
AsidCases ==
    [i \in 1..32 |-> AsidCase(IF i <= 16 THEN 4 ELSE 3, ((i - 1) \div 8) % 2 = 1,
                              ((i - 1) \div 4) % 2 = 1, <<0, 1, 127, 255>>[((i - 1) % 4) + 1])]
=============================================================================
