---------------------------- MODULE DynamicProbe ----------------------------
(***************************************************************************)
(* The cases of NXDYN (dynamic_probe.rs): a guest that starts with the MMU *)
(* off, enables it, and whose next instruction is on another page than     *)
(* before.  Page 1 of RAM is the decoy it would run otherwise.             *)
(***************************************************************************)
EXTENDS GuestCode

Post == GranuleBytes                       \* post_va
DynamicEntry == GranuleBytes - 12
DynamicData(kind) == IF kind = 0 THEN 3 * GranuleBytes - 8 ELSE 2 * GranuleBytes

\* stub, at the end of page 0.
DynamicStub ==
    [i \in 1..(DynamicEntry \div 4) |-> NoInstruction] \o <<Add(2, 1), Just("MSR"), Just("ISB")>>

\* tail.
DynamicTail(kind) ==
    IF kind = 0
    THEN <<Mrs(0, "sctlr"), Ldst(3, 1, 3, 1, 0), Add(3, 1), Ldst(3, 0, 3, 1, 0),
           LdpStp(TRUE, "offset", 0, 2, 3, 1), LdpStp(FALSE, "offset", 0, 3, 2, 1),
           Just("DSB"), Just("TLBI"), Just("DSB"), Just("ISB"), Ldst(3, 1, 0, 1, 0), Hlt>>
    ELSE <<Ldst(3, 1, 3, 1, 0), Hlt>>

DynamicMaps(l, kind) ==
    <<PlainCall(l, 0, LeafAt(0)),
      PlainCall(l, Post, IF kind = 1 THEN NoLeaf ELSE LeafAt(3)),
      PlainCall(l, 2 * GranuleBytes, IF kind = 2 THEN NoLeaf ELSE LeafAt(4)),
      PlainCall(l, 3 * GranuleBytes, LeafAt(2))>>

DynamicRam == (2 :> Filled(165)) @@ (4 :> Patch(Filled(165), GranuleBytes - 8, Word(41)))

\* The expectations of run_case; transition, protocol, final and walked are
\* what it derives from the observer's records and the final state.
DynamicWant(kind) ==
    LET data == DynamicData(kind)
        address == CASE kind = 0 -> 0 [] kind = 1 -> Post [] OTHER -> data
        pc == IF kind = 0 THEN Post + 4 * Len(DynamicTail(0)) ELSE Post
        common ==
         [status |-> <<1, 16, 17>>[kind + 1], provider |-> 0,
         retired |-> IF kind = 0 THEN 15 ELSE 3, pc |-> pc,
         regs |-> IF kind = 0 THEN <<Word(9), Word(data), Word(42), Word(9)>>
                  ELSE <<Sctlr(TRUE), Word(data), Word(9), Word(99)>>,
         esr |-> CASE kind = 0 -> NoSyndrome
                   [] kind = 1 -> Syndrome(33, 7, FALSE)
                   [] OTHER -> Syndrome(37, 7, FALSE),
         far |-> address,
         fetch |-> IF kind = 0 THEN 15 ELSE 4, data |-> <<5, 0, 1>>[kind + 1],
         completed |-> IF kind = 0 THEN 5 ELSE 0, blocks |-> <<15, 3, 4>>[kind + 1],
         reply |-> IF kind = 0 THEN "OK" ELSE "FAULT",
         fault |-> IF kind = 2 THEN DynamicTail(2)[1] ELSE NoInstruction,
         transition |-> TRUE, protocol |-> IF kind = 0 THEN 12 ELSE 4,
         final |-> [m |-> TRUE, effective |-> TRUE, epoch |-> 2, revision |-> 2,
                    invalidations |-> IF kind = 0 THEN 1 ELSE 0],
         walked |-> TRUE,
         ram |-> IF kind # 0 THEN DynamicRam
                 ELSE [DynamicRam EXCEPT ![4] = Patch(@, GranuleBytes - 8, Word(9)),
                                         ![2] = Patch(@, 0, Word(42))]]
    IN  Both(common, IF kind = 0 THEN [rewalked |-> TRUE] ELSE [fsc |-> 7, last |-> address])

DynamicCase(l, kind) ==
    [probe |-> "NXDYN", budget |-> 32, levels |-> l, size |-> 8, entry |-> DynamicEntry, el |-> 1, on |-> FALSE,
     flat |-> TRUE, warm |-> FALSE, tagged |-> FALSE, target |-> 0,
     regs |-> <<Sctlr(TRUE), Word(DynamicData(kind)), Word(8), Word(99)>>, system |-> <<>>,
     text |-> (0 :> DynamicStub) @@ (1 :> <<Just("HVC")>>) @@ (3 :> DynamicTail(kind)),
     ram |-> DynamicRam, maps |-> DynamicMaps(l, kind), want |-> DynamicWant(kind)]

\* main: granule, then kind.
DynamicCases ==
    [i \in 1..6 |-> DynamicCase(IF i <= 3 THEN 4 ELSE 3, (i - 1) % 3)]
=============================================================================
