------------------------------ MODULE MmuProbe ------------------------------
(***************************************************************************)
(* The cases of NXMMU (mmu_probe.rs): for both granules and both halves of *)
(* the address space, what run_case prepares and what it expects, the      *)
(* expectation being written down next to the case and not derived from    *)
(* the machine.                                                            *)
(***************************************************************************)
EXTENDS GuestCode

\* SEED, PAIR0 and PAIR1, least significant byte first.
Seed == <<128, 170, 238, 255, 85, 102, 119, 136>>
Pair0 == <<33, 67, 101, 135, 1, 239, 205, 171>>
Pair1 == <<152, 186, 220, 254, 16, 50, 84, 118>>
Keep == Add(1, 0)   \* KEEP_X1

-----------------------------------------------------------------------------
(* The cases, in the order in which main runs them                         *)

\* SCALARS: the size and opc bits of the word, and what the table says the
\* word does.
ScalarRow(sz, opc, width, sign, st) ==
    [kind |-> "scalar", size |-> sz, opc |-> opc, width |-> width, sign |-> sign, store |-> st]
Scalars ==
    <<ScalarRow(0, 0, 1, 0, TRUE), ScalarRow(0, 1, 1, 0, FALSE),
      ScalarRow(0, 3, 1, 32, FALSE), ScalarRow(0, 2, 1, 64, FALSE),
      ScalarRow(1, 0, 2, 0, TRUE), ScalarRow(1, 1, 2, 0, FALSE),
      ScalarRow(1, 3, 2, 32, FALSE), ScalarRow(1, 2, 2, 64, FALSE),
      ScalarRow(2, 0, 4, 0, TRUE), ScalarRow(2, 1, 4, 0, FALSE), ScalarRow(2, 2, 4, 64, FALSE),
      ScalarRow(3, 0, 8, 0, TRUE), ScalarRow(3, 1, 8, 0, FALSE)>>

PairRow(mode, failure, ld) == [kind |-> "pair", mode |-> mode, failure |-> failure, load |-> ld]
FetchRow(p) == [kind |-> "fetch", permission |-> p]
SplitRow(st, failure) == [kind |-> "unaligned", store |-> st, failure |-> failure]

MmuKinds ==
    Scalars
      \o <<PairRow("offset", 0, FALSE), PairRow("pre", 0, FALSE), PairRow("post", 0, FALSE)>>
      \o [i \in 1..8 |-> PairRow("offset", <<1, 1, 2, 2, 4, 4, 5, 5>>[i], i % 2 = 0)]
      \o <<PairRow("offset", 3, FALSE), FetchRow(FALSE), FetchRow(TRUE)>>
      \o [i \in 1..10 |-> SplitRow(i % 2 = 1, <<0, 0, 1, 1, 2, 2, 4, 4, 5, 5>>[i])]
      \o <<SplitRow(TRUE, 3)>>

\* failure_descriptor(failure, normal).
FailureDescriptor(failure, normal) ==
    CASE failure = 1 -> NoLeaf
      [] failure = 2 -> [normal EXCEPT !.flags = @ \ {"AF"}]
      [] failure = 3 -> [normal EXCEPT !.flags = @ \cup {"RO"}]
      [] failure = 4 -> LeafAt(Unbacked)
      [] failure = 5 -> [normal EXCEPT !.flags = @ \cup {"ATTR"}]
      [] OTHER -> normal

-----------------------------------------------------------------------------
(* run_case up to the tables                                               *)

Fails(k) == k.kind \in {"pair", "unaligned"} /\ k.failure # 0

\* initial[0].
FirstRegister(k, data) ==
    CASE k.kind = "pair" -> data + GranuleBytes - (IF k.mode = "pre" THEN 16 ELSE 8)
      [] k.kind = "unaligned" -> data + GranuleBytes - 4
      [] OTHER -> data

\* instructions, KEEP_X1 first.
MmuText(k) ==
    <<Keep>>
      \o (CASE k.kind = "scalar" -> <<Ldst(k.size, k.opc, 1, 0, 0)>>
            [] k.kind = "pair" /\ ~Fails(k) ->
                 <<LdpStp(TRUE, k.mode, CASE k.mode = "pre" -> 8 [] k.mode = "post" -> 16
                                          [] OTHER -> 0, 2, 3, 0),
                   LdpStp(FALSE, "offset", IF k.mode = "post" THEN -16 ELSE 0, 2, 3, 0)>>
            [] k.kind = "pair" /\ Fails(k) -> <<LdpStp(~k.load, "offset", 0, 2, 3, 0)>>
            [] k.kind = "unaligned" -> <<Ldst(3, IF k.store THEN 0 ELSE 1, 1, 0, 0)>>
            [] OTHER -> <<>>)
      \o <<Hlt>>

\* RAM page 4, and page 9 behind the following virtual page.
MmuRam(k) ==
    LET split == GranuleBytes - 8
        near == Patch(Patch(Filled(0), 0, Seed), split, Seed)
        far == Patch(Filled(0), 0, Value)
        odd == k.kind = "unaligned"
    IN  (4 :> IF odd THEN Patch(near, GranuleBytes - 4, SubSeq(Seed, 1, 4)) ELSE near)
          @@ (9 :> IF odd THEN Patch(far, 0, SubSeq(Seed, 5, 8)) ELSE far)

\* builder.map for the code page and the two data pages.
MmuMaps(k, l, va) ==
    LET text == IF k.kind # "fetch" THEN LeafAt(0)
                ELSE IF k.permission THEN [LeafAt(0) EXCEPT !.flags = @ \cup {"PXN"}] ELSE NoLeaf
        next == IF Fails(k) THEN FailureDescriptor(k.failure, LeafAt(9)) ELSE LeafAt(9)
        data == va + 4 * GranuleBytes
    IN  <<PlainCall(l, va, text), PlainCall(l, data, LeafAt(4)),
          PlainCall(l, data + GranuleBytes, next)>>

-----------------------------------------------------------------------------
(* What run_case expects                                                   *)

\* Mutant: a signed load into a W register keeps the sign above bit 31.
LoadedValueWide(k) ==
    [i \in 1..8 |-> IF i <= k.width THEN Seed[i]
                    ELSE IF k.sign # 0 /\ Seed[k.width] >= 128 THEN 255 ELSE 0]

\* expected_registers[1] of a scalar load, from the row's width and sign.
LoadedValue(k) ==
    LET extend == k.sign # 0 /\ Seed[k.width] >= 128
        full == [i \in 1..8 |-> IF i <= k.width THEN Seed[i] ELSE IF extend THEN 255 ELSE 0]
    IN  IF k.sign = 32 THEN [i \in 1..8 |-> IF i <= 4 THEN full[i] ELSE 0] ELSE full

MmuRegisters(k, data) ==
    LET start == <<Word(FirstRegister(k, data)), Value, Pair0, Pair1>>
    IN  CASE k.kind = "scalar" /\ ~k.store -> [start EXCEPT ![2] = LoadedValue(k)]
          [] k.kind = "pair" /\ ~Fails(k) ->
               [start EXCEPT ![1] = Word(FirstRegister(k, data)
                                          + (CASE k.mode = "pre" -> 8 [] k.mode = "post" -> 16
                                               [] OTHER -> 0))]
          [] k.kind = "unaligned" /\ ~Fails(k) /\ ~k.store -> [start EXCEPT ![2] = Seed]
          [] OTHER -> start

\* expected_ram.
MmuExpectedRam(k) ==
    LET before == MmuRam(k)
    IN  CASE k.kind = "scalar" /\ k.store ->
               [before EXCEPT ![4] = Patch(@, 0, SubSeq(Value, 1, k.width))]
          [] k.kind = "pair" /\ ~Fails(k) ->
               [before EXCEPT ![4] = Patch(@, GranuleBytes - 8, Pair0), ![9] = Patch(@, 0, Pair1)]
          [] k.kind = "unaligned" /\ ~Fails(k) /\ k.store ->
               [before EXCEPT ![4] = Patch(@, GranuleBytes - 4, SubSeq(Value, 1, 4)),
                              ![9] = Patch(@, 0, SubSeq(Value, 5, 8))]
          [] OTHER -> before

\* The match of run_case and the comparison that follows the run.
MmuWant(k, va) ==
    LET data == va + 4 * GranuleBytes
        fault == k.kind = "fetch" \/ (Fails(k) /\ k.failure <= 3)
        status == IF k.kind = "fetch" THEN 16 ELSE IF ~Fails(k) THEN 1
                  ELSE IF fault THEN 17 ELSE 4
        retired == IF k.kind = "fetch" THEN 0 ELSE IF Fails(k) THEN 1
                   ELSE IF k.kind = "pair" THEN 4 ELSE 3
        fsc == CASE k.kind = "fetch" -> IF k.permission THEN 15 ELSE 7
                 [] fault /\ k.kind # "fetch" ->
                      (CASE k.failure = 1 -> 7 [] k.failure = 2 -> 11 [] OTHER -> 15)
                 [] OTHER -> 0
        address == IF k.kind = "fetch" THEN va ELSE IF Fails(k) THEN data + GranuleBytes ELSE 0
        reads == CASE k.kind = "pair" -> k.load [] k.kind = "unaligned" -> ~k.store [] OTHER -> TRUE
        common ==
        [status |-> status,
         provider |-> IF Fails(k) /\ ~fault THEN IF k.failure = 4 THEN 5 ELSE 1 ELSE 0,
         retired |-> retired, pc |-> va + 4 * retired,
         fault |-> IF status = 17 THEN MmuText(k)[2] ELSE NoInstruction,
         regs |-> MmuRegisters(k, data),
         esr |-> IF ~fault THEN NoSyndrome
                 ELSE Syndrome(IF status = 16 THEN 33 ELSE 37, fsc, ~reads),
         far |-> IF fault THEN address ELSE 0,
         fetch |-> retired + (IF status = 1 THEN 0 ELSE 1),
         data |-> IF k.kind = "fetch" THEN 0 ELSE IF k.kind = "pair" /\ ~Fails(k) THEN 2 ELSE 1,
         completed |-> IF k.kind = "fetch" \/ Fails(k) THEN 0
                       ELSE IF k.kind = "pair" THEN 2 ELSE 1,
         native |-> retired > 0,
         reply |-> IF fault THEN "FAULT" ELSE IF ~Fails(k) THEN "OK"
                   ELSE IF k.failure = 4 THEN "UNAVAILABLE" ELSE "UNSUPPORTED",
         fsc |-> fsc, ram |-> MmuExpectedRam(k)]
    IN  IF status = 1 THEN common ELSE Both(common, [last |-> address])

MmuCase(k, l, va) ==
    [probe |-> "NXMMU", budget |-> 16, levels |-> l, size |-> 16, entry |-> va, el |-> 1, on |-> TRUE,
     flat |-> FALSE, warm |-> FALSE, tagged |-> FALSE, target |-> 0,
     regs |-> <<Word(FirstRegister(k, va + 4 * GranuleBytes)), Value, Pair0, Pair1>>,
     system |-> <<>>, text |-> (0 :> MmuText(k)), ram |-> MmuRam(k),
     maps |-> MmuMaps(k, l, va), want |-> MmuWant(k, va)]

\* main: granule, then half, then the kinds.
MmuCases ==
    LET of(l, va) == [i \in 1..Len(MmuKinds) |-> MmuCase(MmuKinds[i], l, va)]
    IN  of(4, 0) \o of(4, Upper) \o of(3, 0) \o of(3, Upper)
=============================================================================
