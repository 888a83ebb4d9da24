--------------------------- MODULE HierarchyProbe ---------------------------
(***************************************************************************)
(* The cases of NXPERM (hierarchy_probe.rs): a load, a store or a fetch at *)
(* EL0 or EL1 of a page whose leaf and whose parent tables restrict it,    *)
(* with and without an earlier access that leaves the page in the cache.   *)
(* The program runs in the other half of the address space, so that the    *)
(* parents' restrictions reach the target alone.  The two control profiles *)
(* the code repeats every case for differ in nothing the model has.        *)
(***************************************************************************)
EXTENDS GuestCode

Bit(n, k) == (n \div 2 ^ k) % 2 = 1
Bits(n, low, high) == (IF Bit(n, 0) THEN {low} ELSE {}) \cup (IF Bit(n, 1) THEN {high} ELSE {})

\* MATRIX[ap][parent]: bit 0 EL1 write, bit 1 EL0 read, bit 2 EL0 write,
\* bit 3 EL1 execute.
Matrix == <<<<9, 9, 8, 8>>, <<7, 9, 10, 8>>, <<8, 8, 8, 8>>, <<10, 8, 10, 8>>>>

\* allowed in run_case.
MatrixAllows(q) ==
    LET row == Matrix[q.ap + 1][q.parent + 1]
    IN  CASE q.op = "LOAD" -> q.el = 1 \/ Bit(row, 1)
          [] q.op = "STORE" -> IF q.el = 1 THEN Bit(row, 0) ELSE Bit(row, 2)
          [] q.op = "FETCH" -> IF q.el = 1 THEN Bit(row, 3) /\ ~Bit(q.xn, 0) ELSE ~Bit(q.xn, 1)

HltBytes == <<0, 0, 64, 212>>
HierarchyText(q) ==
    <<IF q.op = "STORE" THEN Ldst(3, 0, 1, 0, 0) ELSE Ldst(3, 1, 2, 0, 0), Hlt>>

\* upper: neighbouring cases use different halves.
HierarchyTarget(q) == IF (q.ap + q.parent + q.el) % 2 = 1 THEN Upper ELSE 0

HierarchyMaps(q, l, target) ==
    <<PlainCall(l, Upper - target, LeafAt(0)),
      [va |-> VirtualPage(l, target), choice |-> q.ap + q.parent,
       leaf |-> [LeafAt(4) EXCEPT !.flags = @ \cup Bits(q.ap, "EL0", "RO")],
       parent |-> Bits(q.parent, "NOEL0", "RO"), xn |-> Bits(q.xn, "PXN", "UXN")]>>

HierarchyRam == 4 :> Patch(Filled(0), 0, HltBytes)

HierarchyRegisters(target) ==
    <<Word(target), Value, <<17, 34, 51, 68, 85, 102, 119, 136>>, <<128, 112, 96, 80, 64, 48, 32, 16>>>>

\* The comparison that follows the run; fault_ok looks at the reply only
\* when the access is not allowed.
HierarchyWant(q, target, entry) ==
    LET allowed == MatrixAllows(q)
        fetches == q.op = "FETCH"
        retired == IF allowed THEN IF fetches THEN 1 ELSE 2 ELSE 0
        common ==
          [status |-> IF allowed THEN 1 ELSE IF fetches THEN 16 ELSE 17,
           retired |-> retired, pc |-> entry + 4 * retired, provider |-> 0,
           fault |-> IF ~allowed /\ ~fetches THEN HierarchyText(q)[1] ELSE NoInstruction,
           regs |-> IF allowed /\ q.op = "LOAD"
                    THEN [HierarchyRegisters(target) EXCEPT ![3] = HltBytes \o <<0, 0, 0, 0>>]
                    ELSE HierarchyRegisters(target),
           esr |-> IF allowed THEN NoSyndrome
                   ELSE Syndrome((IF fetches THEN 32 ELSE 36) + q.el, 15, q.op = "STORE"),
           fetch |-> retired + (IF allowed THEN 0 ELSE 1),
           data |-> IF fetches THEN 0 ELSE 1,
           completed |-> IF allowed /\ ~fetches THEN 1 ELSE 0,
           ram |-> IF allowed /\ q.op = "STORE"
                   THEN 4 :> Patch(HierarchyRam[4], 0, Value) ELSE HierarchyRam]
        denied ==
          [reply |-> "FAULT", fsc |-> 15, context |-> IF q.warm THEN "cached" ELSE "leaf",
           descriptor |-> "built", output |-> 4, last |-> target, far |-> target]
    IN  IF allowed THEN common ELSE Both(denied, common)

HierarchyCase(q, l) ==
    LET target == HierarchyTarget(q)
        entry == IF q.op = "FETCH" THEN target ELSE Upper - target
    IN  [probe |-> "NXPERM", budget |-> 8, levels |-> l, size |-> 16, entry |-> entry, el |-> q.el, on |-> TRUE,
         flat |-> FALSE, warm |-> q.warm, tagged |-> TRUE, target |-> target,
         regs |-> HierarchyRegisters(target), system |-> <<>>,
         text |-> (0 :> HierarchyText(q)) @@ (4 :> <<Hlt>>), ram |-> HierarchyRam,
         maps |-> HierarchyMaps(q, l, target), want |-> HierarchyWant(q, target, entry)]

Attempt(ap, parent, xn, n) ==
    [ap |-> ap, parent |-> parent, xn |-> xn, el |-> (n \div 6) % 2,
     warm |-> (n \div 3) % 2 = 1, op |-> <<"FETCH", "LOAD", "STORE">>[(n % 3) + 1]]

\* main: one case first, then for both granules the whole matrix and the
\* execute-never cases.
HierarchyAttempts ==
    [i \in 1..192 |-> Attempt((i - 1) \div 48, ((i - 1) \div 12) % 4, 0, i - 1)]
      \o [i \in 1..48 |-> Attempt(1, 2 * (((i - 1) \div 12) % 2), 1 + ((i - 1) \div 24), i - 1)]

HierarchyCases ==
    <<HierarchyCase([ap |-> 1, parent |-> 2, xn |-> 0, el |-> 1, warm |-> FALSE, op |-> "FETCH"], 4)>>
      \o [i \in 1..240 |-> HierarchyCase(HierarchyAttempts[i], 4)]
      \o [i \in 1..240 |-> HierarchyCase(HierarchyAttempts[i], 3)]
=============================================================================
