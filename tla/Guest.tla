-------------------------------- MODULE Guest --------------------------------
(***************************************************************************)
(* The machine the JIT probes exercise: the C runner and the memory        *)
(* service, neither of which is in this repository.  A guest instruction   *)
(* is one step: its fetch and its data access are translated through the   *)
(* tables PageTables has built, with the permissions of the architecture,  *)
(* and what the runner reports is kept in guest.                           *)
(*                                                                         *)
(* variant says how this machine errs: "correct" is the architecture, the  *)
(* others are the defects the probes exist to detect.                      *)
(***************************************************************************)
EXTENDS MmuProbe, DynamicProbe, DtProbe, AsidProbe, HierarchyProbe

DataLimit == 64
ControlLimit == 16

Variants == {"correct", "identity", "no_af", "no_ro", "no_exec", "no_el0", "no_parent",
             "no_attr", "partial", "sign", "drop_store", "early", "never", "no_prepare",
             "old_token", "no_tlbi", "no_tag", "old_asid", "no_cache", "stale", "stale_writes"}

CasesOf == [NXMMU |-> MmuCases, NXDYN |-> DynamicCases, NXDT |-> DtCases, NXASID |-> AsidCases,
            NXPERM |-> HierarchyCases]

VARIABLES
    variant,  \* the machine
    probe,    \* the application
    number,   \* of the case it runs
    ram,      \* page -> its bytes, for the pages the case backs with data
    guest     \* the machine's state and what the runner counts

guestVars == <<variant, probe, number, ram, guest>>

job == CasesOf[probe][number]

\* The runner's result before its first instruction; control state for the
\* probe that enables the MMU itself.
GuestStart(c) ==
    [regs |-> c.regs, equal |-> FALSE, pc |-> c.entry, status |-> 0, provider |-> 0,
     retired |-> 0, fault |-> NoInstruction, esr |-> NoSyndrome, far |-> 0, fetch |-> 0,
     data |-> 0, completed |-> 0, blocks |-> 0, reply |-> "OK", fsc |-> 0, last |-> 0,
     context |-> "none", descriptor |-> "none", output |-> 0, cached |-> {}, reads |-> 0, m |-> c.on, effective |-> c.on,
     epoch |-> 1, revision |-> 1, invalidations |-> 0, control |-> <<>>, seen |-> <<>>,
     readsAtTlbi |-> 0]

-----------------------------------------------------------------------------
(* Translation                                                             *)

Is(v) == variant = v

Allowed(op, el, leaf, parents) ==
    LET table == IF Is("no_parent") THEN {} ELSE parents
        el0 == "EL0" \in leaf.flags /\ "NOEL0" \notin table
        writable == {"RO"} \cap (leaf.flags \cup table) = {}
    IN  CASE op = "LOAD" -> el = 1 \/ el0 \/ Is("no_el0")
          [] op = "STORE" -> /\ el = 1 \/ el0 \/ Is("no_el0")
                             /\ writable \/ Is("no_ro")
          [] op = "FETCH" ->
                \/ Is("no_exec")
                \/ IF el = 0 THEN "UXN" \notin table
                   ELSE "PXN" \notin (leaf.flags \cup table) /\ ~(el0 /\ writable)

Answer(r, f, p) == [result |-> r, fsc |-> f, page |-> p]

\* What the service of case c answers for one page at an exception level;
\* leaf and parents are what the walk finds, page is where it leads.
Verdict(op, el, leaf, parents) ==
    IF leaf = NoLeaf THEN Answer("FAULT", 7, 0)
    ELSE IF "AF" \notin leaf.flags /\ ~Is("no_af") THEN Answer("FAULT", 11, 0)
    ELSE IF ~Allowed(op, el, leaf, parents) THEN Answer("FAULT", 15, leaf.pa)
    ELSE IF "ATTR" \in leaf.flags /\ ~Is("no_attr") THEN Answer("UNSUPPORTED", 0, leaf.pa)
    ELSE Answer("OK", 0, leaf.pa)

Backed(answer, pages) ==
    IF answer.result = "OK" /\ answer.page \notin pages
    THEN Answer("UNAVAILABLE", 0, answer.page) ELSE answer

TranslateAt(c, op, a, el) ==
    LET va == VirtualPage(c.levels, a)
    IN  Backed(IF guest.effective /\ ~Is("identity")
               THEN Verdict(op, el, LeafOf(va), AttributesOf(va))
               ELSE Answer("OK", 0, IF c.flat THEN PageOf(a) ELSE Unbacked),
               IF op = "FETCH" THEN DOMAIN c.text ELSE DOMAIN ram)
Translate(c, op, a) == TranslateAt(c, op, a, c.el)

\* Walks are cached by page, and counted when they are not.
Read(g, pages) ==
    [g EXCEPT !.reads = @ + IF g.effective THEN levels * Cardinality(pages \ g.cached) ELSE 0]
Looked(g, pages) ==
    [Read(g, pages) EXCEPT !.cached = IF g.effective THEN @ \cup pages ELSE @]

\* Where the leaf of a's page is.
Walked(c, a) == [page |-> LastTable(VirtualPage(c.levels, a)), index |-> PageOf(a)]

Stopped(g, s) == [g EXCEPT !.status = s]

\* NXDYN's observer has no room for another request and refuses it.
Full(g) == probe = "NXDYN" /\ g.fetch + g.data = DataLimit

\* The runner's report of a refused request at address a.
Refused(c, g, op, ins, t, a) ==
    LET guestFault == t.result = "FAULT"
        class == (IF op = "FETCH" THEN 32 ELSE 36) + c.el
    IN  [Read(g, {PageBase(a)}) EXCEPT
                  !.status = IF ~guestFault THEN 4 ELSE IF op = "FETCH" THEN 16 ELSE 17,
                  !.provider = CASE t.result = "UNAVAILABLE" -> 5
                                 [] t.result = "UNSUPPORTED" -> 1
                                 [] OTHER -> 0,
                  !.fault = IF guestFault /\ op # "FETCH" THEN ins ELSE NoInstruction,
                  !.esr = IF guestFault THEN Syndrome(class, t.fsc, op = "STORE") ELSE NoSyndrome,
                  !.far = IF guestFault THEN a ELSE 0,
                  !.reply = t.result, !.fsc = t.fsc, !.last = a, !.output = t.page,
                  !.descriptor = IF Walked(c, a) = mappedAt THEN "built" ELSE "other",
                  !.context = IF PageBase(a) \in g.cached /\ ~Is("no_cache")
                              THEN "cached" ELSE "leaf"]

Retired(g) == [g EXCEPT !.pc = @ + 4, !.retired = @ + 1]
SetReg(g, r, v) == [g EXCEPT !.regs[r + 1] = v]
Reg(g, r) == g.regs[r + 1]

-----------------------------------------------------------------------------
(* Data accesses                                                           *)

\* The pages of the n bytes at a: one, or two when they cross a boundary,
\* and then the first Cut(a, n) bytes are on the first page.
Second(a, n) == PageBase(a + n - 1)
Touched(a, n) == {PageBase(a), Second(a, n)}
Cut(a, n) == IF Second(a, n) = PageBase(a) THEN n ELSE Second(a, n) - a

\* The n bytes at a, whose pages are translated to one and two.
Loaded(one, two, a, n) ==
    [i \in 1..n |-> IF i <= Cut(a, n) THEN ram[one][OffsetOf(a) + i] ELSE ram[two][i - Cut(a, n)]]

\* RAM after bytes have been stored there.
Stored(one, two, a, bytes) ==
    LET n == Len(bytes)
        from(p, o) == IF p = one /\ o - OffsetOf(a) \in 1..Cut(a, n) THEN o - OffsetOf(a)
                      ELSE IF p = two /\ o + Cut(a, n) <= n THEN o + Cut(a, n)
                      ELSE 0
    IN  [p \in DOMAIN ram |->
            [o \in 1..GranuleBytes |->
                IF from(p, o) = 0 THEN ram[p][o] ELSE bytes[from(p, o)]]]

\* The register a scalar load leaves: extended by opc, cut to 32 bits when
\* the destination is a W register.
Extended(bytes, opc) ==
    LET n == Len(bytes)
        negative == opc \in {2, 3} /\ bytes[n] >= 128 /\ ~Is("sign")
        top == IF opc = 3 THEN 4 ELSE 8
    IN  [i \in 1..8 |-> IF i <= n THEN bytes[i] ELSE IF negative /\ i <= top THEN 255 ELSE 0]

\* LDR and STR by the size and opc bits of the word; LDP and STP of X
\* registers, mode being offset, pre- or post-index.
IsScalar(ins) == ins.op = "SCALAR"
IsStore(ins) == IF IsScalar(ins) THEN ins.opc = 0 ELSE ins.store
Width(ins) == IF IsScalar(ins) THEN 2 ^ ins.size ELSE 16
Base(g, ins) == AddressIn(Reg(g, ins.rn))
Target(g, ins) == Base(g, ins) + IF ~IsScalar(ins) /\ ins.mode = "post" THEN 0 ELSE ins.imm
Source(g, ins) ==
    IF IsScalar(ins) THEN SubSeq(Reg(g, ins.rt), 1, Width(ins))
    ELSE Reg(g, ins.rt) \o Reg(g, ins.rt2)
Into(g, ins, bytes) ==
    IF IsScalar(ins) THEN SetReg(g, ins.rt, Extended(bytes, ins.opc))
    ELSE SetReg(SetReg(g, ins.rt, SubSeq(bytes, 1, 8)), ins.rt2, SubSeq(bytes, 9, 16))
WrittenBack(g, ins, a) ==
    IF IsScalar(ins) \/ ins.mode = "offset" THEN g ELSE SetReg(g, ins.rn, Word(a + ins.imm))

\* One access at a, whose pages are answered one and two.  A store that fails
\* at its second page must not have touched the first.
Access(c, g, ins, op, a, one, two) ==
    LET n == Width(ins)
    IN  IF one.result # "OK"
        THEN guest' = Refused(c, g, op, ins, one, a) /\ UNCHANGED ram
        ELSE IF two.result # "OK"
        THEN /\ guest' = Refused(c, Looked(g, {PageBase(a)}), op, ins, two, Second(a, n))
             /\ ram' = IF op = "STORE" /\ Is("partial")
                       THEN Stored(one.page, one.page, a, SubSeq(Source(g, ins), 1, Cut(a, n)))
                       ELSE ram
        ELSE /\ LET moved == IF op = "STORE" THEN g
                             ELSE Into(g, ins, Loaded(one.page, two.page, a, n))
                    h == WrittenBack(moved, ins, Base(g, ins))
                IN  guest' = Retired([Looked(h, Touched(a, n)) EXCEPT !.completed = @ + 1])
             /\ ram' = IF op = "STORE" /\ ~Is("drop_store")
                       THEN Stored(one.page, two.page, a, Source(g, ins)) ELSE ram

DataStep(c, g, ins, op, a) ==
    IF Full(g) THEN guest' = Stopped(g, 4) /\ UNCHANGED ram
    ELSE Access(c, [g EXCEPT !.data = @ + 1], ins, op, a,
                Translate(c, op, a), Translate(c, op, Second(a, Width(ins))))

-----------------------------------------------------------------------------
(* Control instructions: a PREPARE and a COMMIT request each               *)

Effect(g, op) ==
    CASE op = "MSR" ->
           IF Is("never") THEN g
           ELSE [g EXCEPT !.m = TRUE, !.revision = @ + 1,
                          !.effective = IF Is("early") THEN TRUE ELSE @,
                          !.epoch = IF Is("early") THEN @ + 1 ELSE @]
      [] op = "ISB" -> [g EXCEPT !.effective = g.m, !.epoch = IF g.m # g.effective THEN @ + 1 ELSE @]
      [] op = "TLBI" -> [g EXCEPT !.cached = IF Is("no_tlbi") THEN @ ELSE {},
                                  !.invalidations = @ + 1, !.readsAtTlbi = g.reads]
      [] OTHER -> g

Request(ph, op, token) == [phase |-> ph, op |-> op, token |-> token]

Control(g, op) ==
    LET token == g.retired + 1
        prepared == IF Is("old_token") THEN 1 ELSE token
        pair == IF Is("no_prepare") THEN <<Request("COMMIT", op, 0)>>
                ELSE <<Request("PREPARE", op, token), Request("COMMIT", op, prepared)>>
    IN  IF Len(g.control) + 2 > ControlLimit THEN Stopped(g, 4)
        ELSE Retired([Effect(g, op) EXCEPT !.control = @ \o pair])

-----------------------------------------------------------------------------
(* One instruction                                                         *)

\* What a system register reads as.
System(c, g, from) ==
    CASE from = "sctlr" -> Sctlr(g.m)
      [] from \in {"ttbr0", "ttbr1"} /\ Is("no_tag") -> [c.system[from] EXCEPT ![7] = 0]
      [] OTHER -> c.system[from]

Execute(c, g, ins) ==
    CASE ins.op \in {"SCALAR", "PAIR"} ->
           DataStep(c, g, ins, IF IsStore(ins) THEN "STORE" ELSE "LOAD", Target(g, ins))
      [] ins.op \in {"MSR", "ISB", "DSB", "TLBI"} -> guest' = Control(g, ins.op) /\ UNCHANGED ram
      [] OTHER ->
           /\ UNCHANGED ram
           /\ guest' =
                CASE ins.op = "ADD" -> Retired([g EXCEPT !.regs[ins.rd + 1][1] = @ + ins.imm])
                  [] ins.op = "MOVZ" -> Retired(SetReg(g, ins.rd, Word(ins.imm)))
                  [] ins.op = "MRS" -> Retired(SetReg(g, ins.rd, System(c, g, ins.from)))
                  [] ins.op = "CMP" -> Retired([g EXCEPT !.equal = Reg(g, ins.rn) = Reg(g, ins.rm)])
                  [] ins.op = "BNE" -> [Retired(g) EXCEPT !.pc = IF g.equal THEN @ ELSE g.pc + ins.imm]
                  [] ins.op = "B" -> [Retired(g) EXCEPT !.pc = g.pc + ins.imm]
                  [] ins.op = "HLT" -> Stopped(Retired(g), 1)
                  [] ins.op = "HVC" -> Stopped(g, 2)

\* A fetch, and the instruction it returns; at the budget the run ends.
FetchStep(c, t) ==
    LET ins == IF t.result = "OK" THEN c.text[t.page][(OffsetOf(guest.pc) \div 4) + 1]
               ELSE NoInstruction
        g == [guest EXCEPT !.fetch = @ + 1,
                           !.seen = Append(@, [pc |-> guest.pc, ins |-> ins,
                                               m |-> guest.effective, epoch |-> guest.epoch])]
    IN  IF guest.retired = c.budget THEN guest' = Stopped(guest, 3) /\ UNCHANGED ram
        ELSE IF Full(guest) THEN guest' = Stopped(guest, 4) /\ UNCHANGED ram
        ELSE IF t.result # "OK"
        THEN guest' = Refused(c, g, "FETCH", NoInstruction, t, g.pc) /\ UNCHANGED ram
        ELSE Execute(c, [Looked(g, {PageBase(guest.pc)}) EXCEPT !.blocks = @ + 1], ins)

GuestStep ==
    /\ guest.status = 0
    /\ FetchStep(job, Translate(job, "FETCH", guest.pc))
    /\ UNCHANGED <<variant, probe, number>>
=============================================================================
