----------------------------- MODULE GuestCode -----------------------------
(***************************************************************************)
(* The vocabulary of the JIT probes' cases: values, addresses, pages,      *)
(* instructions and the calls of the table builder.                        *)
(*                                                                         *)
(* A page has GranuleBytes bytes.  A 64-bit value is its eight bytes, an   *)
(* address a small integer.  A page that is executed is a sequence of      *)
(* instructions, a page that is read or written a tuple of bytes.          *)
(***************************************************************************)
EXTENDS PageTables, SequencesExt

GranuleBytes == 64
Upper == 1024          \* the first address of the upper half
Unbacked == 99         \* an output address outside RAM (0x5000_0000)

PageOf(a) == (a % Upper) \div GranuleBytes
OffsetOf(a) == a % GranuleBytes
PageBase(a) == a - OffsetOf(a)

\* The indices of 0x2000_0000 and of 0xffff_8000_2000_0000 above the last
\* level, 1 standing for every index but 0.
Prefix(l, a) == IF l = 3 THEN <<0, 1>> ELSE <<IF a < Upper THEN 0 ELSE 1, 0, 1>>
VirtualPage(l, a) == [root |-> a \div Upper, path |-> Append(Prefix(l, a), PageOf(a))]

\* Small values and addresses as 64-bit words.
Word(n) == <<n % 256, (n \div 256) % 256, (n \div 65536) % 256, n \div 16777216, 0, 0, 0, 0>>
AddressIn(w) == w[1] + 256 * w[2]

\* VALUE, least significant byte first; SCTLR without and with M.
Value == <<129, 171, 222, 192, 68, 51, 34, 17>>
Sctlr(m) == Word(IF m THEN 2051 ELSE 2050)

\* A page of bytes; Patch puts bytes at an offset.
Filled(b) == [i \in 1..GranuleBytes |-> b]
Patch(page, off, bytes) ==
    [i \in 1..GranuleBytes |-> IF i - off \in 1..Len(bytes) THEN bytes[i - off] ELSE page[i]]

\* pa | 0x403, and map(va, leaf) of the plain builders.
LeafAt(p) == [pa |-> p, flags |-> {"AF"}]
PlainCall(l, a, leaf) ==
    [va |-> VirtualPage(l, a), leaf |-> leaf, choice |-> 0, parent |-> {}, xn |-> {}]

\* f, and g where f says nothing: @@ of module TLC, whose definition a proof
\* cannot expand.
Both(f, g) == [x \in DOMAIN f \cup DOMAIN g |-> IF x \in DOMAIN f THEN f[x] ELSE g[x]]

NoInstruction == [op |-> "none"]
Just(op) == [op |-> op]
Hlt == Just("HLT")
Add(rd, n) == [op |-> "ADD", rd |-> rd, imm |-> n]
Movz(rd, n) == [op |-> "MOVZ", rd |-> rd, imm |-> n]
Mrs(rd, from) == [op |-> "MRS", rd |-> rd, from |-> from]
Jump(op, n) == [op |-> op, imm |-> n]
Ldst(sz, opc, rt, rn, off) ==
    [op |-> "SCALAR", size |-> sz, opc |-> opc, rt |-> rt, rn |-> rn, imm |-> off]
LdpStp(st, md, off, rt, rt2, rn) ==
    [op |-> "PAIR", store |-> st, mode |-> md, imm |-> off, rt |-> rt, rt2 |-> rt2, rn |-> rn]

NoSyndrome == [class |-> 0, fsc |-> 0, write |-> 0]
Syndrome(class, fsc, st) == [class |-> class, fsc |-> fsc, write |-> IF st THEN 1 ELSE 0]
=============================================================================
