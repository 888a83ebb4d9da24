------------------------------ MODULE JitProbe ------------------------------
(***************************************************************************)
(* The stand-alone JIT probes NXMMU, NXDYN, NXDT, NXASID and NXPERM: main  *)
(* runs its cases in order and stops at the first one that fails.  A case  *)
(* (run_case) allocates its pages, fills RAM, builds the tables, opens the *)
(* protection record, lends everything to the machine of module Guest,     *)
(* takes the code's protection back and compares what happened with what   *)
(* the case expects.  NXDT first commits its device tree.                  *)
(***************************************************************************)
EXTENDS Guest

VARIABLES
    phase,     \* where run_case is
    call,      \* the builder call it makes next
    held,      \* the owned pages: 0 to 3 of RAM, tables and code
    ledger,    \* NXDT: the ledger's stamp and the bound tree's
    code,      \* the protection of the code pages
    refusal,   \* what the firmware or a library refused, "none" so far
    outcome    \* "running", or what main returns

probeVars == <<phase, call, held, ledger, code, refusal, outcome>>
jitVars == <<tableVars, guestVars, probeVars>>

Probes == DOMAIN CasesOf
Has(ps) == probe \in ps

JitInit ==
    /\ variant \in Variants /\ probe \in Probes
    /\ number = 1 /\ ram = <<>> /\ guest = GuestStart(job)
    /\ TablesInit(4, 2)
    /\ phase = "start" /\ call = 1 /\ held = 0
    /\ ledger = [stamp |-> 0, bound |-> 0]
    /\ code = "writable" /\ refusal = "none" /\ outcome = "running"

\* An error of run_case drops the pages and is what main returns.
Fail(s) == outcome' = s /\ phase' = "end" /\ held' = 0
Goto(p) == phase' = p /\ UNCHANGED <<outcome, held>>

-----------------------------------------------------------------------------

\* helpers::init.
StartProbe ==
    /\ phase = "start"
    /\ \/ Goto("case") /\ UNCHANGED refusal
       \/ Fail("NOT_READY") /\ refusal' = "init"
    /\ UNCHANGED <<tableVars, guestVars, call, ledger, code>>

\* ArmPages for RAM, tables and code, in this order; the ones already
\* granted are dropped when one is refused.  NXDYN and NXDT also require
\* that the ranges do not overlap.
AllocateCase ==
    /\ phase = "case" /\ number <= Len(CasesOf[probe])
    /\ \/ /\ held' = 3 /\ phase' = (IF Has({"NXDT"}) THEN "stale" ELSE "map")
          /\ UNCHANGED <<refusal, outcome>>
       \/ \E n \in 0..2, s \in {"OUT_OF_RESOURCES", "COMPROMISED_DATA"} :
             Fail(s) /\ refusal' = <<"ram", "tables", "code">>[n + 1]
       \/ Has({"NXDYN", "NXDT"}) /\ Fail("COMPROMISED_DATA") /\ refusal' = "overlap"
    /\ ram' = job.ram /\ guest' = GuestStart(job)
    /\ NewTables(job.levels, job.size)
    /\ call' = 1
    /\ UNCHANGED <<variant, probe, number, ledger, code>>

\* GuestMemory::commit_device_tree (external): a tree bound to an older
\* stamp is refused and nothing is written.
StaleAnswer == IF Is("stale") THEN "OK" ELSE "StaleSnapshot"
Commit(fresh) ==
    ram' = IF fresh \/ Is("stale") \/ Is("stale_writes") THEN Committed(ram) ELSE ram

\* Mutant: only the answer of the stale commit is looked at.
StaleTrusted == StaleAnswer = "StaleSnapshot"

\* require(stale_rejected && before_stale == after_stale).
StaleRefused == StaleAnswer = "StaleSnapshot" /\ ram' = ram

\* checked(..) of any call of the ledger or of the tree's library, and the
\* lookups of a reservation or a property.
LedgerFails ==
    /\ phase \in {"stale", "commit"} \/ (phase = "compare" /\ Has({"NXDT"}))
    /\ \E s \in {"COMPROMISED_DATA", "NOT_FOUND"} : Fail(s)
    /\ refusal' = "ledger"
    /\ UNCHANGED <<tableVars, guestVars, call, ledger, code>>

\* The tree is bound, the guard released, and the commit must be refused.
CommitStale ==
    /\ phase = "stale"
    /\ ledger' = [stamp |-> ledger.stamp + 1, bound |-> ledger.stamp]
    /\ Commit(ledger'.bound = ledger'.stamp)
    /\ IF StaleRefused THEN Goto("commit") ELSE Fail("COMPROMISED_DATA")
    /\ UNCHANGED <<tableVars, variant, probe, number, guest, call, code, refusal>>

\* The tree is bound to the current stamp and committed.
CommitFresh ==
    /\ phase = "commit"
    /\ ledger' = [ledger EXCEPT !.bound = ledger.stamp]
    /\ Commit(ledger'.bound = ledger'.stamp)
    /\ Goto("map")
    /\ UNCHANGED <<tableVars, variant, probe, number, guest, call, code, refusal>>

\* builder.map(...)?, one call after the other.
BuildNext ==
    /\ phase = "map" /\ call <= Len(job.maps) /\ mapped \in {"none", "OK"}
    /\ MapBegin(job.maps[call])
    /\ call' = call + 1
    /\ UNCHANGED <<guestVars, phase, held, ledger, code, refusal, outcome>>

BuildStep == phase = "map" /\ MapStep /\ UNCHANGED <<guestVars, probeVars>>

BuildDone ==
    /\ phase = "map" /\ mapping.page = Nowhere
    /\ \/ mapped = "OK" /\ call > Len(job.maps) /\ Goto("open")
       \/ mapped \notin {"none", "OK"} /\ Fail(mapped)
    /\ UNCHANGED <<tableVars, guestVars, call, ledger, code, refusal>>

\* The system table and vf_efi_jit_protection_open.
OpenProtection ==
    /\ phase = "open"
    /\ \/ Goto("service") /\ UNCHANGED refusal
       \/ Fail("NOT_READY") /\ refusal' = "system_table"
       \/ Fail("UNSUPPORTED") /\ refusal' = "open"
    /\ UNCHANGED <<tableVars, guestVars, call, ledger, code>>

\* The service's constructor; NXDYN reserves the observer's storage before
\* it, NXPERM makes its warming access, a load at EL1, after it.
NewService ==
    /\ phase = "service"
    /\ \/ /\ ~(Is("old_asid") /\ job.tagged)
          /\ IF job.warm /\ TranslateAt(job, "LOAD", job.target, 1).result # "OK"
             THEN Fail("COMPROMISED_DATA") ELSE Goto("run")
          /\ guest' = IF job.warm THEN Looked(guest, {job.target}) ELSE guest
          /\ UNCHANGED refusal
       \/ /\ Has({"NXDYN"}) /\ Fail("OUT_OF_RESOURCES") /\ refusal' = "reserve"
          /\ UNCHANGED guest
       \/ /\ Fail(IF Has({"NXDYN", "NXDT"}) THEN "COMPROMISED_DATA" ELSE "INVALID_PARAMETER")
          /\ refusal' = IF Is("old_asid") /\ job.tagged THEN refusal ELSE "service"
          /\ UNCHANGED guest
    /\ UNCHANGED <<tableVars, variant, probe, number, ram, call, ledger, code>>

\* The runner makes the code executable before it runs a block; a refused
\* callback ends the run.
RunGuest ==
    /\ phase = "run"
    /\ \/ GuestStep /\ code' = "executable" /\ UNCHANGED refusal
       \/ /\ guest.status = 0 /\ code = "writable"
          /\ guest' = Stopped(guest, 5) /\ refusal' = "protect"
          /\ UNCHANGED <<variant, probe, number, ram, code>>
    /\ UNCHANGED <<tableVars, phase, call, held, ledger, outcome>>

\* vf_efi_jit_protect(.., 0, ..), whatever the run returned.
RestoreProtection ==
    /\ phase = "run" /\ guest.status # 0
    /\ \/ code' = "writable" /\ UNCHANGED refusal
       \/ refusal' = "restore" /\ UNCHANGED code
    /\ Goto("compare")
    /\ UNCHANGED <<tableVars, guestVars, call, ledger>>

-----------------------------------------------------------------------------
(* The comparison                                                          *)

\* NXDYN: the guarded fetch still had the old controls, the next one the
\* new ones.
Transition ==
    LET at(a) == SelectSeq(guest.seen, LAMBDA f : f.pc = a)
    IN  /\ at(DynamicEntry + 8) # <<>> /\ at(Post) # <<>>
        /\ LET pending == at(DynamicEntry + 8)[1]
               after == at(Post)[1]
           IN  /\ ~pending.m /\ pending.epoch = 1 /\ pending.ins = Just("ISB")
               /\ after.m /\ after.epoch = 2

\* NXDYN: control.chunks_exact(2).
PairsMatch ==
    \A i \in 1..(Len(guest.control) \div 2) :
        LET prepare == guest.control[2 * i - 1]
            commit == guest.control[2 * i]
        IN  /\ prepare.phase = "PREPARE" /\ commit.phase = "COMMIT"
            /\ prepare.op = commit.op
            /\ prepare.token # 0 /\ commit.token = prepare.token

Fields == {"status", "provider", "retired", "pc", "fault", "regs", "esr", "far", "fetch", "data",
           "completed", "blocks", "reply", "fsc", "last", "context", "descriptor", "output"}

\* Everything a case may look at, by name.
Observed ==
    Both([f \in Fields |-> guest[f]],
         [ram |-> ram, native |-> guest.blocks > 0,
          transition |-> Transition,
          protocol |-> IF PairsMatch THEN Len(guest.control) ELSE 0,
          final |-> [m |-> guest.m, effective |-> guest.effective, epoch |-> guest.epoch,
                     revision |-> guest.revision, invalidations |-> guest.invalidations],
          walked |-> guest.reads > 0,
          rewalked |-> guest.readsAtTlbi > 0 /\ guest.reads > guest.readsAtTlbi])

\* passed: every field the case names has the value it names.
Passed == code = "writable" /\ \A f \in DOMAIN job.want : Observed[f] = job.want[f]

\* The pages are dropped either way; main counts the case or returns.
CompareCase ==
    /\ phase = "compare"
    /\ IF Passed
       THEN /\ number' = number + 1 /\ phase' = "case" /\ held' = 0
            /\ UNCHANGED outcome
       ELSE Fail("COMPROMISED_DATA") /\ UNCHANGED number
    /\ UNCHANGED <<tableVars, variant, probe, ram, guest, call, ledger, code, refusal>>

FinishProbe ==
    /\ phase = "case" /\ number > Len(CasesOf[probe])
    /\ Fail("SUCCESS")
    /\ UNCHANGED <<tableVars, guestVars, call, ledger, code, refusal>>

JitNext ==
    \/ StartProbe \/ AllocateCase \/ LedgerFails \/ CommitStale \/ CommitFresh
    \/ BuildNext \/ BuildStep \/ BuildDone \/ OpenProtection \/ NewService
    \/ RunGuest \/ RestoreProtection \/ CompareCase \/ FinishProbe

JitSpec == JitInit /\ [][JitNext]_jitVars

-----------------------------------------------------------------------------
(* Properties                                                              *)

JitTypeOK ==
    /\ variant \in Variants /\ probe \in Probes /\ number \in 1..(Len(CasesOf[probe]) + 1)
    /\ held \in 0..3 /\ code \in {"writable", "executable"}
    /\ (held = 3) = (phase \notin {"start", "case", "end"})

\* The expectations of every case of every probe, written by hand, agree
\* with the architecture: on a correct machine, and when the firmware
\* refuses nothing, no case fails, in particular not for lack of table pages
\* (run_case).
CorrectPasses ==
    variant = "correct" /\ refusal = "none" => outcome \in {"running", "SUCCESS"}

\* The defects each probe is there to detect.
Detects ==
    [NXMMU |-> {"identity", "no_af", "no_ro", "no_exec", "no_attr", "partial", "sign",
                "drop_store"},
     NXDYN |-> {"identity", "early", "never", "no_prepare", "old_token", "no_tlbi",
                "drop_store"},
     NXDT |-> {"identity", "stale", "stale_writes", "drop_store"},
     NXASID |-> {"identity", "no_tag", "old_asid", "drop_store"},
     NXPERM |-> {"identity", "no_ro", "no_exec", "no_el0", "no_parent", "no_cache",
                 "drop_store"}]

\* A probe that reports success was refused nothing on the way: not its
\* pages, the ledger or the service, and neither of the two protection
\* changes, which run_case notices only in the runner's status and in the
\* state of the code pages.
NoRefusalPasses == outcome = "SUCCESS" => refusal = "none"

\* A probe that reports success has also ruled out the defects it is there
\* for: no early return, no comparison left out and no case order lets a
\* faulty machine through (main, run_case).
PassRulesOut == NoRefusalPasses /\ (outcome = "SUCCESS" => variant \notin Detects[probe])
=============================================================================
