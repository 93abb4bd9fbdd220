---- MODULE Boot ----
\* The SMP boot of os/main.c and os/entry.S: the boot hart starts the others one by
\* one through the SBI, each comes up on the one boot stack and the temporary page
\* table and moves to its own stack and the kernel's; the boot hart then destroys
\* the temporary table, initialises the platform, and lets everybody go on.
\*
\* The model begins in bootcpu_init, where the boot hart is on its own stack.
\*
\* Besides satp every hart has the tables whose entries it may have cached.  A write of
\* satp alone drops none of them, and all tables have the same ASID, 0: only sfence.vma
\* does, which kvm_init and secondarycpu_entry execute after the write.
EXTENDS Integers, FiniteSets

CONSTANTS
    NCPU,           \* harts are numbered 0 .. NCPU - 1
    BootHart        \* the one the SBI chose to start first

ASSUME NCPUAssumption == NCPU \in Nat \ {0} /\ BootHart \in 0 .. NCPU - 1

Hart == 0 .. NCPU - 1
Secondary == Hart \ {BootHart}

VARIABLES
    pc,                 \* where each hart is
    hartid, cpuid, saved_booted_cnt,    \* local variables of bootcpu_init
    booted_count, halt_specific_init,   \* the shared flags
    tp, sp, satp,       \* registers of each hart
    tlb,                \* the page tables it may still have entries of
    tmp,                \* the local copy in "booted_count++"
    mhart_id,           \* cpus[].mhart_id
    poisoned,           \* relocate_pagetable has been overwritten
    platform            \* console, plic, allocators and processes are initialised

bootVars == <<hartid, cpuid, saved_booted_cnt>>
flagVars == <<booted_count, halt_specific_init>>
regVars == <<tp, sp, satp, tlb, tmp>>
vars == <<pc, bootVars, flagVars, regVars, mhart_id, poisoned, platform>>

BootPC == {"next", "start", "online", "relocated", "platform", "go", "scheduler"}
SecondaryPC == {"off", "entry", "relocating", "init", "booted", "count", "halt_init", "scheduler"}

TypeOK ==
    /\ pc \in [Hart -> BootPC \cup SecondaryPC]
    /\ hartid \in 0 .. NCPU
    /\ cpuid \in 1 .. NCPU
    /\ saved_booted_cnt \in 0 .. NCPU
    /\ booted_count \in 0 .. NCPU
    /\ halt_specific_init \in BOOLEAN
    /\ tp \in [Hart -> Hart]
    /\ sp \in [Hart -> {"none", "boot", "sched"}]
    /\ satp \in [Hart -> {"bare", "relocate", "kernel"}]
    /\ tlb \in [Hart -> SUBSET {"relocate", "kernel"}]
    /\ tmp \in [Hart -> 0 .. NCPU]
    /\ mhart_id \in [Hart -> Hart]
    /\ poisoned \in BOOLEAN
    /\ platform \in BOOLEAN

Init ==
    /\ pc = [h \in Hart |-> IF h = BootHart THEN "next" ELSE "off"]
    /\ hartid = 0
    /\ cpuid = 1
    /\ saved_booted_cnt = 0
    /\ booted_count = 0
    /\ halt_specific_init = FALSE
    /\ tp = [h \in Hart |-> 0]
    /\ sp = [h \in Hart |-> IF h = BootHart THEN "sched" ELSE "none"]
    /\ satp = [h \in Hart |-> IF h = BootHart THEN "kernel" ELSE "bare"]
    /\ tlb = [h \in Hart |-> IF h = BootHart THEN {"kernel"} ELSE {}]
    /\ tmp = [h \in Hart |-> 0]
    /\ mhart_id = [k \in Hart |-> IF k = 0 THEN BootHart ELSE 0]
    /\ poisoned = FALSE
    /\ platform = FALSE
-----------------------------------------------------------------------------
Goto(h, l) == pc' = [pc EXCEPT ![h] = l]
Boot(l) == pc[BootHart] = l

\* The head of the loop over the harts.
next_hart ==
    /\ Boot("next")
    /\ IF hartid = NCPU
       THEN Goto(BootHart, "relocated") /\ UNCHANGED <<hartid, saved_booted_cnt>>
       ELSE IF hartid = mhart_id[tp[BootHart]]
            THEN hartid' = hartid + 1 /\ UNCHANGED <<pc, saved_booted_cnt>>
            ELSE /\ saved_booted_cnt' = booted_count
                 /\ Goto(BootHart, "start")
                 /\ UNCHANGED hartid
    /\ UNCHANGED <<cpuid, flagVars, regVars, mhart_id, poisoned, platform>>

\* Mutant of hart_start: the counter is read once the hart is already running.
hart_start_reads_after ==
    /\ Boot("start")
    /\ \/ /\ pc[hartid] = "off"
          /\ pc' = [pc EXCEPT ![hartid] = "entry"]
          /\ tp' = [tp EXCEPT ![hartid] = cpuid]
          /\ sp' = [sp EXCEPT ![hartid] = "boot"]
          /\ UNCHANGED <<hartid, saved_booted_cnt>>
       \/ /\ pc[hartid] # "off"
          /\ saved_booted_cnt' = booted_count
          /\ Goto(BootHart, "online")
          /\ UNCHANGED <<hartid, tp, sp>>
    /\ UNCHANGED <<cpuid, flagVars, satp, tlb, tmp, mhart_id, poisoned, platform>>

\* sbi_hsm_hart_start(hartid, _entry_secondary_cpu, cpuid).  The hart begins on the
\* boot stack with its cpuid in a1; or the SBI refuses and the hart is skipped.
hart_start ==
    /\ Boot("start")
    /\ \/ /\ pc' = [pc EXCEPT ![hartid] = "entry", ![BootHart] = "online"]
          /\ tp' = [tp EXCEPT ![hartid] = cpuid]
          /\ sp' = [sp EXCEPT ![hartid] = "boot"]
          /\ UNCHANGED hartid
       \/ /\ hartid' = hartid + 1
          /\ Goto(BootHart, "next")
          /\ UNCHANGED <<tp, sp>>
    /\ UNCHANGED <<cpuid, saved_booted_cnt, flagVars, satp, tlb, tmp, mhart_id, poisoned, platform>>

\* Mutant of wait_online: the boot hart does not wait.
wait_online_at_once ==
    /\ Boot("online")
    /\ cpuid' = cpuid + 1
    /\ hartid' = hartid + 1
    /\ Goto(BootHart, "next")
    /\ UNCHANGED <<saved_booted_cnt, flagVars, regVars, mhart_id, poisoned, platform>>

\* Mutant of wait_online: cpuid is not stepped.
wait_online_same_cpuid ==
    /\ Boot("online")
    /\ booted_count # saved_booted_cnt
    /\ hartid' = hartid + 1
    /\ Goto(BootHart, "next")
    /\ UNCHANGED <<cpuid, saved_booted_cnt, flagVars, regVars, mhart_id, poisoned, platform>>

\* while (booted_count == saved_booted_cnt); cpuid++
wait_online ==
    /\ Boot("online")
    /\ booted_count # saved_booted_cnt
    /\ cpuid' = cpuid + 1
    /\ hartid' = hartid + 1
    /\ Goto(BootHart, "next")
    /\ UNCHANGED <<saved_booted_cnt, flagVars, regVars, mhart_id, poisoned, platform>>

\* The temporary page tables are filled with 0xde.
poison ==
    /\ Boot("relocated")
    /\ poisoned' = TRUE
    /\ Goto(BootHart, "platform")
    /\ UNCHANGED <<bootVars, flagVars, regVars, mhart_id, platform>>

\* trap_init ... load_init_app, timer_init, plicinithart
platform_init ==
    /\ Boot("platform")
    /\ platform' = TRUE
    /\ Goto(BootHart, "go")
    /\ UNCHANGED <<bootVars, flagVars, regVars, mhart_id, poisoned>>

go ==
    /\ Boot("go")
    /\ halt_specific_init' = TRUE
    /\ Goto(BootHart, "scheduler")
    /\ UNCHANGED <<bootVars, booted_count, regVars, mhart_id, poisoned, platform>>
-----------------------------------------------------------------------------
\* secondarycpu_entry: mycpu() is set up and the temporary table switched on, with
\* sfence.vma.
secondarycpu_entry(h) ==
    /\ pc[h] = "entry"
    /\ mhart_id' = [mhart_id EXCEPT ![tp[h]] = h]
    /\ satp' = [satp EXCEPT ![h] = "relocate"]
    /\ tlb' = [tlb EXCEPT ![h] = {"relocate"}]
    /\ Goto(h, "relocating")
    /\ UNCHANGED <<bootVars, flagVars, tp, sp, tmp, poisoned, platform>>

\* secondarycpu_relocating: the kernel's page table, without sfence.vma; then the hart's
\* own stack.
secondarycpu_relocating(h) ==
    /\ pc[h] = "relocating"
    /\ satp' = [satp EXCEPT ![h] = "kernel"]
    /\ tlb' = [tlb EXCEPT ![h] = @ \cup {"kernel"}]
    /\ Goto(h, "init")
    /\ UNCHANGED <<bootVars, flagVars, tp, sp, tmp, mhart_id, poisoned, platform>>

\* Mutant of leave_boot_stack: the hart stays on the boot stack.
leave_boot_stack_never(h) ==
    /\ pc[h] = "init"
    /\ Goto(h, "booted")
    /\ UNCHANGED <<bootVars, flagVars, regVars, mhart_id, poisoned, platform>>

leave_boot_stack(h) ==
    /\ pc[h] = "init"
    /\ sp' = [sp EXCEPT ![h] = "sched"]
    /\ Goto(h, "booted")
    /\ UNCHANGED <<bootVars, flagVars, tp, satp, tlb, tmp, mhart_id, poisoned, platform>>

\* booted_count++ is a load and a store.
booted_load(h) ==
    /\ pc[h] = "booted"
    /\ tmp' = [tmp EXCEPT ![h] = booted_count]
    /\ Goto(h, "count")
    /\ UNCHANGED <<bootVars, flagVars, tp, sp, satp, tlb, mhart_id, poisoned, platform>>

booted_store(h) ==
    /\ pc[h] = "count"
    /\ booted_count' = tmp[h] + 1
    /\ Goto(h, "halt_init")
    /\ UNCHANGED <<bootVars, halt_specific_init, regVars, mhart_id, poisoned, platform>>

\* while (!halt_specific_init); then trap, timer and plic of this hart.
halt_init(h) ==
    /\ pc[h] = "halt_init"
    /\ halt_specific_init
    /\ Goto(h, "scheduler")
    /\ UNCHANGED <<bootVars, flagVars, regVars, mhart_id, poisoned, platform>>
-----------------------------------------------------------------------------
BootCpu == next_hart \/ hart_start \/ wait_online \/ poison \/ platform_init \/ go

SecondaryCpu(h) ==
    \/ secondarycpu_entry(h) \/ secondarycpu_relocating(h) \/ leave_boot_stack(h)
    \/ booted_load(h) \/ booted_store(h) \/ halt_init(h)

Next == BootCpu \/ \E h \in Secondary : SecondaryCpu(h)

\* Harts execute; a hart whose start the SBI has accepted does start.
Fairness == WF_vars(BootCpu) /\ \A h \in Secondary : WF_vars(SecondaryCpu(h))

Spec == Init /\ [][Next]_vars
FairSpec == Spec /\ Fairness
-----------------------------------------------------------------------------
\* Two harts are never on the boot stack at the same time.
BootStackExclusive == \A g, h \in Hart : sp[g] = "boot" /\ sp[h] = "boot" => g = h

\* No hart translates addresses through the temporary table once it is overwritten, or
\* can still come to do so: every hart has gone from "satp <= relocate_pagetable" to
\* "satp <= kernel_pagetable" before the "wait for all cpu online" ends (main.c).  THIS DOES
\* NOT HOLD: secondarycpu_relocating has no sfence.vma, so entries of the temporary table may
\* still be cached in a hart that boot has counted.
TableInUseIntact ==
    poisoned => \A h \in Hart : pc[h] # "entry" /\ satp[h] # "relocate" /\ "relocate" \notin tlb[h]

\* What does hold, of the register alone: no hart has or is about to load the temporary table into
\* satp once it is overwritten.
SatpIntact ==
    poisoned => \A h \in Hart : pc[h] # "entry" /\ satp[h] # "relocate"

\* No hart schedules before processes, allocators and the console exist.
InitBeforeSchedule == \A h \in Hart : pc[h] = "scheduler" => platform

\* The harts that are up have cpuids of their own, and cpus[] records which hart
\* it belongs to, as plicinithart and plic_claim need it.
OwnCpu ==
    \A g, h \in Hart :
        pc[g] \notin {"off", "entry"} /\ pc[h] \notin {"off", "entry"} =>
            mhart_id[tp[h]] = h /\ (g # h => tp[g] # tp[h])

\* Every hart the SBI has started ends up in the scheduler, and so does the boot hart.
AllSchedule == <>[](\A h \in Hart : pc[h] \in {"scheduler", "off"})
====
