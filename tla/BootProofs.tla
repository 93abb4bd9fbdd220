---- MODULE BootProofs ----
\* Proofs about the boot of os/main.c for any number of harts: first the handshake of
\* Boot.tla, which holds as well of the boot that builds its page tables; then those tables,
\* for any image and any memory: every hart finds its code, its variables and its stack.
EXTENDS BootMap, TLAPS

\* A secondary hart between its start and its booted_count++.
Starting(h) == pc[h] \in {"entry", "relocating", "init", "booted", "count"}

\* The boot hart runs its own code on its own stack, with the kernel's page table.
BootHartInv ==
    /\ pc[BootHart] \in BootPC
    /\ tp[BootHart] = 0 /\ mhart_id[0] = BootHart
    /\ sp[BootHart] = "sched" /\ satp[BootHart] = "kernel"

\* Where the loop over the harts stands; a started hart has taken one number each.
LoopInv ==
    /\ cpuid <= IF BootHart < hartid THEN hartid ELSE hartid + 1
    /\ pc[BootHart] \in {"start", "online"} => hartid < NCPU /\ hartid # BootHart
    /\ pc[BootHart] \in {"start", "online"} => saved_booted_cnt = cpuid - 1
    /\ pc[BootHart] \in {"relocated", "platform", "go", "scheduler"} => hartid = NCPU

\* The harts are started in order, and only the one the boot hart waits for is on
\* its way.
OrderInv ==
    \A h \in Secondary :
        /\ pc[h] \in SecondaryPC
        /\ Starting(h) => pc[BootHart] = "online" /\ h = hartid
        /\ h > hartid \/ (h = hartid /\ pc[BootHart] # "online") => pc[h] = "off"
        /\ h = hartid /\ pc[BootHart] = "online" => pc[h] # "off"

\* booted_count is the number of harts that have come up.
CountInv ==
    /\ pc[BootHart] # "online" => booted_count = cpuid - 1
    /\ pc[BootHart] = "online" =>
         booted_count = IF Starting(hartid) THEN cpuid - 1 ELSE cpuid
    /\ \A h \in Secondary : pc[h] = "count" => tmp[h] = booted_count

\* The stack and the page table of a secondary hart follow from where it is.
RegInv ==
    \A h \in Secondary :
        /\ sp[h] = "boot" => pc[h] \in {"entry", "relocating", "init"}
        /\ satp[h] = "relocate" => pc[h] = "relocating"

\* Each hart that has been started has a number of its own.
NumberInv ==
    \A h \in Secondary : pc[h] # "off" =>
        /\ 1 <= tp[h]
        /\ IF pc[BootHart] = "online" /\ h = hartid THEN tp[h] = cpuid ELSE tp[h] < cpuid
        /\ pc[h] # "entry" => mhart_id[tp[h]] = h
        /\ \A g \in Secondary : g # h /\ pc[g] # "off" => tp[g] # tp[h]

\* The order of the boot hart's last steps.
PhaseInv ==
    /\ poisoned => pc[BootHart] \in {"platform", "go", "scheduler"}
    /\ pc[BootHart] \in {"go", "scheduler"} => platform
    /\ halt_specific_init => platform /\ pc[BootHart] = "scheduler"
    /\ \A h \in Secondary : pc[h] = "scheduler" => halt_specific_init

IInv ==
    /\ TypeOK /\ BootHartInv /\ LoopInv /\ OrderInv /\ CountInv /\ RegInv
    /\ NumberInv /\ PhaseInv
-----------------------------------------------------------------------------
\* The numbers of the harts.
LEMMA Harts ==
    /\ NCPU \in Int /\ BootHart \in Hart
    /\ \A h \in Hart : h \in Int /\ 0 <= h /\ h < NCPU
    /\ \A h \in Int : 0 <= h /\ h < NCPU => h \in Hart
  BY NCPUAssumption DEF Hart

\* The counters are numbers.
LEMMA Counters ==
    ASSUME TypeOK
    PROVE  /\ hartid \in Int /\ 0 <= hartid /\ hartid <= NCPU
           /\ cpuid \in Int /\ 1 <= cpuid /\ cpuid <= NCPU
           /\ saved_booted_cnt \in Int /\ booted_count \in Int
           /\ \A h \in Hart : tp[h] \in Hart /\ tmp[h] \in Int
  BY NCPUAssumption DEF TypeOK

\* The loop looks at the next hart.
LEMMA NextHartKeeps ==
    ASSUME IInv, next_hart
    PROVE  IInv'
<1>. USE DEF IInv, Secondary
<1>1. /\ \/ hartid = NCPU /\ pc'[BootHart] = "relocated" /\ hartid' = hartid
         \/ hartid < NCPU /\ hartid = BootHart /\ pc'[BootHart] = "next" /\ hartid' = hartid + 1
         \/ /\ hartid < NCPU /\ hartid # BootHart /\ pc'[BootHart] = "start" /\ hartid' = hartid
            /\ saved_booted_cnt' = booted_count
      /\ saved_booted_cnt' \in {saved_booted_cnt, booted_count}
      /\ pc[BootHart] = "next" /\ \A g \in Secondary : pc'[g] = pc[g]
      /\ UNCHANGED <<cpuid, booted_count, halt_specific_init, tp, sp, satp, tlb, tmp, mhart_id,
                    poisoned, platform>>
  BY Harts DEF next_hart, TypeOK, Goto, Boot, bootVars, flagVars, regVars, BootHartInv
<1>2. TypeOK'
  <2>1. pc' \in [Hart -> BootPC \cup SecondaryPC]
    BY DEF next_hart, TypeOK, Goto, BootPC, SecondaryPC
  <2>2. /\ hartid' \in 0 .. NCPU /\ cpuid' \in 1 .. NCPU
        /\ saved_booted_cnt' \in 0 .. NCPU /\ booted_count' \in 0 .. NCPU
    BY <1>1, Harts, NCPUAssumption DEF TypeOK, LoopInv
  <2>. QED BY <1>1, <2>1, <2>2 DEF TypeOK
<1>3. BootHartInv'
  BY <1>1, Harts, Counters DEF BootHartInv, BootPC
<1>4. LoopInv'
  BY <1>1, Harts, Counters DEF LoopInv, BootHartInv, CountInv, BootPC
<1>5. OrderInv'
  BY <1>1, Harts, Counters DEF OrderInv, LoopInv, BootHartInv, Starting, SecondaryPC, BootPC
<1>6. CountInv'
  BY <1>1, Harts, Counters DEF CountInv, OrderInv, LoopInv, Starting, BootPC
<1>7. RegInv'
  BY <1>1, Harts, Counters DEF RegInv, BootPC
<1>8. NumberInv'
  BY <1>1, Harts, Counters DEF NumberInv, OrderInv, LoopInv, BootPC
<1>9. PhaseInv'
  BY <1>1, Harts, Counters DEF PhaseInv, OrderInv, Starting, BootHartInv, BootPC
<1>. QED BY <1>2, <1>3, <1>4, <1>5, <1>6, <1>7, <1>8, <1>9

\* The SBI starts the hart: it is the next one in order and takes the next number.
LEMMA HartStartedKeeps ==
    ASSUME IInv, hart_start, hartid' = hartid
    PROVE  IInv'
<1>. USE DEF IInv, Secondary
<1>1. /\ pc[BootHart] = "start" /\ pc'[BootHart] = "online"
      /\ hartid \in Secondary /\ cpuid \in Hart /\ cpuid >= 1
      /\ pc[hartid] = "off" /\ pc'[hartid] = "entry"
      /\ tp'[hartid] = cpuid /\ sp'[hartid] = "boot" /\ tp'[BootHart] = tp[BootHart] /\ sp'[BootHart] = sp[BootHart]
      /\ \A g \in Secondary : g # hartid => pc'[g] = pc[g] /\ tp'[g] = tp[g] /\ sp'[g] = sp[g]
      /\ UNCHANGED <<hartid, cpuid, saved_booted_cnt, booted_count, halt_specific_init, satp,
                    tlb, tmp, mhart_id, poisoned, platform>>
  <2>1. /\ hartid \in Secondary /\ cpuid \in Hart /\ cpuid >= 1 /\ pc[hartid] = "off"
        /\ pc[BootHart] = "start"
    <3>1. pc[BootHart] = "start"
      BY DEF hart_start, Boot
    <3>2. hartid \in Secondary /\ cpuid \in Hart /\ cpuid >= 1
      BY <3>1, Harts, Counters DEF LoopInv
    <3>. QED BY <3>1, <3>2 DEF OrderInv
  <2>2. /\ pc' = [pc EXCEPT ![hartid] = "entry", ![BootHart] = "online"]
        /\ tp' = [tp EXCEPT ![hartid] = cpuid]
        /\ sp' = [sp EXCEPT ![hartid] = "boot"]
    BY Harts, Counters DEF hart_start, TypeOK
  <2>3. UNCHANGED <<hartid, cpuid, saved_booted_cnt, booted_count, halt_specific_init, satp,
                    tlb, tmp, mhart_id, poisoned, platform>>
    BY DEF hart_start, flagVars
  <2>. QED BY <2>1, <2>2, <2>3, Harts DEF TypeOK
<1>2. TypeOK'
  <2>1. pc' \in [Hart -> BootPC \cup SecondaryPC]
    BY <1>1, Harts, Counters DEF hart_start, TypeOK, BootPC, SecondaryPC
  <2>2. tp' \in [Hart -> Hart] /\ sp' \in [Hart -> {"none", "boot", "sched"}]
    BY <1>1, Harts, Counters DEF hart_start, TypeOK
  <2>. QED BY <1>1, <2>1, <2>2 DEF TypeOK
<1>3. BootHartInv'
  BY <1>1, Harts, Counters DEF BootHartInv, BootPC
<1>4. LoopInv'
  BY <1>1, Harts, Counters DEF LoopInv
<1>5. OrderInv'
  BY <1>1, Harts, Counters DEF OrderInv, Starting, SecondaryPC, TypeOK
<1>6. CountInv'
  BY <1>1, Harts, Counters DEF CountInv, Starting
<1>7. RegInv'
  BY <1>1, Harts, Counters DEF RegInv
<1>8. NumberInv'
  BY <1>1, Harts, Counters DEF NumberInv, TypeOK, OrderInv
<1>9. PhaseInv'
  BY <1>1, Harts, Counters DEF PhaseInv
<1>. QED BY <1>2, <1>3, <1>4, <1>5, <1>6, <1>7, <1>8, <1>9

\* The SBI refuses: the hart stays off and its number goes to the next one.
LEMMA HartRefusedKeeps ==
    ASSUME IInv, hart_start, hartid' # hartid
    PROVE  IInv'
<1>. USE DEF IInv, Secondary
<1>1. /\ pc[BootHart] = "start" /\ pc'[BootHart] = "next"
      /\ \A g \in Secondary : pc'[g] = pc[g]
      /\ hartid' = hartid + 1 /\ hartid < NCPU /\ hartid # BootHart
      /\ UNCHANGED <<cpuid, saved_booted_cnt, booted_count, halt_specific_init, tp, sp, satp,
                    tlb, tmp, mhart_id, poisoned, platform>>
  BY Harts, Counters DEF hart_start, Boot, Goto, TypeOK, LoopInv, flagVars
<1>2. TypeOK'
  <2>1. pc' \in [Hart -> BootPC \cup SecondaryPC]
    BY DEF hart_start, TypeOK, Goto, BootPC, SecondaryPC
  <2>2. /\ hartid' \in 0 .. NCPU /\ cpuid' \in 1 .. NCPU
        /\ saved_booted_cnt' \in 0 .. NCPU /\ booted_count' \in 0 .. NCPU
    BY <1>1, Harts, NCPUAssumption DEF TypeOK, LoopInv
  <2>. QED BY <1>1, <2>1, <2>2 DEF TypeOK
<1>3. BootHartInv'
  BY <1>1, Harts, Counters DEF BootHartInv, BootPC
<1>4. LoopInv'
  BY <1>1, Harts, Counters DEF LoopInv, TypeOK
<1>5. OrderInv'
  BY <1>1, Harts, Counters DEF OrderInv, Starting, TypeOK
<1>6. CountInv'
  BY <1>1, Harts, Counters DEF CountInv, Starting
<1>7. RegInv'
  BY <1>1, Harts, Counters DEF RegInv
<1>8. NumberInv'
  BY <1>1, Harts, Counters DEF NumberInv
<1>9. PhaseInv'
  BY <1>1, Harts, Counters DEF PhaseInv
<1>. QED BY <1>2, <1>3, <1>4, <1>5, <1>6, <1>7, <1>8, <1>9

\* The counter has changed.
LEMMA WaitOnlineKeeps ==
    ASSUME IInv, wait_online
    PROVE  IInv'
<1>. USE DEF IInv, Secondary
<1>1. /\ pc[BootHart] = "online" /\ pc'[BootHart] = "next" /\ \A g \in Secondary : pc'[g] = pc[g]
      /\ booted_count # saved_booted_cnt /\ hartid' = hartid + 1 /\ cpuid' = cpuid + 1
      /\ UNCHANGED <<saved_booted_cnt, booted_count, halt_specific_init, tp, sp, satp, tlb, tmp,
                    mhart_id, poisoned, platform>>
  BY Harts DEF wait_online, TypeOK, Goto, Boot, bootVars, flagVars, regVars, BootHartInv
<1>2. TypeOK'
  <2>1. pc' \in [Hart -> BootPC \cup SecondaryPC]
    BY DEF wait_online, TypeOK, Goto, BootPC, SecondaryPC
  <2>2. /\ hartid' \in 0 .. NCPU /\ cpuid' \in 1 .. NCPU
        /\ saved_booted_cnt' \in 0 .. NCPU /\ booted_count' \in 0 .. NCPU
    BY <1>1, Harts, NCPUAssumption DEF TypeOK, LoopInv
  <2>. QED BY <1>1, <2>1, <2>2 DEF TypeOK
<1>3. BootHartInv'
  BY <1>1, Harts, Counters DEF BootHartInv, BootPC
<1>4. LoopInv'
  BY <1>1, Harts, Counters DEF LoopInv, BootHartInv, CountInv, BootPC
<1>5. OrderInv'
  BY <1>1, Harts, Counters DEF OrderInv, LoopInv, BootHartInv, Starting, SecondaryPC, CountInv,
     BootPC
<1>6. CountInv'
  BY <1>1, Harts, Counters DEF CountInv, OrderInv, LoopInv, Starting, BootPC
<1>7. RegInv'
  BY <1>1, Harts, Counters DEF RegInv, BootPC
<1>8. NumberInv'
  BY <1>1, Harts, Counters DEF NumberInv, OrderInv, LoopInv, BootPC
<1>9. PhaseInv'
  BY <1>1, Harts, Counters DEF PhaseInv, OrderInv, Starting, BootHartInv, BootPC
<1>. QED BY <1>2, <1>3, <1>4, <1>5, <1>6, <1>7, <1>8, <1>9

\* The temporary table is overwritten.
LEMMA PoisonKeeps ==
    ASSUME IInv, poison
    PROVE  IInv'
<1>. USE DEF IInv, Secondary
<1>1. /\ pc[BootHart] = "relocated" /\ pc'[BootHart] = "platform" /\ \A g \in Secondary : pc'[g] = pc[g]
      /\ poisoned' = TRUE
      /\ UNCHANGED <<hartid, cpuid, saved_booted_cnt, booted_count, halt_specific_init, tp, sp,
                    satp, tlb, tmp, mhart_id, platform>>
  BY Harts DEF poison, TypeOK, Goto, Boot, bootVars, flagVars, regVars, BootHartInv
<1>2. TypeOK'
  BY <1>1, NCPUAssumption DEF Hart, poison, TypeOK, Goto, Boot, bootVars, flagVars, regVars,
     BootPC, SecondaryPC
<1>3. BootHartInv'
  BY <1>1, Harts, Counters DEF BootHartInv, BootPC
<1>4. LoopInv'
  BY <1>1, Harts, Counters DEF LoopInv, BootHartInv, CountInv, BootPC
<1>5. OrderInv'
  BY <1>1, Harts, Counters DEF OrderInv, LoopInv, BootHartInv, Starting, SecondaryPC, BootPC
<1>6. CountInv'
  BY <1>1, Harts, Counters DEF CountInv, OrderInv, LoopInv, Starting, BootPC
<1>7. RegInv'
  BY <1>1, Harts, Counters DEF RegInv, BootPC
<1>8. NumberInv'
  BY <1>1, Harts, Counters DEF NumberInv, OrderInv, LoopInv, BootPC
<1>9. PhaseInv'
  BY <1>1, Harts, Counters DEF PhaseInv, OrderInv, Starting, BootHartInv, BootPC
<1>. QED BY <1>2, <1>3, <1>4, <1>5, <1>6, <1>7, <1>8, <1>9

\* The platform is initialised.
LEMMA PlatformInitKeeps ==
    ASSUME IInv, platform_init
    PROVE  IInv'
<1>. USE DEF IInv, Secondary
<1>1. /\ pc[BootHart] = "platform" /\ pc'[BootHart] = "go" /\ \A g \in Secondary : pc'[g] = pc[g]
      /\ platform' = TRUE
      /\ UNCHANGED <<hartid, cpuid, saved_booted_cnt, booted_count, halt_specific_init, tp, sp,
                    satp, tlb, tmp, mhart_id, poisoned>>
  BY Harts DEF platform_init, TypeOK, Goto, Boot, bootVars, flagVars, regVars, BootHartInv
<1>2. TypeOK'
  BY <1>1, NCPUAssumption DEF Hart, platform_init, TypeOK, Goto, Boot, bootVars, flagVars,
     regVars, BootPC, SecondaryPC
<1>3. BootHartInv'
  BY <1>1, Harts, Counters DEF BootHartInv, BootPC
<1>4. LoopInv'
  BY <1>1, Harts, Counters DEF LoopInv, BootHartInv, CountInv, BootPC
<1>5. OrderInv'
  BY <1>1, Harts, Counters DEF OrderInv, LoopInv, BootHartInv, Starting, SecondaryPC, BootPC
<1>6. CountInv'
  BY <1>1, Harts, Counters DEF CountInv, OrderInv, LoopInv, Starting, BootPC
<1>7. RegInv'
  BY <1>1, Harts, Counters DEF RegInv, BootPC
<1>8. NumberInv'
  BY <1>1, Harts, Counters DEF NumberInv, OrderInv, LoopInv, BootPC
<1>9. PhaseInv'
  BY <1>1, Harts, Counters DEF PhaseInv, OrderInv, Starting, BootHartInv, BootPC
<1>. QED BY <1>2, <1>3, <1>4, <1>5, <1>6, <1>7, <1>8, <1>9

\* The secondary harts are let go.
LEMMA GoKeeps ==
    ASSUME IInv, go
    PROVE  IInv'
<1>. USE DEF IInv, Secondary
<1>1. /\ pc[BootHart] = "go" /\ pc'[BootHart] = "scheduler" /\ \A g \in Secondary : pc'[g] = pc[g]
      /\ halt_specific_init' = TRUE
      /\ UNCHANGED <<hartid, cpuid, saved_booted_cnt, booted_count, tp, sp, satp, tlb, tmp, mhart_id,
                    poisoned, platform>>
  BY Harts DEF go, TypeOK, Goto, Boot, bootVars, flagVars, regVars, BootHartInv
<1>2. TypeOK'
  BY <1>1, NCPUAssumption DEF Hart, go, TypeOK, Goto, Boot, bootVars, flagVars, regVars, BootPC,
     SecondaryPC
<1>3. BootHartInv'
  BY <1>1, Harts, Counters DEF BootHartInv, BootPC
<1>4. LoopInv'
  BY <1>1, Harts, Counters DEF LoopInv, BootHartInv, CountInv, BootPC
<1>5. OrderInv'
  BY <1>1, Harts, Counters DEF OrderInv, LoopInv, BootHartInv, Starting, SecondaryPC, BootPC
<1>6. CountInv'
  BY <1>1, Harts, Counters DEF CountInv, OrderInv, LoopInv, Starting, BootPC
<1>7. RegInv'
  BY <1>1, Harts, Counters DEF RegInv, BootPC
<1>8. NumberInv'
  BY <1>1, Harts, Counters DEF NumberInv, OrderInv, LoopInv, BootPC
<1>9. PhaseInv'
  BY <1>1, Harts, Counters DEF PhaseInv, OrderInv, Starting, BootHartInv, BootPC
<1>. QED BY <1>2, <1>3, <1>4, <1>5, <1>6, <1>7, <1>8, <1>9

\* A hart enters with its number.
LEMMA SecondarycpuEntryKeeps ==
    ASSUME IInv, NEW h \in Secondary, secondarycpu_entry(h)
    PROVE  IInv'
<1>. USE DEF IInv, Secondary
<1>1. /\ pc[h] = "entry" /\ pc'[h] = "relocating" /\ h # BootHart /\ BootHart \in Hart
      /\ \A g \in Hart : g # h => pc'[g] = pc[g]
      /\ mhart_id'[tp[h]] = h /\ \A j \in Hart : j # tp[h] => mhart_id'[j] = mhart_id[j]
      /\ satp'[h] = "relocate" /\ \A g \in Hart : g # h => satp'[g] = satp[g]
      /\ UNCHANGED <<hartid, cpuid, saved_booted_cnt, booted_count, halt_specific_init, tp, sp,
                    tmp, poisoned, platform>>
  BY Harts DEF secondarycpu_entry, TypeOK, Goto, bootVars, flagVars, regVars
<1>2. TypeOK'
  BY <1>1, NCPUAssumption DEF Hart, secondarycpu_entry, TypeOK, Goto, bootVars, flagVars,
     regVars, BootPC, SecondaryPC
<1>3. BootHartInv'
  BY <1>1, Harts, Counters DEF BootHartInv, NumberInv, BootPC
<1>4. LoopInv'
  BY <1>1, Harts, Counters DEF LoopInv, BootHartInv, BootPC
<1>5. OrderInv'
  BY <1>1, Harts, Counters DEF OrderInv, LoopInv, BootHartInv, Starting, SecondaryPC, BootPC
<1>6. CountInv'
  BY <1>1, Harts, Counters DEF CountInv, OrderInv, LoopInv, Starting, BootPC
<1>7. RegInv'
  BY <1>1, Harts, Counters DEF RegInv, BootPC
<1>8. NumberInv'
  BY <1>1, Harts, Counters DEF NumberInv, OrderInv, LoopInv, BootPC
<1>9. PhaseInv'
  BY <1>1, Harts, Counters DEF PhaseInv, OrderInv, Starting, BootHartInv, BootPC
<1>. QED BY <1>2, <1>3, <1>4, <1>5, <1>6, <1>7, <1>8, <1>9

\* A hart takes the page table of the kernel.
LEMMA SecondarycpuRelocatingKeeps ==
    ASSUME IInv, NEW h \in Secondary, secondarycpu_relocating(h)
    PROVE  IInv'
<1>. USE DEF IInv, Secondary
<1>1. /\ pc[h] = "relocating" /\ pc'[h] = "init" /\ h # BootHart /\ BootHart \in Hart
      /\ \A g \in Hart : g # h => pc'[g] = pc[g]
      /\ satp'[h] = "kernel" /\ \A g \in Hart : g # h => satp'[g] = satp[g]
      /\ UNCHANGED <<hartid, cpuid, saved_booted_cnt, booted_count, halt_specific_init, tp, sp,
                    tmp, mhart_id, poisoned, platform>>
  BY Harts DEF secondarycpu_relocating, TypeOK, Goto, bootVars, flagVars, regVars
<1>2. TypeOK'
  BY <1>1, NCPUAssumption DEF Hart, secondarycpu_relocating, TypeOK, Goto, bootVars, flagVars,
     regVars, BootPC, SecondaryPC
<1>3. BootHartInv'
  BY <1>1, Harts, Counters DEF BootHartInv, BootPC
<1>4. LoopInv'
  BY <1>1, Harts, Counters DEF LoopInv, BootHartInv, BootPC
<1>5. OrderInv'
  BY <1>1, Harts, Counters DEF OrderInv, LoopInv, BootHartInv, Starting, SecondaryPC, BootPC
<1>6. CountInv'
  BY <1>1, Harts, Counters DEF CountInv, OrderInv, LoopInv, Starting, BootPC
<1>7. RegInv'
  BY <1>1, Harts, Counters DEF RegInv, BootPC
<1>8. NumberInv'
  BY <1>1, Harts, Counters DEF NumberInv, OrderInv, LoopInv, BootPC
<1>9. PhaseInv'
  BY <1>1, Harts, Counters DEF PhaseInv, OrderInv, Starting, BootHartInv, BootPC
<1>. QED BY <1>2, <1>3, <1>4, <1>5, <1>6, <1>7, <1>8, <1>9

\* A hart moves to its own stack.
LEMMA LeaveBootStackKeeps ==
    ASSUME IInv, NEW h \in Secondary, leave_boot_stack(h)
    PROVE  IInv'
<1>. USE DEF IInv, Secondary
<1>1. /\ pc[h] = "init" /\ pc'[h] = "booted" /\ h # BootHart /\ BootHart \in Hart
      /\ \A g \in Hart : g # h => pc'[g] = pc[g]
      /\ sp'[h] = "sched" /\ \A g \in Hart : g # h => sp'[g] = sp[g]
      /\ UNCHANGED <<hartid, cpuid, saved_booted_cnt, booted_count, halt_specific_init, tp,
                    satp, tlb, tmp, mhart_id, poisoned, platform>>
  BY Harts DEF leave_boot_stack, TypeOK, Goto, bootVars, flagVars, regVars
<1>2. TypeOK'
  BY <1>1, NCPUAssumption DEF Hart, leave_boot_stack, TypeOK, Goto, bootVars, flagVars, regVars,
     BootPC, SecondaryPC
<1>3. BootHartInv'
  BY <1>1, Harts, Counters DEF BootHartInv, BootPC
<1>4. LoopInv'
  BY <1>1, Harts, Counters DEF LoopInv, BootHartInv, BootPC
<1>5. OrderInv'
  BY <1>1, Harts, Counters DEF OrderInv, LoopInv, BootHartInv, Starting, SecondaryPC, BootPC
<1>6. CountInv'
  BY <1>1, Harts, Counters DEF CountInv, OrderInv, LoopInv, Starting, BootPC
<1>7. RegInv'
  BY <1>1, Harts, Counters DEF RegInv, BootPC
<1>8. NumberInv'
  BY <1>1, Harts, Counters DEF NumberInv, OrderInv, LoopInv, BootPC
<1>9. PhaseInv'
  BY <1>1, Harts, Counters DEF PhaseInv, OrderInv, Starting, BootHartInv, BootPC
<1>. QED BY <1>2, <1>3, <1>4, <1>5, <1>6, <1>7, <1>8, <1>9

\* The load of booted_count++.
LEMMA BootedLoadKeeps ==
    ASSUME IInv, NEW h \in Secondary, booted_load(h)
    PROVE  IInv'
<1>. USE DEF IInv, Secondary
<1>1. /\ pc[h] = "booted" /\ pc'[h] = "count" /\ h # BootHart /\ BootHart \in Hart
      /\ \A g \in Hart : g # h => pc'[g] = pc[g]
      /\ tmp'[h] = booted_count /\ \A g \in Hart : g # h => tmp'[g] = tmp[g]
      /\ UNCHANGED <<hartid, cpuid, saved_booted_cnt, booted_count, halt_specific_init, tp, sp,
                    satp, tlb, mhart_id, poisoned, platform>>
  BY Harts DEF booted_load, TypeOK, Goto, bootVars, flagVars, regVars
<1>2. TypeOK'
  BY <1>1, NCPUAssumption DEF Hart, booted_load, TypeOK, Goto, bootVars, flagVars, regVars,
     BootPC, SecondaryPC
<1>3. BootHartInv'
  BY <1>1, Harts, Counters DEF BootHartInv, BootPC
<1>4. LoopInv'
  BY <1>1, Harts, Counters DEF LoopInv, BootHartInv, BootPC
<1>5. OrderInv'
  BY <1>1, Harts, Counters DEF OrderInv, LoopInv, BootHartInv, Starting, SecondaryPC, BootPC
<1>6. CountInv'
  BY <1>1, Harts, Counters DEF CountInv, OrderInv, LoopInv, Starting, BootPC
<1>7. RegInv'
  BY <1>1, Harts, Counters DEF RegInv, BootPC
<1>8. NumberInv'
  BY <1>1, Harts, Counters DEF NumberInv, OrderInv, LoopInv, BootPC
<1>9. PhaseInv'
  BY <1>1, Harts, Counters DEF PhaseInv, OrderInv, Starting, BootHartInv, BootPC
<1>. QED BY <1>2, <1>3, <1>4, <1>5, <1>6, <1>7, <1>8, <1>9

\* The store of booted_count++.
LEMMA BootedStoreKeeps ==
    ASSUME IInv, NEW h \in Secondary, booted_store(h)
    PROVE  IInv'
<1>. USE DEF IInv, Secondary
<1>1. /\ pc[h] = "count" /\ pc'[h] = "halt_init" /\ h # BootHart /\ BootHart \in Hart
      /\ \A g \in Hart : g # h => pc'[g] = pc[g]
      /\ booted_count' = tmp[h] + 1
      /\ UNCHANGED <<hartid, cpuid, saved_booted_cnt, halt_specific_init, tp, sp, satp, tlb, tmp,
                    mhart_id, poisoned, platform>>
  BY Harts DEF booted_store, TypeOK, Goto, bootVars, flagVars, regVars
<1>2. TypeOK'
  <2>1. pc' \in [Hart -> BootPC \cup SecondaryPC]
    BY DEF booted_store, TypeOK, Goto, BootPC, SecondaryPC
  <2>2. /\ hartid' \in 0 .. NCPU /\ cpuid' \in 1 .. NCPU
        /\ saved_booted_cnt' \in 0 .. NCPU /\ booted_count' \in 0 .. NCPU
    BY <1>1, Harts, NCPUAssumption DEF TypeOK, CountInv, OrderInv, LoopInv, Starting
  <2>. QED BY <1>1, <2>1, <2>2 DEF TypeOK
<1>3. BootHartInv'
  BY <1>1, Harts, Counters DEF BootHartInv, BootPC
<1>4. LoopInv'
  BY <1>1, Harts, Counters DEF LoopInv, BootHartInv, BootPC
<1>5. OrderInv'
  BY <1>1, Harts, Counters DEF OrderInv, LoopInv, BootHartInv, Starting, SecondaryPC, BootPC
<1>6. CountInv'
  BY <1>1, Harts, Counters DEF CountInv, OrderInv, LoopInv, Starting, BootPC
<1>7. RegInv'
  BY <1>1, Harts, Counters DEF RegInv, BootPC
<1>8. NumberInv'
  BY <1>1, Harts, Counters DEF NumberInv, OrderInv, LoopInv, BootPC
<1>9. PhaseInv'
  BY <1>1, Harts, Counters DEF PhaseInv, OrderInv, Starting, BootHartInv, BootPC
<1>. QED BY <1>2, <1>3, <1>4, <1>5, <1>6, <1>7, <1>8, <1>9

\* A hart sees the flag.
LEMMA HaltInitKeeps ==
    ASSUME IInv, NEW h \in Secondary, halt_init(h)
    PROVE  IInv'
<1>. USE DEF IInv, Secondary
<1>1. /\ pc[h] = "halt_init" /\ pc'[h] = "scheduler" /\ h # BootHart /\ BootHart \in Hart
      /\ \A g \in Hart : g # h => pc'[g] = pc[g]
      /\ halt_specific_init
      /\ UNCHANGED <<hartid, cpuid, saved_booted_cnt, booted_count, halt_specific_init, tp, sp,
                    satp, tlb, tmp, mhart_id, poisoned, platform>>
  BY Harts DEF halt_init, TypeOK, Goto, bootVars, flagVars, regVars
<1>2. TypeOK'
  BY <1>1, NCPUAssumption DEF Hart, halt_init, TypeOK, Goto, bootVars, flagVars, regVars,
     BootPC, SecondaryPC
<1>3. BootHartInv'
  BY <1>1, Harts, Counters DEF BootHartInv, BootPC
<1>4. LoopInv'
  BY <1>1, Harts, Counters DEF LoopInv, BootHartInv, BootPC
<1>5. OrderInv'
  BY <1>1, Harts, Counters DEF OrderInv, LoopInv, BootHartInv, Starting, SecondaryPC, BootPC
<1>6. CountInv'
  BY <1>1, Harts, Counters DEF CountInv, OrderInv, LoopInv, Starting, BootPC
<1>7. RegInv'
  BY <1>1, Harts, Counters DEF RegInv, BootPC
<1>8. NumberInv'
  BY <1>1, Harts, Counters DEF NumberInv, OrderInv, LoopInv, BootPC
<1>9. PhaseInv'
  BY <1>1, Harts, Counters DEF PhaseInv, OrderInv, Starting, BootHartInv, BootPC
<1>. QED BY <1>2, <1>3, <1>4, <1>5, <1>6, <1>7, <1>8, <1>9
\* The first state.
LEMMA InitIInv == Init => IInv
<1>. SUFFICES ASSUME Init PROVE IInv
  OBVIOUS
<1>1. TypeOK
  <2>1. 0 \in Hart /\ BootHart \in Hart /\ 0 \in 0 .. NCPU /\ 1 \in 1 .. NCPU
    BY NCPUAssumption DEF Hart
  <2>. QED BY <2>1 DEF Init, TypeOK, BootPC, SecondaryPC
<1>2. BootHartInv /\ RegInv /\ PhaseInv
  BY Harts, NCPUAssumption DEF Init, BootHartInv, RegInv, PhaseInv, Hart, Secondary, BootPC
<1>3. LoopInv /\ CountInv
  BY Harts DEF Init, LoopInv, CountInv, Secondary
<1>4. OrderInv /\ NumberInv
  BY Harts DEF Init, OrderInv, NumberInv, Starting, Secondary, SecondaryPC
<1>. QED BY <1>1, <1>2, <1>3, <1>4 DEF IInv

\* Every step keeps the invariant.
LEMMA NextIInv == IInv /\ [Next]_vars => IInv'
<1>. SUFFICES ASSUME IInv, [Next]_vars PROVE IInv'
  OBVIOUS
<1>1. CASE next_hart
  BY <1>1, NextHartKeeps
<1>2. CASE hart_start
  BY <1>2, HartStartedKeeps, HartRefusedKeeps
<1>3. CASE wait_online
  BY <1>3, WaitOnlineKeeps
<1>4. CASE poison
  BY <1>4, PoisonKeeps
<1>5. CASE platform_init
  BY <1>5, PlatformInitKeeps
<1>6. CASE go
  BY <1>6, GoKeeps
<1>7. ASSUME NEW h \in Secondary, SecondaryCpu(h)
      PROVE  IInv'
  BY <1>7, SecondarycpuEntryKeeps, SecondarycpuRelocatingKeeps, LeaveBootStackKeeps,
     BootedLoadKeeps, BootedStoreKeeps, HaltInitKeeps DEF SecondaryCpu
<1>8. CASE UNCHANGED vars
  BY <1>8 DEF vars, bootVars, flagVars, regVars, IInv, TypeOK, BootHartInv, LoopInv, OrderInv,
     CountInv, RegInv, NumberInv, PhaseInv, Starting
<1>. QED BY <1>1, <1>2, <1>3, <1>4, <1>5, <1>6, <1>7, <1>8 DEF Next, BootCpu

\* IInv holds throughout boot.
LEMMA Inductive == Spec => []IInv
  BY InitIInv, NextIInv, PTL DEF Spec

\* Every variable of the boot model keeps its type: harts and cpuids stay below NCPU
\* whichever harts the SBI refuses.
THEOREM BootTypeCorrect == Spec => []TypeOK
<1>1. IInv => TypeOK
  BY DEF IInv
<1>. QED BY <1>1, Inductive, PTL

\* Two harts are never on the one boot stack of entry.S, for any number of harts.
THEOREM BootStackIsExclusive == Spec => []BootStackExclusive
<1>1. IInv => BootStackExclusive
  BY DEF IInv, BootStackExclusive, BootHartInv, OrderInv, RegInv, Starting, Secondary
<1>. QED BY <1>1, Inductive, PTL

\* The memset of the temporary page table in bootcpu_init finds it in no hart's satp, nor
\* a hart that will still load it there.  (What a hart may have cached of it, satp does not
\* say: TableInUseIntact fails.)
THEOREM SatpIsIntact == Spec => []SatpIntact
<1>1. IInv => SatpIntact
  BY DEF IInv, SatpIntact, BootHartInv, OrderInv, RegInv, PhaseInv, Starting, Secondary,
     BootPC
<1>. QED BY <1>1, Inductive, PTL

\* No hart enters scheduler() before the boot hart has initialised the platform.
THEOREM PlatformFirst == Spec => []InitBeforeSchedule
<1>1. IInv => InitBeforeSchedule
  BY DEF IInv, InitBeforeSchedule, BootHartInv, PhaseInv, Secondary
<1>. QED BY <1>1, Inductive, PTL

\* The harts that are up have different struct cpu, and each records its own hart id.
THEOREM CpusAreOwn == Spec => []OwnCpu
<1>1. IInv => OwnCpu
  <2>. SUFFICES ASSUME IInv, NEW g \in Hart, NEW h \in Hart,
                       pc[g] \notin {"off", "entry"}, pc[h] \notin {"off", "entry"}
                PROVE  mhart_id[tp[h]] = h /\ (g # h => tp[g] # tp[h])
    BY DEF OwnCpu
  <2>1. mhart_id[tp[h]] = h
    BY DEF IInv, BootHartInv, NumberInv, Secondary
  <2>2. \A f \in Secondary : pc[f] # "off" => tp[f] # tp[BootHart]
    BY Harts, Counters DEF IInv, BootHartInv, NumberInv, Secondary
  <2>3. g # h => tp[g] # tp[h]
    BY <2>2 DEF IInv, NumberInv, Secondary
  <2>. QED BY <2>1, <2>3
<1>. QED BY <1>1, Inductive, PTL

\* The boot together with the page tables that the boot hart builds meanwhile is a boot as
\* described by Boot.tla: building tables, and the calls of kvmmap between the steps of
\* bootcpu_init, take nothing away from the handshake of the harts.
THEOREM BootMapIsBoot == BootMapSpec => Spec
<1>1. BootMapInit => Init
  BY DEF BootMapInit
<1>2. [BootMapNext]_allVars => [Next]_vars
  <2>1. BuildTables => UNCHANGED vars
    BY DEF BuildTables
  <2>2. RunHarts => Next
    BY DEF RunHarts
  <2>3. UNCHANGED allVars => UNCHANGED vars
    BY DEF allVars
  <2>. QED BY <2>1, <2>2, <2>3 DEF BootMapNext
<1>. QED BY <1>1, <1>2, PTL DEF BootMapSpec, Spec

\* So what is proved of the harts holds of that boot, of any image and any memory: one hart
\* on the boot stack, no satp with a table that memset has destroyed, one struct cpu each.
THEOREM BootMapHarts == BootMapSpec => [](BootStackExclusive /\ SatpIntact /\ OwnCpu)
BY BootMapIsBoot, BootStackIsExclusive, SatpIsIntact, CpusAreOwn, PTL
-----------------------------------------------------------------------------
\* The page tables that the boot hart builds, for any image and any memory.  The invariant
\* says how far kvmmake is and where each call of kvmmap has put its pages; tables only grow,
\* except that the temporary ones go, so what has been mapped stays mapped.

Base == K!kernel_pagetable
Calls == K!kvmmake_calls

\* In the tables t, va leads to pa, through tables of the kernel: those from page base on.
Leads(base, t, va, pa, perm) ==
    /\ base \in DOMAIN t /\ K!PX2(va) \in DOMAIN t[base]
    /\ LET l1 == t[base][K!PX2(va)].pa IN
       /\ l1 \in DOMAIN t /\ base <= l1 /\ K!PX1(va) \in DOMAIN t[l1]
       /\ LET e == t[l1][K!PX1(va)] IN
          \/ perm # {} /\ e = K!Entry(pa - K!PX0(va), perm)
          \/ /\ e.perm = {} /\ e.pa \in DOMAIN t /\ base <= e.pa
             /\ K!PX0(va) \in DOMAIN t[e.pa] /\ t[e.pa][K!PX0(va)] = K!Entry(pa, perm)

\* The tables u contain those of t.
Grows(base, t, u) ==
    \A pg \in DOMAIN t : base <= pg =>
        /\ pg \in DOMAIN u
        /\ \A i \in DOMAIN t[pg] : i \in DOMAIN u[pg] /\ u[pg][i] = t[pg][i]

\* Entries without permissions lead to tables of the kernel.
Closed(base, t) ==
    \A pg \in DOMAIN t : base <= pg => \A i \in DOMAIN t[pg] :
        t[pg][i].perm = {} => t[pg][i].pa \in DOMAIN t /\ base <= t[pg][i].pa

PagesInv ==
    /\ kpc \in {"start", "calls", "kvmmap", "done", "ready", "panic"}
    /\ image \in Layouts
    /\ setup \in Nat /\ taken \in Nat /\ kalloc_inited \in BOOLEAN
    /\ \A pg \in DOMAIN table : pg \in Int /\ pg < K!NewPage

\* How far the boot hart is.
StageInv ==
    /\ kpc = "start" => table = K!Empty
    /\ Base \notin DOMAIN table => setup = 0 /\ taken = 0 /\ todo = <<>> /\ kpc \in {"start", "calls"}
    /\ kpc = "ready" => kalloc_inited
    /\ kalloc_inited \/ pc[BootHart] \in {"platform", "go", "scheduler"} => poisoned
    /\ poisoned => kpc = "done" \/ kalloc_inited

\* The temporary tables, as long as they are needed.
Image2M == (K!kernel_image_end_2M - K!KERNEL_PHYS_BASE) \div K!E2M
TemporaryInv ==
    kpc # "start" /\ ~poisoned =>
        /\ Temporary \subseteq DOMAIN table
        /\ \A va \in {K!KERNEL_PHYS_BASE, K!KERNEL_VIRT_BASE} :
              K!PX2(va) \in DOMAIN table[K!relocate_pagetable]
        /\ table[K!relocate_pagetable][K!PX2(K!KERNEL_PHYS_BASE)] = K!Entry(K!level1_ident, {})
        /\ table[K!relocate_pagetable][K!PX2(K!KERNEL_VIRT_BASE)] = K!Entry(K!level1_high, {})
        /\ table[K!level1_ident] = K!Huge(K!PX1(K!KERNEL_PHYS_BASE), K!KERNEL_PHYS_BASE, Image2M)
        /\ table[K!level1_high] = K!Huge(K!PX1(K!KERNEL_VIRT_BASE), K!KERNEL_PHYS_BASE, Image2M)

\* The first count of the calls of kvmmap have been made, the last of them but for left of
\* its pages: f is where each has its pages; those that were allocated increase.
Placed(base, calls, t, newPage, count, left, f) ==
    \A j \in 1 .. count :
        /\ calls[j].pa # K!Fresh => f[j] = calls[j].pa
        /\ calls[j].pa = K!Fresh =>
             f[j] < newPage /\ \A k \in 1 .. j - 1 : calls[k].pa = K!Fresh => f[k] < f[j]
        /\ \A o \in 0 .. calls[j].sz - 1 :
             j < count \/ o < calls[j].sz - left =>
                 Leads(base, t, calls[j].va + o, f[j] + o, calls[j].perm)

\* kvmmap is in the middle of the last of these calls.
InCall(count, f) ==
    LET c == Calls[count]
        d == c.sz - map.sz IN
    /\ count >= 1 /\ map.sz \in Int
    /\ map = K!Region(c.va + d, f[count] + d, map.sz, c.perm)

Building == kpc \in {"calls", "kvmmap"} /\ ~kalloc_inited /\ Base \in DOMAIN table
BuildInv ==
    Building =>
        /\ Closed(Base, table)
        /\ \E count \in 0 .. Len(Calls) :
             /\ todo = [k \in 1 .. Len(Calls) - count |-> Calls[count + k]]
             /\ \E f \in [1 .. count -> Int] :
                  /\ Placed(Base, Calls, table, K!NewPage, count, IF kpc = "kvmmap" THEN map.sz ELSE 0, f)
                  /\ kpc = "kvmmap" => InCall(count, f)

BuiltInv ==
    KernelTableBuilt =>
        /\ Base \in DOMAIN table
        /\ \E f \in [1 .. Len(Calls) -> Int] : Placed(Base, Calls, table, K!NewPage, Len(Calls), 0, f)

MapInv == PagesInv /\ StageInv /\ TemporaryInv /\ BuildInv /\ BuiltInv
-----------------------------------------------------------------------------
\* A table has 512 entries, and a large page as many pages.
LEMMA Sizes == K!E2M = 512 /\ K!E1G = 262144
  BY DEF K!E2M, K!E1G

\* The parts of an address.
LEMMA Indices ==
    ASSUME NEW va \in Int
    PROVE  /\ K!PX2(va) \in Int /\ K!PX1(va) \in 0 .. 511 /\ K!PX0(va) \in 0 .. 511
           /\ va = K!PX2(va) * 262144 + K!PX1(va) * 512 + K!PX0(va)
  BY Sizes, SMTT(30) DEF K!PX2, K!PX1, K!PX0

\* Behind an address that begins a large page.
LEMMA LargePage ==
    ASSUME NEW va \in Int, va % 512 = 0, NEW o \in 0 .. 511
    PROVE  K!PX2(va + o) = K!PX2(va) /\ K!PX1(va + o) = K!PX1(va) /\ K!PX0(va + o) = o
  BY Sizes, SMTT(30) DEF K!PX2, K!PX1, K!PX0

\* The addresses of the image, as numbers.
LEMMA ImageSize ==
    ASSUME PagesInv
    PROVE  LET size == image.text + 1 + image.rodata + image.data IN
           /\ image.text \in Nat \ {0} /\ image.rodata \in Nat /\ image.data \in Nat \ {0}
           /\ size <= 261632
           /\ K!s_text = 133693952 /\ K!trampoline = K!s_text + image.text
           /\ K!s_data = K!trampoline + 1 + image.rodata /\ K!e_bss = K!s_text + size
           /\ K!KERNEL_PHYS_BASE = 524800 /\ K!KERNEL_OFFSET = 133169152
           /\ K!relocate_pagetable = 524796 + size
           /\ Base = 524800 + 512 * Image2M /\ Image2M \in 1 .. 511 /\ size <= 512 * Image2M
<1>1. /\ image.text \in Nat \ {0} /\ image.rodata \in Nat /\ image.data \in Nat \ {0}
      /\ image.text + 1 + image.rodata + image.data <= 261632
  BY LayoutAssumption DEF PagesInv
<1>2. /\ K!KERNEL_PHYS_BASE = 524800 /\ K!KERNEL_OFFSET = 133169152 /\ K!KERNEL_VIRT_BASE = 133693952
  BY Sizes DEF K!KERNEL_PHYS_BASE, K!KERNEL_VIRT_BASE, K!RISCV_DDR_BASE, K!KERNEL_OFFSET
<1>3. /\ K!s_text = 133693952 /\ K!trampoline = K!s_text + image.text
      /\ K!s_data = K!trampoline + 1 + image.rodata
      /\ K!e_bss = K!s_text + (image.text + 1 + image.rodata + image.data)
  BY <1>1, <1>2 DEF K!e_bss, K!s_data, K!s_rodata, K!trampoline, K!s_text
<1>4. K!relocate_pagetable = 524796 + (image.text + 1 + image.rodata + image.data)
  BY <1>1, <1>2, <1>3 DEF K!relocate_pagetable, K!KIVA_TO_PA
<1>5. PICK size \in Int : size = image.text + 1 + image.rodata + image.data
  BY <1>1
<1>6. Base = 524800 + ((size + 511) \div 512) * 512
  BY Sizes, <1>1, <1>2, <1>3, <1>5 DEF Base, K!kernel_pagetable, K!init_page_allocator_base,
     K!kernel_image_end_2M, K!ROUNDUP_2N
<1>7. PICK q \in Int : q = (size + 511) \div 512
  BY <1>5
<1>8. Image2M = q
  BY Sizes, <1>2, <1>6, <1>7 DEF Base, K!kernel_pagetable, K!init_page_allocator_base, Image2M
<1>9. q \in 1 .. 511 /\ size <= 512 * q
  BY <1>1, <1>5, <1>7, SMTT(30)
<1>10. Base = 524800 + 512 * Image2M
  BY <1>6, <1>7, <1>8
<1>11. Image2M \in 1 .. 511 /\ image.text + 1 + image.rodata + image.data <= 512 * Image2M
  BY <1>5, <1>8, <1>9
<1>. QED BY <1>1, <1>2, <1>3, <1>4, <1>10, <1>11

\* The pages that are allocated begin behind the temporary tables.
LEMMA Pages ==
    ASSUME PagesInv
    PROVE  /\ Base \in Int /\ K!NewPage = Base + setup + taken /\ K!NewPage \in Int /\ Base <= K!NewPage
           /\ K!NewPage \notin DOMAIN table /\ K!NewPage + 1 \notin DOMAIN table
           /\ K!relocate_pagetable \in Int
           /\ K!level1_ident = K!relocate_pagetable + 1 /\ K!level1_direct_mapping = K!relocate_pagetable + 2
           /\ K!level1_high = K!relocate_pagetable + 3 /\ K!level1_high < Base
           /\ \A pg \in Temporary : pg \in Int /\ pg < Base
<1>1. PICK size \in Int : size = image.text + 1 + image.rodata + image.data
  BY ImageSize
<1>2. /\ Base = 524800 + 512 * Image2M /\ Image2M \in 1 .. 511 /\ size <= 512 * Image2M
      /\ K!relocate_pagetable = 524796 + size
  BY <1>1, ImageSize
<1>3. Base \in Int /\ K!relocate_pagetable \in Int /\ K!relocate_pagetable + 3 < Base
  BY <1>1, <1>2
<1>4. /\ K!level1_ident = K!relocate_pagetable + 1 /\ K!level1_direct_mapping = K!relocate_pagetable + 2
      /\ K!level1_high = K!relocate_pagetable + 3
  BY DEF K!level1_ident, K!level1_direct_mapping, K!level1_high
<1>5. K!NewPage = Base + setup + taken
  BY SMTT(30) DEF K!NewPage, Base, K!kernel_pagetable
<1>6. /\ K!NewPage \in Int /\ Base <= K!NewPage
      /\ K!NewPage \notin DOMAIN table /\ K!NewPage + 1 \notin DOMAIN table
  BY <1>3, <1>5, SMTT(30) DEF PagesInv
<1>. QED BY <1>3, <1>4, <1>5, <1>6 DEF Temporary

\* What leads to a page in some tables does so in all that contain them.
LEMMA LeadsOn ==
    ASSUME NEW base \in Int, NEW t, NEW u, Grows(base, t, u), NEW va, NEW pa, NEW perm, Leads(base, t, va, pa, perm)
    PROVE  Leads(base, u, va, pa, perm)
  BY DEF Leads, Grows

\* And the hardware finds that page.
LEMMA LeadsTranslates ==
    ASSUME NEW va \in Int, NEW pa \in Int, NEW perm, Leads(Base, table, va, pa, perm)
    PROVE  K!Translate(Base, va) = K!Entry(pa, perm)
  BY Indices DEF Leads, K!Translate, K!Entry, K!NoMap

\* All of t is in u, below Base too.
Contains(t, u) ==
    \A pg \in DOMAIN t :
        /\ pg \in DOMAIN u
        /\ \A i \in DOMAIN t[pg] : i \in DOMAIN u[pg] /\ u[pg][i] = t[pg][i]

\* Tables that contain others have grown from them.
LEMMA ContainsGrows ==
    ASSUME NEW base, NEW t, NEW u, Contains(t, u) PROVE Grows(base, t, u)
  BY DEF Contains, Grows

\* Tables that contain tables that contain others contain these.
LEMMA ContainsTwice ==
    ASSUME NEW t, NEW u, NEW v, Contains(t, u), Contains(u, v) PROVE Contains(t, v)
  BY DEF Contains

\* Entry e at index i of table pg.
Put(t, pg, i, e) == [t EXCEPT ![pg] = K!With(@, i, e)]

\* A new entry.
LEMMA PutEntry ==
    ASSUME NEW t, NEW pg, NEW i, NEW e, i \notin DOMAIN t[pg]
    PROVE  /\ DOMAIN Put(t, pg, i, e) = DOMAIN t
           /\ Contains(t, Put(t, pg, i, e))
           /\ \A x \in DOMAIN t \ {pg} : Put(t, pg, i, e)[x] = t[x]
           /\ pg \in DOMAIN t => /\ DOMAIN Put(t, pg, i, e)[pg] = DOMAIN t[pg] \cup {i}
                                 /\ Put(t, pg, i, e)[pg][i] = e
  BY DEF Put, Contains, K!With

\* A table below another, found or new.
LEMMA BelowTable ==
    ASSUME NEW t, NEW pg, NEW index, NEW new, new \notin DOMAIN t
    PROVE  LET r == K!Below(t, pg, index, new) IN
           /\ Contains(t, r.t)
           /\ \/ r.n = 0 /\ r.t = t /\ index \in DOMAIN t[pg] /\ r.pg = t[pg][index].pa
              \/ /\ r.n = 1 /\ r.pg = new /\ index \notin DOMAIN t[pg] /\ DOMAIN r.t = DOMAIN t \cup {new}
                 /\ r.t[new] = K!Empty
                 /\ pg \in DOMAIN t => r.t[pg][index] = K!Entry(new, {}) /\ DOMAIN r.t[pg] = DOMAIN t[pg] \cup {index}
                 /\ \A x \in DOMAIN t \ {pg} : r.t[x] = t[x]
<1>1. CASE index \in DOMAIN t[pg]
  BY <1>1 DEF K!Below, Contains
<1>2. CASE index \notin DOMAIN t[pg]
  <2> DEFINE u == Put(t, pg, index, K!Entry(new, {}))
             v == K!With(u, new, K!Empty)
  <2>1. /\ DOMAIN u = DOMAIN t /\ Contains(t, u) /\ \A x \in DOMAIN t \ {pg} : u[x] = t[x]
        /\ pg \in DOMAIN t => DOMAIN u[pg] = DOMAIN t[pg] \cup {index} /\ u[pg][index] = K!Entry(new, {})
    BY <1>2, PutEntry
  <2>2. K!Below(t, pg, index, new) = [t |-> v, pg |-> new, n |-> 1]
    BY <1>2 DEF K!Below, Put
  <2> HIDE DEF u
  <2>3. DOMAIN v = DOMAIN u \cup {new} /\ v[new] = K!Empty /\ \A x \in DOMAIN u : v[x] = u[x]
    BY <2>1 DEF K!With
  <2> HIDE DEF v
  <2>4. Contains(t, v)
    BY <2>1, <2>3 DEF Contains
  <2>. QED BY <1>2, <2>1, <2>2, <2>3, <2>4
<1>. QED BY <1>1, <1>2

\* What kvmmap goes through: the table of level 1, the one of level 0, and whether the rest
\* of the region takes a large page.
L1 == K!Below(table, K!kernel_pagetable, K!PX2(map.va), K!NewPage)
L0 == K!Below(L1.t, L1.pg, K!PX1(map.va), K!NewPage + L1.n)
Large ==
    K!PX1(map.va) \notin DOMAIN L1.t[L1.pg] /\ map.va % K!E2M = 0 /\ map.pa % K!E2M = 0 /\ map.sz >= K!E2M
Step == IF Large THEN K!E2M ELSE 1
Taken == IF Large THEN L1.n ELSE L1.n + L0.n
Refused ==
    \/ K!IsLeaf(table, K!kernel_pagetable, K!PX2(map.va)) \/ K!IsLeaf(L1.t, L1.pg, K!PX1(map.va))
    \/ (~Large /\ K!PX0(map.va) \in DOMAIN L0.t[L0.pg]) \/ (~kalloc_inited /\ setup + Taken > K!E2M)
Mapped == K!Entry(map.pa, map.perm)

\* kvmmap in these terms.
LEMMA KvmmapNamed ==
    K!kvmmap <=>
        /\ kpc = "kvmmap" /\ map.sz > 0
        /\ IF Refused
           THEN kpc' = "panic" /\ UNCHANGED <<table, setup, taken, map>>
           ELSE /\ table' = IF Large THEN Put(L1.t, L1.pg, K!PX1(map.va), Mapped)
                                     ELSE Put(L0.t, L0.pg, K!PX0(map.va), Mapped)
                /\ K!allockernelpage(Taken)
                /\ map' = [map EXCEPT !.va = @ + Step, !.pa = @ + Step, !.sz = @ - Step]
                /\ UNCHANGED kpc
        /\ UNCHANGED <<image, kalloc_inited, todo>>
  BY Zenon DEF K!kvmmap, L1, L0, Large, Step, Taken, Refused, Mapped, Put

\* An iteration of kvmmap panics, or maps a large page, or maps one page where none is.
LEMMA KvmmapStep ==
    ASSUME K!kvmmap
    PROVE  /\ kpc = "kvmmap" /\ map.sz > 0 /\ UNCHANGED <<image, kalloc_inited, todo>>
           /\ \/ kpc' = "panic" /\ UNCHANGED <<table, setup, taken, map>>
              \/ /\ kpc' = "kvmmap" /\ ~K!IsLeaf(table, Base, K!PX2(map.va)) /\ ~K!IsLeaf(L1.t, L1.pg, K!PX1(map.va))
                 /\ IF Large
                    THEN /\ table' = Put(L1.t, L1.pg, K!PX1(map.va), Mapped)
                         /\ K!allockernelpage(L1.n)
                         /\ map' = [map EXCEPT !.va = @ + 512, !.pa = @ + 512, !.sz = @ - 512]
                    ELSE /\ K!PX0(map.va) \notin DOMAIN L0.t[L0.pg]
                         /\ table' = Put(L0.t, L0.pg, K!PX0(map.va), Mapped)
                         /\ K!allockernelpage(L1.n + L0.n)
                         /\ map' = [map EXCEPT !.va = @ + 1, !.pa = @ + 1, !.sz = @ - 1]
<1>1. CASE Refused
  BY <1>1, KvmmapNamed
<1>2. CASE ~Refused /\ Large
  <2>1. Step = 512 /\ Taken = L1.n
    BY <1>2, Sizes DEF Step, Taken
  <2>2. ~K!IsLeaf(table, Base, K!PX2(map.va)) /\ ~K!IsLeaf(L1.t, L1.pg, K!PX1(map.va))
    BY <1>2 DEF Refused, Base
  <2>. QED BY <1>2, <2>1, <2>2, KvmmapNamed
<1>3. CASE ~Refused /\ ~Large
  <2>1. Step = 1 /\ Taken = L1.n + L0.n
    BY <1>3, Sizes DEF Step, Taken
  <2>2. ~K!IsLeaf(table, Base, K!PX2(map.va)) /\ ~K!IsLeaf(L1.t, L1.pg, K!PX1(map.va))
    BY <1>3 DEF Refused, Base
  <2>3. K!PX0(map.va) \notin DOMAIN L0.t[L0.pg]
    BY <1>3 DEF Refused
  <2>. QED BY <1>3, <2>1, <2>2, <2>3, KvmmapNamed
<1>. QED BY <1>1, <1>2, <1>3

\* The tables that they are.
LEMMA Tables ==
    ASSUME PagesInv
    PROVE  LET i2 == K!PX2(map.va)
               i1 == K!PX1(map.va)
               new == K!NewPage + L1.n IN
           /\ Contains(table, L1.t)
           /\ \/ L1.n = 0 /\ L1.t = table /\ i2 \in DOMAIN table[Base] /\ L1.pg = table[Base][i2].pa
              \/ /\ L1.n = 1 /\ L1.pg = K!NewPage /\ i2 \notin DOMAIN table[Base] /\ DOMAIN L1.t = DOMAIN table \cup {K!NewPage}
                 /\ L1.t[K!NewPage] = K!Empty
                 /\ Base \in DOMAIN table => L1.t[Base][i2] = K!Entry(K!NewPage, {}) /\ DOMAIN L1.t[Base] = DOMAIN table[Base] \cup {i2}
                 /\ \A x \in DOMAIN table \ {Base} : L1.t[x] = table[x]
           /\ \A pg \in DOMAIN L1.t : pg \in Int /\ pg < new
           /\ Contains(L1.t, L0.t)
           /\ \/ L0.n = 0 /\ L0.t = L1.t /\ i1 \in DOMAIN L1.t[L1.pg] /\ L0.pg = L1.t[L1.pg][i1].pa
              \/ /\ L0.n = 1 /\ L0.pg = new /\ i1 \notin DOMAIN L1.t[L1.pg] /\ DOMAIN L0.t = DOMAIN L1.t \cup {new}
                 /\ L0.t[new] = K!Empty
                 /\ L1.pg \in DOMAIN L1.t => L0.t[L1.pg][i1] = K!Entry(new, {}) /\ DOMAIN L0.t[L1.pg] = DOMAIN L1.t[L1.pg] \cup {i1}
                 /\ \A x \in DOMAIN L1.t \ {L1.pg} : L0.t[x] = L1.t[x]
<1> DEFINE i2 == K!PX2(map.va)
           i1 == K!PX1(map.va)
           new == K!NewPage + L1.n
<1>1. L1 = K!Below(table, Base, i2, K!NewPage)
  BY DEF L1, Base
<1>2. L0 = K!Below(L1.t, L1.pg, i1, new)
  BY DEF L0
<1>3. K!NewPage \notin DOMAIN table
  BY Pages
<1> HIDE DEF i2, i1, new
<1>4. /\ Contains(table, L1.t)
      /\ \/ L1.n = 0 /\ L1.t = table /\ i2 \in DOMAIN table[Base] /\ L1.pg = table[Base][i2].pa
         \/ /\ L1.n = 1 /\ L1.pg = K!NewPage /\ i2 \notin DOMAIN table[Base] /\ DOMAIN L1.t = DOMAIN table \cup {K!NewPage}
            /\ L1.t[K!NewPage] = K!Empty
            /\ Base \in DOMAIN table => L1.t[Base][i2] = K!Entry(K!NewPage, {}) /\ DOMAIN L1.t[Base] = DOMAIN table[Base] \cup {i2}
            /\ \A x \in DOMAIN table \ {Base} : L1.t[x] = table[x]
  BY <1>1, <1>3, BelowTable
<1>5. \A pg \in DOMAIN L1.t : pg \in Int /\ pg < new
  <2>1. CASE L1.n = 0
    BY <1>4, <2>1, Pages DEF PagesInv, new
  <2>2. CASE L1.n = 1
    BY <1>4, <2>2, Pages DEF PagesInv, new
  <2>. QED BY <1>4, <2>1, <2>2
<1>6. new \notin DOMAIN L1.t
  BY <1>5
<1>7. /\ Contains(L1.t, L0.t)
      /\ \/ L0.n = 0 /\ L0.t = L1.t /\ i1 \in DOMAIN L1.t[L1.pg] /\ L0.pg = L1.t[L1.pg][i1].pa
         \/ /\ L0.n = 1 /\ L0.pg = new /\ i1 \notin DOMAIN L1.t[L1.pg] /\ DOMAIN L0.t = DOMAIN L1.t \cup {new}
            /\ L0.t[new] = K!Empty
            /\ L1.pg \in DOMAIN L1.t => L0.t[L1.pg][i1] = K!Entry(new, {}) /\ DOMAIN L0.t[L1.pg] = DOMAIN L1.t[L1.pg] \cup {i1}
            /\ \A x \in DOMAIN L1.t \ {L1.pg} : L0.t[x] = L1.t[x]
  BY <1>2, <1>6, BelowTable
<1>. QED BY <1>4, <1>5, <1>7 DEF i2, i1, new

\* Where the new pages are.
LEMMA NewPages ==
    ASSUME PagesInv
    PROVE  /\ Contains(table, L1.t) /\ Contains(L1.t, L0.t)
           /\ L1.n \in {0, 1} /\ L0.n \in {0, 1}
           /\ \A pg \in DOMAIN L1.t : pg \in Int /\ pg < K!NewPage + L1.n
           /\ \A pg \in DOMAIN L0.t : pg \in Int /\ pg < K!NewPage + L1.n + L0.n
<1>1. /\ Contains(table, L1.t) /\ Contains(L1.t, L0.t) /\ L1.n \in {0, 1} /\ L0.n \in {0, 1}
      /\ \A pg \in DOMAIN L1.t : pg \in Int /\ pg < K!NewPage + L1.n
      /\ DOMAIN L0.t \subseteq DOMAIN L1.t \cup (IF L0.n = 1 THEN {K!NewPage + L1.n} ELSE {})
  BY Tables
<1>. QED BY <1>1, Pages

\* Base and the calls depend on the image alone.
LEMMA SameImage ==
    ASSUME image' = image
    PROVE  /\ Base' = Base /\ Calls' = Calls /\ Image2M' = Image2M
           /\ Temporary' = Temporary /\ K!relocate_pagetable' = K!relocate_pagetable
           /\ K!level1_ident' = K!level1_ident /\ K!level1_high' = K!level1_high
           /\ K!level1_direct_mapping' = K!level1_direct_mapping
  BY DEF Base, K!kernel_pagetable, K!init_page_allocator_base, K!kernel_image_end_2M, K!e_bss, K!s_data,
     K!s_rodata, K!trampoline, K!s_text, Calls, K!kvmmake_calls, K!stack_pages, Image2M, Temporary,
     K!relocate_pagetable, K!level1_ident, K!level1_high, K!level1_direct_mapping

\* n more pages.
LEMMA PagesTaken ==
    ASSUME PagesInv, UNCHANGED <<image, kalloc_inited>>, NEW n \in 0 .. 2, K!allockernelpage(n)
    PROVE  setup' \in Nat /\ taken' \in Nat /\ K!NewPage' = K!NewPage + n
<1>1. setup' \in Nat /\ taken' \in Nat /\ setup' + taken' = setup + taken + n
  BY DEF PagesInv, K!allockernelpage
<1>2. K!NewPage' = Base' + setup' + taken'
  BY DEF K!NewPage, Base, K!kernel_pagetable
<1>3. Base' = Base /\ Base \in Int /\ K!NewPage = Base + setup + taken /\ setup \in Nat /\ taken \in Nat
  BY SameImage, Pages DEF PagesInv
<1>4. K!NewPage' = Base + (setup' + taken') /\ K!NewPage + n = Base + (setup + taken + n)
  BY <1>1, <1>2, <1>3
<1>. QED BY <1>1, <1>4

\* kvmmap leaves in the tables what is there, and takes its pages from the allocator.
LEMMA KvmmapKeeps ==
    ASSUME PagesInv, K!kvmmap
    PROVE  /\ Contains(table, table') /\ PagesInv' /\ K!NewPage <= K!NewPage'
           /\ kpc' \in {"kvmmap", "panic"} /\ DOMAIN table \subseteq DOMAIN table'
<1>1. CASE kpc' = "panic" /\ UNCHANGED <<table, setup, taken, map>>
  <2>1. UNCHANGED <<image, kalloc_inited>>
    BY KvmmapStep
  <2>2. K!NewPage' = K!NewPage
    BY <1>1, <2>1, SameImage DEF K!NewPage, Base, K!kernel_pagetable
  <2>. QED BY <1>1, <2>1, <2>2, Pages DEF PagesInv, Contains
<1>2. CASE kpc' = "kvmmap" /\ Large /\ ~(kpc' = "panic" /\ UNCHANGED <<table, setup, taken, map>>)
  <2>1. table' = Put(L1.t, L1.pg, K!PX1(map.va), Mapped) /\ K!allockernelpage(L1.n)
    BY <1>2, KvmmapStep
  <2>2. DOMAIN table' = DOMAIN L1.t /\ Contains(L1.t, table')
    BY <1>2, <2>1, PutEntry DEF Large
  <2>3. setup' \in Nat /\ taken' \in Nat /\ K!NewPage' = K!NewPage + L1.n
    BY <2>1, KvmmapStep, NewPages, PagesTaken
  <2>4. Contains(table, table')
    BY <2>2, NewPages, ContainsTwice
  <2>5. PagesInv'
    BY <1>2, <2>2, <2>3, NewPages, KvmmapStep DEF PagesInv
  <2>. QED BY <1>2, <2>3, <2>4, <2>5, NewPages, Pages DEF Contains
<1>3. CASE kpc' = "kvmmap" /\ ~Large /\ ~(kpc' = "panic" /\ UNCHANGED <<table, setup, taken, map>>)
  <2>1. /\ table' = Put(L0.t, L0.pg, K!PX0(map.va), Mapped) /\ K!allockernelpage(L1.n + L0.n)
        /\ K!PX0(map.va) \notin DOMAIN L0.t[L0.pg]
    BY <1>3, KvmmapStep
  <2>2. DOMAIN table' = DOMAIN L0.t /\ Contains(L0.t, table')
    BY <2>1, PutEntry
  <2>3. setup' \in Nat /\ taken' \in Nat /\ K!NewPage' = K!NewPage + L1.n + L0.n
    <3>1. L1.n + L0.n \in 0 .. 2
      BY NewPages
    <3>. QED BY <2>1, <3>1, KvmmapStep, NewPages, PagesTaken, Pages
  <2>4. Contains(table, table')
    BY <2>2, NewPages, ContainsTwice
  <2>5. PagesInv'
    BY <1>3, <2>2, <2>3, NewPages, KvmmapStep DEF PagesInv
  <2>. QED BY <1>3, <2>3, <2>4, <2>5, NewPages, Pages DEF Contains
<1>. QED BY <1>1, <1>2, <1>3, KvmmapStep

\* While the kernel's table is built, tables lead to tables: what kvmmap goes through is
\* the kernel's, and the pages that it maps lead where the region says.
LEMMA KvmmapMaps ==
    ASSUME PagesInv, K!kvmmap, Base \in DOMAIN table, Closed(Base, table), kpc' = "kvmmap",
           map.va \in Int, map.pa \in Int, map.sz \in Int, map.perm # {},
           ~(kpc' = "panic" /\ UNCHANGED <<table, setup, taken, map>>)
    PROVE  /\ Closed(Base, table')
           /\ \A pg \in DOMAIN table : pg < Base => table'[pg] = table[pg]
           /\ \E n \in {1, 512} :
                /\ n <= map.sz
                /\ map' = [map EXCEPT !.va = @ + n, !.pa = @ + n, !.sz = @ - n]
                /\ \A o \in Nat : o < n => Leads(Base, table', map.va + o, map.pa + o, map.perm)
<1> DEFINE i2 == K!PX2(map.va)
           i1 == K!PX1(map.va)
           i0 == K!PX0(map.va)
<1>1. /\ L1.pg \in DOMAIN L1.t /\ Base <= L1.pg
      /\ Base \in DOMAIN L1.t /\ i2 \in DOMAIN L1.t[Base] /\ L1.t[Base][i2].pa = L1.pg
      /\ Closed(Base, L1.t)
      /\ \A pg \in DOMAIN table : pg < Base => L1.t[pg] = table[pg]
  <2>1. CASE L1.n = 0
    <3>1. L1.t = table /\ i2 \in DOMAIN table[Base] /\ L1.pg = table[Base][i2].pa
      BY <2>1, Tables
    <3>2. ~K!IsLeaf(table, Base, i2)
      BY KvmmapStep
    <3>. QED BY <3>1, <3>2, Pages DEF Closed, K!IsLeaf
  <2>2. CASE L1.n = 1
    <3>1. /\ L1.pg = K!NewPage /\ DOMAIN L1.t = DOMAIN table \cup {K!NewPage} /\ L1.t[K!NewPage] = K!Empty
          /\ L1.t[Base][i2] = K!Entry(K!NewPage, {}) /\ DOMAIN L1.t[Base] = DOMAIN table[Base] \cup {i2}
          /\ \A x \in DOMAIN table \ {Base} : L1.t[x] = table[x]
          /\ Contains(table, L1.t)
      BY <2>2, Tables
    <3>2. Closed(Base, L1.t)
      <4>. SUFFICES ASSUME NEW pg \in DOMAIN L1.t, Base <= pg, NEW i \in DOMAIN L1.t[pg], L1.t[pg][i].perm = {}
                    PROVE  L1.t[pg][i].pa \in DOMAIN L1.t /\ Base <= L1.t[pg][i].pa
        BY DEF Closed
      <4>1. CASE pg = K!NewPage
        BY <3>1, <4>1 DEF K!Empty
      <4>2. CASE pg = Base /\ i = i2
        BY <3>1, <4>2, Pages DEF K!Entry
      <4>3. CASE pg \in DOMAIN table /\ i \in DOMAIN table[pg]
        <5>1. L1.t[pg][i] = table[pg][i]
          BY <3>1, <4>3 DEF Contains
        <5>. QED BY <3>1, <4>3, <5>1 DEF Closed
      <4>. QED BY <3>1, <4>1, <4>2, <4>3
    <3>. QED BY <3>1, <3>2, Pages DEF K!Entry
  <2>. QED BY <2>1, <2>2, NewPages
<1>2. ~K!IsLeaf(L1.t, L1.pg, i1)
  BY KvmmapStep
<1>3. CASE Large
  <2>1. /\ table' = Put(L1.t, L1.pg, i1, Mapped) /\ i1 \notin DOMAIN L1.t[L1.pg]
        /\ map' = [map EXCEPT !.va = @ + 512, !.pa = @ + 512, !.sz = @ - 512]
        /\ map.va % 512 = 0 /\ map.pa % 512 = 0 /\ map.sz >= 512
    BY <1>3, KvmmapStep, Sizes DEF Large
  <2>2. /\ DOMAIN table' = DOMAIN L1.t /\ Contains(L1.t, table')
        /\ \A x \in DOMAIN L1.t \ {L1.pg} : table'[x] = L1.t[x]
        /\ DOMAIN table'[L1.pg] = DOMAIN L1.t[L1.pg] \cup {i1} /\ table'[L1.pg][i1] = Mapped
    BY <1>1, <2>1, PutEntry
  <2>3. Closed(Base, table')
    BY <1>1, <2>2, SMTT(30) DEF Closed, Contains, Mapped, K!Entry
  <2>4. ASSUME NEW o \in Nat, o < 512
        PROVE  Leads(Base, table', map.va + o, map.pa + o, map.perm)
    <3>1. K!PX2(map.va + o) = i2 /\ K!PX1(map.va + o) = i1 /\ K!PX0(map.va + o) = o
      <4>1. o \in 0 .. 511
        BY <2>4
      <4>. QED BY <2>1, <4>1, LargePage, ZenonT(40)
    <3>2. K!Entry(map.pa + o - o, map.perm) = Mapped
      BY DEF K!Entry, Mapped
    <3>3. /\ Base \in DOMAIN table' /\ i2 \in DOMAIN table'[Base] /\ table'[Base][i2].pa = L1.pg
      BY <1>1, <2>2 DEF Contains
    <3>4. table'[L1.pg][i1] = K!Entry((map.pa + o) - K!PX0(map.va + o), map.perm)
      BY <2>2, <3>1, <3>2
    <3>5. L1.pg \in DOMAIN table' /\ i1 \in DOMAIN table'[L1.pg]
      BY <1>1, <2>2
    <3>. QED BY <1>1, <3>1, <3>3, <3>4, <3>5 DEF Leads
  <2>5. \A pg \in DOMAIN table : pg < Base => table'[pg] = table[pg]
    <3>1. \A pg \in DOMAIN table : pg \in DOMAIN L1.t /\ pg \in Int
      BY NewPages DEF Contains, PagesInv
    <3>2. ASSUME NEW pg \in DOMAIN table, pg < Base PROVE table'[pg] = table[pg]
      <4>1. pg # L1.pg /\ pg \in DOMAIN L1.t
        BY <1>1, <3>1, <3>2, NewPages, Pages
      <4>. QED BY <1>1, <2>2, <3>2, <4>1
    <3>. QED BY <3>2
  <2>6. \A o \in Nat : o < 512 => Leads(Base, table', map.va + o, map.pa + o, map.perm)
    BY <2>4
  <2>7. \E n \in {512} :
          /\ n <= map.sz
          /\ map' = [map EXCEPT !.va = @ + n, !.pa = @ + n, !.sz = @ - n]
          /\ \A o \in Nat : o < n => Leads(Base, table', map.va + o, map.pa + o, map.perm)
    BY <2>1, <2>6
  <2>. QED BY <2>3, <2>5, <2>7
<1>4. CASE ~Large
  <2>1. /\ table' = Put(L0.t, L0.pg, i0, Mapped) /\ i0 \notin DOMAIN L0.t[L0.pg]
        /\ map' = [map EXCEPT !.va = @ + 1, !.pa = @ + 1, !.sz = @ - 1] /\ map.sz > 0
    BY <1>4, KvmmapStep
  <2>a. K!NewPage + L1.n \notin DOMAIN L1.t
    BY NewPages, Pages
  <2>2. /\ L0.pg \in DOMAIN L0.t /\ Base <= L0.pg
        /\ i1 \in DOMAIN L0.t[L1.pg] /\ L0.t[L1.pg][i1].pa = L0.pg /\ L0.t[L1.pg][i1].perm = {}
        /\ Closed(Base, L0.t)
        /\ \A pg \in DOMAIN L1.t : pg < Base => L0.t[pg] = L1.t[pg]
    <3>1. CASE L0.n = 0
      <4>1. L0.t = L1.t /\ i1 \in DOMAIN L1.t[L1.pg] /\ L0.pg = L1.t[L1.pg][i1].pa
        BY <3>1, Tables
      <4>. QED BY <1>1, <1>2, <4>1 DEF Closed, K!IsLeaf
    <3>2. CASE L0.n = 1
      <4> DEFINE new == K!NewPage + L1.n
      <4>1. /\ L0.pg = new /\ DOMAIN L0.t = DOMAIN L1.t \cup {new} /\ L0.t[new] = K!Empty
            /\ L0.t[L1.pg][i1] = K!Entry(new, {}) /\ DOMAIN L0.t[L1.pg] = DOMAIN L1.t[L1.pg] \cup {i1}
            /\ \A x \in DOMAIN L1.t \ {L1.pg} : L0.t[x] = L1.t[x]
            /\ Contains(L1.t, L0.t)
        BY <1>1, <3>2, Tables
      <4>2. Base <= new
        BY Pages, NewPages
      <4> HIDE DEF new
      <4>3. Closed(Base, L0.t)
        <5>. SUFFICES ASSUME NEW pg \in DOMAIN L0.t, Base <= pg, NEW i \in DOMAIN L0.t[pg], L0.t[pg][i].perm = {}
                      PROVE  L0.t[pg][i].pa \in DOMAIN L0.t /\ Base <= L0.t[pg][i].pa
          BY DEF Closed
        <5>1. CASE pg = new
          BY <4>1, <5>1 DEF K!Empty
        <5>2. CASE pg = L1.pg /\ i = i1
          BY <4>1, <4>2, <5>2 DEF K!Entry
        <5>3. CASE pg \in DOMAIN L1.t /\ i \in DOMAIN L1.t[pg]
          <6>1. L0.t[pg][i] = L1.t[pg][i]
            BY <4>1, <5>3 DEF Contains
          <6>. QED BY <1>1, <4>1, <5>3, <6>1 DEF Closed
        <5>. QED BY <4>1, <5>1, <5>2, <5>3
      <4>. QED BY <1>1, <4>1, <4>2, <4>3, Pages, NewPages DEF K!Entry
    <3>. QED BY <3>1, <3>2, NewPages, SMTT(30)
  <2>3. /\ DOMAIN table' = DOMAIN L0.t /\ Contains(L0.t, table')
        /\ \A x \in DOMAIN L0.t \ {L0.pg} : table'[x] = L0.t[x]
        /\ DOMAIN table'[L0.pg] = DOMAIN L0.t[L0.pg] \cup {i0} /\ table'[L0.pg][i0] = Mapped
    BY <2>1, <2>2, PutEntry
  <2>4. Closed(Base, table')
    BY <2>2, <2>3, SMTT(30) DEF Closed, Contains, Mapped, K!Entry
  <2>5. Leads(Base, table', map.va, map.pa, map.perm)
    <3>1. Contains(L1.t, table')
      BY <2>3, NewPages, ContainsTwice
    <3>2. /\ Base \in DOMAIN table' /\ i2 \in DOMAIN table'[Base] /\ table'[Base][i2].pa = L1.pg
          /\ L1.pg \in DOMAIN table'
      BY <1>1, <3>1 DEF Contains
    <3>3. L1.pg \in DOMAIN L0.t
      BY <1>1, NewPages DEF Contains
    <3>4. i1 \in DOMAIN table'[L1.pg] /\ table'[L1.pg][i1] = L0.t[L1.pg][i1]
      BY <2>2, <2>3, <3>3 DEF Contains
    <3>. QED BY <1>1, <2>2, <2>3, <3>2, <3>4 DEF Leads, Mapped
  <2>6. \A pg \in DOMAIN table : pg < Base => table'[pg] = table[pg]
    <3>1. \A pg \in DOMAIN table : pg \in DOMAIN L1.t /\ pg \in DOMAIN L0.t /\ pg \in Int
      BY NewPages DEF Contains, PagesInv
    <3>. QED BY <1>1, <2>2, <2>3, <3>1, NewPages, Pages
  <2>7. \A o \in Nat : o < 1 => Leads(Base, table', map.va + o, map.pa + o, map.perm)
    <3>. SUFFICES ASSUME NEW o \in Nat, o < 1 PROVE Leads(Base, table', map.va + o, map.pa + o, map.perm)
      OBVIOUS
    <3>1. o = 0 /\ map.va + o = map.va /\ map.pa + o = map.pa
      OBVIOUS
    <3>. QED BY <2>5, <3>1
  <2>8. 1 <= map.sz
    BY <2>1
  <2>9. \E n \in {1} :
          /\ n <= map.sz
          /\ map' = [map EXCEPT !.va = @ + n, !.pa = @ + n, !.sz = @ - n]
          /\ \A o \in Nat : o < n => Leads(Base, table', map.va + o, map.pa + o, map.perm)
    BY <2>1, <2>7, <2>8
  <2>. QED BY <2>4, <2>6, <2>9
<1>. QED BY <1>3, <1>4

\* The elements of two sequences in one.
LEMMA TwoParts ==
    ASSUME NEW S, NEW a \in Seq(S), NEW b \in Seq(S)
    PROVE  /\ a \o b \in Seq(S) /\ Len(a \o b) = Len(a) + Len(b) /\ Len(a) \in Nat /\ Len(b) \in Nat
           /\ \A j \in 1 .. Len(a) : (a \o b)[j] = a[j]
           /\ \A k \in 1 .. Len(b) : (a \o b)[k + Len(a)] = b[k]
  OBVIOUS

\* And of two with one more element behind.
LEMMA ThreeParts ==
    ASSUME NEW S, NEW a \in Seq(S), NEW b \in Seq(S), NEW x \in S
    PROVE  LET c == a \o b \o <<x>> IN
           /\ c \in Seq(S) /\ Len(c) = Len(a) + Len(b) + 1
           /\ \A j \in 1 .. Len(a) : c[j] = a[j]
           /\ \A k \in 1 .. Len(b) : c[k + Len(a)] = b[k]
           /\ c[Len(a) + Len(b) + 1] = x
<1> DEFINE d == a \o b
           y == <<x>>
<1>1. /\ d \in Seq(S) /\ Len(d) = Len(a) + Len(b) /\ Len(a) \in Nat /\ Len(b) \in Nat
      /\ \A j \in 1 .. Len(a) : d[j] = a[j]
      /\ \A k \in 1 .. Len(b) : d[k + Len(a)] = b[k]
  BY TwoParts
<1>2. y \in Seq(S) /\ Len(y) = 1 /\ y[1] = x
  OBVIOUS
<1> HIDE DEF d, y
<1>3. /\ d \o y \in Seq(S) /\ Len(d \o y) = Len(d) + Len(y)
      /\ \A j \in 1 .. Len(d) : (d \o y)[j] = d[j]
      /\ \A k \in 1 .. Len(y) : (d \o y)[k + Len(d)] = y[k]
  <2>1. d \in Seq(S) /\ y \in Seq(S)
    BY <1>1, <1>2
  <2>2. d \o y \in Seq(S) /\ Len(d \o y) = Len(d) + Len(y)
    BY <2>1, TwoParts
  <2>3. \A j \in 1 .. Len(d) : (d \o y)[j] = d[j]
    BY <2>1, TwoParts
  <2>4. \A k \in 1 .. Len(y) : (d \o y)[k + Len(d)] = y[k]
    BY <2>1, TwoParts
  <2>. QED BY <2>2, <2>3, <2>4
<1>4. (d \o y)[Len(a) + Len(b) + 1] = x
  <2>1. (d \o y)[1 + Len(d)] = y[1]
    BY <1>2, <1>3
  <2>2. 1 + Len(d) = Len(a) + Len(b) + 1
    BY <1>1
  <2>. QED BY <1>2, <2>1, <2>2
<1>5. \A j \in 1 .. Len(a) : (d \o y)[j] = a[j]
  <2>1. \A j \in 1 .. Len(a) : j \in 1 .. Len(d)
    BY <1>1
  <2>. QED BY <1>1, <1>3, <2>1
<1>6. \A k \in 1 .. Len(b) : (d \o y)[k + Len(a)] = b[k]
  <2>1. \A k \in 1 .. Len(b) : k + Len(a) \in 1 .. Len(d)
    BY <1>1
  <2>. QED BY <1>1, <1>3, <2>1
<1>7. Len(d \o y) = Len(a) + Len(b) + 1
  BY <1>1, <1>2, <1>3
<1>. QED BY <1>3, <1>4, <1>5, <1>6, <1>7 DEF d, y

\* A call of kvmmap.
CallRegion == [va : Int, pa : Int, sz : Int, perm : SUBSET {"A", "D", "R", "W", "X"}]

\* What the calls of kvmmap ask for: code, data and stacks among them.
LEMMA CallsAre ==
    ASSUME PagesInv
    PROVE  /\ Calls \in Seq(CallRegion) /\ Len(Calls) = 2 * NCPU + 7
           /\ \A j \in 1 .. Len(Calls) : Calls[j].perm # {} /\ (Calls[j].pa = K!Fresh => Calls[j].sz = 1)
           /\ Calls[1] = K!Region(K!s_text, K!KIVA_TO_PA(K!s_text), image.text, K!RX)
           /\ Calls[3] = K!Region(K!s_data, K!KIVA_TO_PA(K!s_data), image.data, K!RW)
           /\ \A k \in 1 .. 2 * NCPU :
                 Calls[k + 6] = K!Region(K!sched_stack((k - 1) \div 2) + ((k - 1) % 2), K!Fresh, 1, K!RW)
<1> DEFINE first == << K!Region(K!s_text, K!KIVA_TO_PA(K!s_text), image.text, K!RX),
                       K!Region(K!s_rodata, K!KIVA_TO_PA(K!s_rodata), image.rodata, {"A", "R"}),
                       K!Region(K!s_data, K!KIVA_TO_PA(K!s_data), image.data, K!RW),
                       K!Region(K!TRAMPOLINE, K!KIVA_TO_PA(K!trampoline), 1, K!RX),
                       K!Region(K!KERNEL_PLIC_BASE, K!PLIC_PHYS, PLIC_SIZE, K!RW),
                       K!Region(K!KERNEL_UART0_BASE, K!UART0_PHYS, 1, K!RW) >>
           stacks == [k \in 1 .. 2 * NCPU |->
                         K!Region(K!sched_stack((k - 1) \div 2) + ((k - 1) % 2), K!Fresh, 1, K!RW)]
           direct == K!Region(K!KERNEL_DIRECT_MAPPING_BASE + K!kernel_image_end_2M, K!kernel_image_end_2M,
                              PHYS_MEM_SIZE - (K!kernel_image_end_2M - K!RISCV_DDR_BASE), K!RW)
<1>1. 2 * NCPU \in Nat /\ NCPU * K!KERNEL_STACK_SIZE = 2 * NCPU
  BY NCPUAssumption DEF K!KERNEL_STACK_SIZE
<1>2. Calls = first \o stacks \o <<direct>>
  BY <1>1 DEF Calls, K!kvmmake_calls, K!stack_pages, K!KERNEL_STACK_SIZE
<1>3. /\ K!s_text \in Int /\ K!s_rodata \in Int /\ K!s_data \in Int /\ K!trampoline \in Int
      /\ K!KERNEL_OFFSET = 133169152
      /\ K!s_text >= 133693952 /\ K!s_rodata >= 133693952 /\ K!s_data >= 133693952 /\ K!trampoline >= 133693952
  BY ImageSize DEF K!s_rodata
<1>4. /\ K!KERNEL_DIRECT_MAPPING_BASE \in Int /\ K!RISCV_DDR_BASE \in Int /\ K!TRAMPOLINE \in Int
      /\ K!KERNEL_PLIC_BASE \in Int /\ K!KERNEL_UART0_BASE \in Int /\ K!KERNEL_STACK_SCHED \in Int
      /\ K!PLIC_PHYS \in Nat /\ K!UART0_PHYS \in Nat
  BY Sizes, LayoutAssumption DEF K!KERNEL_DIRECT_MAPPING_BASE, K!RISCV_DDR_BASE, K!TRAMPOLINE, K!KERNEL_PLIC_BASE,
     K!KERNEL_UART0_BASE, K!KERNEL_STACK_SCHED, K!PLIC_PHYS, K!UART0_PHYS
<1>5. K!kernel_image_end_2M \in Nat
  BY ImageSize DEF Base, K!kernel_pagetable, K!init_page_allocator_base
<1>6. /\ first \in Seq(CallRegion) /\ Len(first) = 6
      /\ \A j \in 1 .. 6 : first[j].perm # {} /\ first[j].pa # K!Fresh
  <2>1. /\ K!RX \in SUBSET {"A", "D", "R", "W", "X"} /\ K!RX # {}
        /\ K!RW \in SUBSET {"A", "D", "R", "W", "X"} /\ K!RW # {}
    BY DEF K!RX, K!RW
  <2>2. \A x \in {K!s_text, K!s_rodata, K!s_data, K!trampoline} :
           K!KIVA_TO_PA(x) \in Int /\ K!KIVA_TO_PA(x) # K!Fresh
    BY <1>3 DEF K!KIVA_TO_PA, K!Fresh
  <2>3. /\ image.text \in Int /\ image.rodata \in Int /\ image.data \in Int /\ PLIC_SIZE \in Int
        /\ K!PLIC_PHYS # K!Fresh /\ K!UART0_PHYS # K!Fresh
    BY ImageSize, LayoutAssumption, SMTT(30) DEF K!Fresh, K!PLIC_PHYS, K!UART0_PHYS
  <2>4. \A j \in 1 .. 6 : first[j] \in CallRegion /\ first[j].perm # {} /\ first[j].pa # K!Fresh
    <3>1. \A va, pa, sz \in Int, perm \in SUBSET {"A", "D", "R", "W", "X"} :
             pa # K!Fresh /\ perm # {} =>
               K!Region(va, pa, sz, perm) \in CallRegion /\ K!Region(va, pa, sz, perm).perm # {}
               /\ K!Region(va, pa, sz, perm).pa # K!Fresh
      BY DEF K!Region, CallRegion
    <3>. QED BY <1>3, <1>4, <2>1, <2>2, <2>3, <3>1
  <2>5. Len(first) = 6
    OBVIOUS
  <2>6. DOMAIN first = 1 .. 6 /\ first = [j \in 1 .. 6 |-> first[j]]
    OBVIOUS
  <2> HIDE DEF first
  <2>. QED BY <2>4, <2>5, <2>6
<1>7. /\ stacks \in Seq(CallRegion) /\ Len(stacks) = 2 * NCPU
      /\ \A k \in 1 .. 2 * NCPU : stacks[k] = K!Region(K!sched_stack((k - 1) \div 2) + ((k - 1) % 2), K!Fresh, 1, K!RW)
  <2>1. ASSUME NEW k \in 1 .. 2 * NCPU
        PROVE  K!Region(K!sched_stack((k - 1) \div 2) + ((k - 1) % 2), K!Fresh, 1, K!RW) \in CallRegion
    <3>1. K!sched_stack((k - 1) \div 2) + ((k - 1) % 2) \in Int
      BY <1>1, <1>4 DEF K!sched_stack, K!KERNEL_STACK_SIZE
    <3>. QED BY <3>1 DEF K!Region, CallRegion, K!RW, K!Fresh
  <2>. QED BY <1>1, <2>1
<1>8. direct \in CallRegion /\ direct.perm # {} /\ direct.pa # K!Fresh
  BY <1>4, <1>5, LayoutAssumption DEF K!Region, CallRegion, K!RW, K!Fresh
<1>9. first[1] = K!Region(K!s_text, K!KIVA_TO_PA(K!s_text), image.text, K!RX)
      /\ first[3] = K!Region(K!s_data, K!KIVA_TO_PA(K!s_data), image.data, K!RW)
  OBVIOUS
<1> HIDE DEF first, stacks, direct
<1>10. /\ Calls \in Seq(CallRegion) /\ Len(Calls) = Len(first) + Len(stacks) + 1
       /\ \A j \in 1 .. Len(first) : Calls[j] = first[j]
       /\ \A k \in 1 .. Len(stacks) : Calls[k + Len(first)] = stacks[k]
       /\ Calls[Len(first) + Len(stacks) + 1] = direct
  <2>1. first \in Seq(CallRegion) /\ stacks \in Seq(CallRegion) /\ direct \in CallRegion
    BY <1>6, <1>7, <1>8
  <2> HIDE DEF Calls
  <2>2. LET c == first \o stacks \o <<direct>> IN
        /\ c \in Seq(CallRegion) /\ Len(c) = Len(first) + Len(stacks) + 1
        /\ \A j \in 1 .. Len(first) : c[j] = first[j]
        /\ \A k \in 1 .. Len(stacks) : c[k + Len(first)] = stacks[k]
        /\ c[Len(first) + Len(stacks) + 1] = direct
    BY ONLY <2>1, ThreeParts
  <2>. QED BY ONLY <1>2, <2>2
<1>11. /\ Calls \in Seq(CallRegion) /\ Len(Calls) = 2 * NCPU + 7
       /\ Calls[2 * NCPU + 7] = direct
  <2>1. Len(first) + Len(stacks) + 1 = 2 * NCPU + 7
    BY <1>1, <1>6, <1>7
  <2>. QED BY <1>10, <2>1
<1>12. /\ \A j \in 1 .. 6 : Calls[j] = first[j]
       /\ \A k \in 1 .. 2 * NCPU : Calls[k + 6] = stacks[k]
  BY <1>6, <1>7, <1>10
<1>13. ASSUME NEW j \in 1 .. Len(Calls)
       PROVE  Calls[j].perm # {} /\ (Calls[j].pa = K!Fresh => Calls[j].sz = 1)
  <2>1. CASE j \in 1 .. 6
    BY <1>6, <1>12, <2>1
  <2>2. CASE j = 2 * NCPU + 7
    BY <1>8, <1>11, <2>2
  <2>3. CASE j - 6 \in 1 .. 2 * NCPU
    <3>1. Calls[(j - 6) + 6] = stacks[j - 6]
      BY <1>12, <2>3
    <3>2. Calls[j] = stacks[j - 6]
      <4>1. (j - 6) + 6 = j
        BY <1>1, <1>11
      <4>. QED BY <3>1, <4>1
    <3>3. stacks[j - 6].perm = K!RW /\ stacks[j - 6].sz = 1
      BY <1>7, <2>3 DEF K!Region
    <3>. QED BY <3>2, <3>3 DEF K!RW
  <2>4. j \in 1 .. 2 * NCPU + 7
    BY <1>11
  <2>. QED BY <1>1, <2>1, <2>2, <2>3, <2>4
<1>. QED BY <1>7, <1>9, <1>11, <1>12, <1>13, SMTT(30)
-----------------------------------------------------------------------------
\* The invariant, step by step.

\* The same image and as many pages.
LEMMA SamePages ==
    ASSUME UNCHANGED <<image, setup, taken>>
    PROVE  Base' = Base /\ Calls' = Calls /\ K!NewPage' = K!NewPage
  BY SameImage DEF K!NewPage, Base, K!kernel_pagetable

\* What has been mapped stays mapped when the tables grow.
LEMMA PlacedOn ==
    ASSUME NEW base \in Int, NEW calls, NEW t, NEW u, Grows(base, t, u),
           NEW old \in Int, NEW new \in Int, old <= new,
           NEW count \in Nat, NEW left, NEW f \in [1 .. count -> Int], Placed(base, calls, t, old, count, left, f)
    PROVE  Placed(base, calls, u, new, count, left, f)
<1>. SUFFICES ASSUME NEW j \in 1 .. count
              PROVE  /\ calls[j].pa # K!Fresh => f[j] = calls[j].pa
                     /\ calls[j].pa = K!Fresh =>
                          f[j] < new /\ \A k \in 1 .. j - 1 : calls[k].pa = K!Fresh => f[k] < f[j]
                     /\ \A o \in 0 .. calls[j].sz - 1 :
                          j < count \/ o < calls[j].sz - left =>
                              Leads(base, u, calls[j].va + o, f[j] + o, calls[j].perm)
  BY DEF Placed
<1>1. /\ calls[j].pa # K!Fresh => f[j] = calls[j].pa
      /\ calls[j].pa = K!Fresh =>
           f[j] < old /\ \A k \in 1 .. j - 1 : calls[k].pa = K!Fresh => f[k] < f[j]
      /\ \A o \in 0 .. calls[j].sz - 1 :
           j < count \/ o < calls[j].sz - left =>
               Leads(base, t, calls[j].va + o, f[j] + o, calls[j].perm)
  BY DEF Placed
<1>2. f[j] < old => f[j] < new
  OBVIOUS
<1>. QED BY <1>1, <1>2, LeadsOn

\* So once it is built, the kernel's table keeps what it maps.
LEMMA BuiltOn ==
    ASSUME PagesInv, PagesInv', UNCHANGED image, Grows(Base, table, table'), Base \in DOMAIN table',
           K!NewPage <= K!NewPage', BuiltInv, KernelTableBuilt
    PROVE  BuiltInv'
<1>1. /\ Base' = Base /\ Calls' = Calls /\ Base \in Int
      /\ K!NewPage \in Int /\ K!NewPage' \in Int
  <2>1. Base' = Base /\ Calls' = Calls /\ Base \in Int /\ K!NewPage \in Int
    BY SameImage, Pages
  <2>2. K!NewPage' = Base' + setup' + taken'
    BY DEF K!NewPage, Base, K!kernel_pagetable
  <2>. QED BY <2>1, <2>2 DEF PagesInv
<1>2. PICK f \in [1 .. Len(Calls) -> Int] : Placed(Base, Calls, table, K!NewPage, Len(Calls), 0, f)
  BY DEF BuiltInv
<1>3. Len(Calls) \in Nat
  BY CallsAre, NCPUAssumption
<1>4. Placed(Base, Calls, table', K!NewPage', Len(Calls), 0, f)
  BY <1>1, <1>2, <1>3, PlacedOn
<1>. QED BY <1>1, <1>4 DEF BuiltInv

\* Nothing is mapped before the boot hart begins.
LEMMA InitMapInv == BootMapInit => MapInv
<1>. SUFFICES ASSUME BootMapInit PROVE MapInv
  OBVIOUS
<1>1. DOMAIN table = {}
  BY DEF BootMapInit, K!Init, K!Empty
<1>2. PagesInv
  BY <1>1 DEF BootMapInit, K!Init, PagesInv
<1>3. StageInv
  <2>1. pc[BootHart] = "next"
    BY Harts DEF BootMapInit, Init
  <2>. QED BY <1>1, <2>1 DEF BootMapInit, Init, K!Init, StageInv
<1>. QED BY <1>2, <1>3 DEF BootMapInit, K!Init, MapInv, TemporaryInv, BuildInv, Building, BuiltInv, KernelTableBuilt

\* The boot hart initialises the platform behind the poisoning, and not before.
LEMMA PoisonOrder ==
    ASSUME IInv, Next, StageInv
    PROVE  /\ poisoned => poisoned'
           /\ pc'[BootHart] \in {"platform", "go", "scheduler"} => poisoned'
<1>1. CASE BootCpu
  BY <1>1, Harts DEF BootCpu, next_hart, hart_start, wait_online, poison, platform_init, go, Goto, Boot, StageInv,
     flagVars, regVars, bootVars, IInv, TypeOK
<1>2. ASSUME NEW h \in Secondary, SecondaryCpu(h)
      PROVE  poisoned' = poisoned /\ pc'[BootHart] = pc[BootHart]
  BY <1>2, Harts DEF SecondaryCpu, secondarycpu_entry, secondarycpu_relocating, leave_boot_stack, booted_load,
     booted_store, halt_init, Goto, Secondary, IInv, TypeOK
<1>. QED BY <1>1, <1>2 DEF Next, StageInv

\* The harts run: of the tables only the temporary ones may go.
LEMMA RunHartsKeeps ==
    ASSUME IInv, MapInv, RunHarts PROVE MapInv'
<1>1. /\ KernelTableBuilt /\ Next /\ UNCHANGED <<kpc, image, setup, kalloc_inited, taken, todo, map>>
      /\ table' = IF poisoned' THEN [pg \in DOMAIN table \ Temporary |-> table[pg]] ELSE table
  BY DEF RunHarts, KernelTableBuilt, K!mapVars
<1>2. Base' = Base /\ Calls' = Calls /\ K!NewPage' = K!NewPage
  BY <1>1, SamePages
<1>3. DOMAIN table' \subseteq DOMAIN table /\ Grows(Base, table, table')
  <2>1. \A pg \in DOMAIN table : Base <= pg => pg \notin Temporary
    BY Pages DEF MapInv
  <2>. QED BY <1>1, <2>1 DEF Grows
<1>4. PagesInv'
  BY <1>1, <1>2, <1>3 DEF MapInv, PagesInv
<1>5. Base \in DOMAIN table /\ Base \in DOMAIN table'
  BY <1>1, <1>3, Pages DEF MapInv, BuiltInv, Grows
<1>6. StageInv'
  <2>1. kpc # "start"
    BY <1>5 DEF MapInv, StageInv, K!Empty
  <2>2. /\ poisoned => poisoned'
        /\ pc'[BootHart] \in {"platform", "go", "scheduler"} => poisoned'
    BY <1>1, PoisonOrder DEF MapInv
  <2>. QED BY <1>1, <1>2, <1>5, <2>1, <2>2 DEF MapInv, StageInv, KernelTableBuilt
<1>7. TemporaryInv'
  <2>1. CASE poisoned'
    BY <2>1 DEF TemporaryInv
  <2>2. CASE ~poisoned'
    <3>1. table' = table /\ ~poisoned /\ kpc' = kpc
      BY <1>1, <2>2, PoisonOrder DEF MapInv
    <3>. QED BY <1>1, <3>1, SameImage DEF MapInv, TemporaryInv
  <2>. QED BY <2>1, <2>2
<1>8. BuildInv'
  BY <1>1 DEF BuildInv, Building, KernelTableBuilt
<1>9. BuiltInv'
  BY <1>1, <1>2, <1>3, <1>4, <1>5, BuiltOn, Pages DEF MapInv
<1>. QED BY <1>4, <1>6, <1>7, <1>8, <1>9 DEF MapInv

\* What the root of the temporary tables has its entries for.
LEMMA RelocationIndices ==
    ASSUME PagesInv
    PROVE  /\ K!PX2(K!KERNEL_PHYS_BASE) = 2 /\ K!PX2(K!KERNEL_VIRT_BASE) = 510
           /\ K!PX2(K!KERNEL_DIRECT_MAPPING_BASE + K!kernel_image_end_2M) \in {258, 259}
<1>1. K!KERNEL_PHYS_BASE = 524800 /\ K!KERNEL_VIRT_BASE = 133693952 /\ K!KERNEL_DIRECT_MAPPING_BASE = 67108864
  BY Sizes DEF K!KERNEL_PHYS_BASE, K!KERNEL_VIRT_BASE, K!RISCV_DDR_BASE, K!KERNEL_DIRECT_MAPPING_BASE
<1>2. K!kernel_image_end_2M \in Int /\ 525312 <= K!kernel_image_end_2M /\ K!kernel_image_end_2M <= 786432
  BY ImageSize DEF Base, K!kernel_pagetable, K!init_page_allocator_base
<1>3. ASSUME NEW va \in Int, 67634176 <= va, va <= 67895296
      PROVE  K!PX2(va) \in {258, 259}
  <2>1. PICK q \in Int : q = K!PX2(va)
    BY Indices
  <2>2. q = va \div 262144
    BY <2>1, Sizes DEF K!PX2
  <2>3. q * 262144 <= va /\ va < q * 262144 + 262144
    BY <2>2
  <2>4. q = 258 \/ q = 259
    BY <1>3, <2>3
  <2>. QED BY <2>1, <2>4
<1>4. K!PX2(K!KERNEL_PHYS_BASE) = 2
  BY <1>1, Sizes DEF K!PX2
<1>5. K!PX2(K!KERNEL_VIRT_BASE) = 510
  BY <1>1, Sizes DEF K!PX2
<1>. QED BY <1>1, <1>2, <1>3, <1>4, <1>5

\* The root of the temporary tables, and the entries that it and they have.
Relocation ==
    K!With(K!With(K!With(K!Empty, K!PX2(K!KERNEL_PHYS_BASE), K!Entry(K!level1_ident, {})),
                  K!PX2(K!KERNEL_VIRT_BASE), K!Entry(K!level1_high, {})),
           K!PX2(K!KERNEL_DIRECT_MAPPING_BASE + K!kernel_image_end_2M), K!Entry(K!level1_direct_mapping, {}))
Identical == K!Huge(K!PX1(K!KERNEL_PHYS_BASE), K!KERNEL_PHYS_BASE, Image2M)
High == K!Huge(K!PX1(K!KERNEL_VIRT_BASE), K!KERNEL_PHYS_BASE, Image2M)
Direct ==
    K!With(K!Empty, K!PX1(K!KERNEL_DIRECT_MAPPING_BASE + K!kernel_image_end_2M), K!Entry(K!kernel_image_end_2M, K!RW))

\* bootcpu_start_relocation in these terms.
LEMMA RelocationNamed ==
    ASSUME K!bootcpu_start_relocation
    PROVE  /\ kpc = "start" /\ kpc' = "calls" /\ UNCHANGED <<image, setup, kalloc_inited, taken, todo, map>>
           /\ table' = K!With(K!With(K!With(K!With(K!Empty, K!relocate_pagetable, Relocation), K!level1_ident, Identical),
                                     K!level1_high, High), K!level1_direct_mapping, Direct)
  BY Zenon DEF K!bootcpu_start_relocation, Image2M, Relocation, Identical, High, Direct

\* The entries of the root for the image.
LEMMA RelocationRoot ==
    ASSUME PagesInv
    PROVE  /\ 2 \in DOMAIN Relocation /\ Relocation[2] = K!Entry(K!level1_ident, {})
           /\ 510 \in DOMAIN Relocation /\ Relocation[510] = K!Entry(K!level1_high, {})
<1> DEFINE e1 == K!Entry(K!level1_ident, {})
           e2 == K!Entry(K!level1_high, {})
           e3 == K!Entry(K!level1_direct_mapping, {})
<1>1. PICK i : i \in {258, 259} /\ i = K!PX2(K!KERNEL_DIRECT_MAPPING_BASE + K!kernel_image_end_2M)
  BY RelocationIndices
<1>2. Relocation = K!With(K!With(K!With(K!Empty, 2, e1), 510, e2), i, e3)
  BY <1>1, RelocationIndices DEF Relocation
<1> HIDE DEF e1, e2, e3
<1>3. ASSUME NEW f, NEW g, NEW h, f = K!With(K!Empty, 2, e1), g = K!With(f, 510, e2), h = K!With(g, i, e3)
      PROVE  2 \in DOMAIN h /\ h[2] = e1 /\ 510 \in DOMAIN h /\ h[510] = e2
  <2>1. 2 \in DOMAIN f /\ f[2] = e1
    BY <1>3 DEF K!With
  <2>2. 2 \in DOMAIN g /\ g[2] = e1 /\ 510 \in DOMAIN g /\ g[510] = e2
    BY <1>3, <2>1 DEF K!With
  <2>. QED BY <1>1, <1>3, <2>2 DEF K!With
<1>. QED BY <1>2, <1>3 DEF e1, e2

\* The boot hart writes the temporary tables.
LEMMA RelocationKeeps ==
    ASSUME MapInv, K!bootcpu_start_relocation, UNCHANGED vars PROVE MapInv'
<1>1. /\ kpc = "start" /\ kpc' = "calls" /\ UNCHANGED <<image, setup, kalloc_inited, taken, todo, map>>
  BY RelocationNamed
<1>2. Base' = Base /\ Calls' = Calls /\ K!NewPage' = K!NewPage
  BY <1>1, SamePages
<1>3. /\ K!relocate_pagetable \in Int /\ K!level1_ident = K!relocate_pagetable + 1
      /\ K!level1_direct_mapping = K!relocate_pagetable + 2 /\ K!level1_high = K!relocate_pagetable + 3
  BY Pages DEF MapInv
<1>4. /\ DOMAIN table' = Temporary
      /\ table'[K!relocate_pagetable] = Relocation
      /\ table'[K!level1_ident] = Identical /\ table'[K!level1_high] = High
  <2>1. PICK p1, p2, p3, p4 \in Int :
          /\ p1 = K!relocate_pagetable /\ p2 = K!level1_ident /\ p3 = K!level1_high /\ p4 = K!level1_direct_mapping
          /\ p1 # p2 /\ p1 # p3 /\ p1 # p4 /\ p2 # p3 /\ p2 # p4 /\ p3 # p4
    BY <1>3
  <2>2. PICK a, b, c : /\ a = K!With(K!Empty, p1, Relocation) /\ b = K!With(a, p2, Identical)
                       /\ c = K!With(b, p3, High) /\ table' = K!With(c, p4, Direct)
    BY <2>1, RelocationNamed
  <2>3. DOMAIN a = {p1} /\ a[p1] = Relocation
    BY <2>2 DEF K!With, K!Empty
  <2>4. DOMAIN b = {p1, p2} /\ b[p1] = Relocation /\ b[p2] = Identical
    BY <2>1, <2>2, <2>3 DEF K!With
  <2>5. DOMAIN c = {p1, p2, p3} /\ c[p1] = Relocation /\ c[p2] = Identical /\ c[p3] = High
    BY <2>1, <2>2, <2>4 DEF K!With
  <2>6. DOMAIN table' = {p1, p2, p3, p4} /\ table'[p1] = Relocation /\ table'[p2] = Identical /\ table'[p3] = High
    BY <2>1, <2>2, <2>5 DEF K!With
  <2>. QED BY <2>1, <2>6 DEF Temporary
<1>5. PagesInv'
  BY <1>1, <1>2, <1>4, Pages DEF MapInv, PagesInv
<1>6. Base \notin DOMAIN table' /\ DOMAIN table = {}
  BY <1>1, <1>4, Pages DEF MapInv, StageInv, K!Empty
<1>7. ~kalloc_inited /\ ~KernelTableBuilt
  BY <1>1, <1>6 DEF MapInv, BuiltInv, KernelTableBuilt
<1>8. StageInv'
  BY <1>1, <1>2, <1>6, <1>7 DEF MapInv, StageInv, vars, KernelTableBuilt
<1>9. TemporaryInv'
  <2>1. /\ K!PX2(K!KERNEL_PHYS_BASE) = 2 /\ K!PX2(K!KERNEL_VIRT_BASE) = 510
        /\ 2 \in DOMAIN Relocation /\ Relocation[2] = K!Entry(K!level1_ident, {})
        /\ 510 \in DOMAIN Relocation /\ Relocation[510] = K!Entry(K!level1_high, {})
    BY RelocationIndices, RelocationRoot DEF MapInv
  <2>2. UNCHANGED <<Image2M, Temporary, K!relocate_pagetable, K!level1_ident, K!level1_high>>
    BY <1>1, SameImage
  <2>. QED BY <1>4, <2>1, <2>2 DEF TemporaryInv, Identical, High
<1>10. BuildInv'
  BY <1>2, <1>6 DEF BuildInv, Building
<1>11. BuiltInv'
  BY <1>1, <1>7 DEF BuiltInv, KernelTableBuilt
<1>. QED BY <1>5, <1>8, <1>9, <1>10, <1>11 DEF MapInv

\* The temporary tables stay as they are.
LEMMA TemporaryOn ==
    ASSUME MapInv, UNCHANGED <<image, poisoned>>, kpc # "start", DOMAIN table \subseteq DOMAIN table',
           \A pg \in DOMAIN table : pg < Base => table'[pg] = table[pg]
    PROVE  TemporaryInv'
<1>1. /\ Image2M' = Image2M /\ Temporary' = Temporary /\ K!relocate_pagetable' = K!relocate_pagetable
      /\ K!level1_ident' = K!level1_ident /\ K!level1_high' = K!level1_high
  BY SameImage
<1>2. \A pg \in Temporary : pg < Base
  BY Pages DEF MapInv
<1>3. /\ K!relocate_pagetable \in Temporary /\ K!level1_ident \in Temporary /\ K!level1_high \in Temporary
  BY DEF Temporary
<1>. QED BY <1>1, <1>2, <1>3 DEF MapInv, TemporaryInv

\* The root of the kernel's table.
LEMMA KvmmakeKeeps ==
    ASSUME MapInv, K!kvmmake, UNCHANGED vars PROVE MapInv'
<1>1. /\ kpc = "calls" /\ kpc' = "calls" /\ Base \notin DOMAIN table
      /\ table' = K!With(table, Base, K!Empty) /\ setup' = 1 /\ todo' = Calls
      /\ UNCHANGED <<image, kalloc_inited, taken, map>>
  BY DEF K!kvmmake, Base, Calls
<1>2. setup = 0 /\ taken = 0 /\ ~kalloc_inited /\ ~KernelTableBuilt /\ ~poisoned
  BY <1>1 DEF MapInv, StageInv, BuiltInv, KernelTableBuilt
<1>3. Base' = Base /\ Calls' = Calls /\ Base \in Int /\ K!NewPage = Base
  <2>1. Base' = Base /\ Calls' = Calls /\ Base \in Int /\ K!NewPage = Base + setup + taken
    BY <1>1, SameImage, Pages DEF MapInv
  <2>. QED BY <1>2, <2>1
<1>4. K!NewPage' = Base + 1
  <2>1. K!NewPage' = Base' + setup' + taken'
    BY DEF K!NewPage, Base, K!kernel_pagetable
  <2>. QED BY <1>1, <1>2, <1>3, <2>1
<1>5. /\ DOMAIN table' = DOMAIN table \cup {Base} /\ table'[Base] = K!Empty
      /\ \A pg \in DOMAIN table : table'[pg] = table[pg]
  BY <1>1 DEF K!With
<1>6. PagesInv'
  BY <1>1, <1>3, <1>4, <1>5 DEF MapInv, PagesInv
<1>7. StageInv'
  BY <1>1, <1>2, <1>3, <1>5 DEF MapInv, StageInv, vars
<1>8. TemporaryInv'
  BY <1>1, <1>5, TemporaryOn DEF vars
<1>9. BuildInv'
  <2>1. Closed(Base, table')
    BY <1>3, <1>5 DEF Closed, MapInv, PagesInv, K!Empty
  <2>2. Calls = [k \in 1 .. Len(Calls) - 0 |-> Calls[0 + k]] /\ 0 \in 0 .. Len(Calls)
    BY CallsAre, NCPUAssumption DEF MapInv
  <2> DEFINE f == [k \in 1 .. 0 |-> 0]
  <2>3. f \in [1 .. 0 -> Int] /\ Placed(Base, Calls, table', K!NewPage', 0, 0, f)
    BY DEF Placed
  <2> HIDE DEF f
  <2>. QED BY <1>1, <1>3, <2>1, <2>2, <2>3 DEF BuildInv
<1>10. BuiltInv'
  BY <1>1, <1>2 DEF BuiltInv, KernelTableBuilt
<1>. QED BY <1>6, <1>7, <1>8, <1>9, <1>10 DEF MapInv

\* The next call, with a new page where it needs one.
LEMMA NextCallKeeps ==
    ASSUME MapInv, K!next_call, UNCHANGED vars PROVE MapInv'
<1> DEFINE n == IF Head(todo).pa = K!Fresh THEN 1 ELSE 0
<1>1. /\ kpc = "calls" /\ todo # <<>> /\ K!allockernelpage(n) /\ todo' = Tail(todo) /\ kpc' = "kvmmap"
      /\ map' = IF Head(todo).pa = K!Fresh THEN [Head(todo) EXCEPT !.pa = K!NewPage] ELSE Head(todo)
      /\ UNCHANGED <<image, table, kalloc_inited>>
  BY DEF K!next_call
<1>2. n \in 0 .. 2
  OBVIOUS
<1>3. /\ setup' \in Nat /\ taken' \in Nat /\ K!NewPage' = K!NewPage + n
      /\ Base' = Base /\ Calls' = Calls /\ Base \in Int /\ K!NewPage \in Int
  BY <1>1, <1>2, PagesTaken, SameImage, Pages DEF MapInv
<1>4. PagesInv'
  BY <1>1, <1>2, <1>3 DEF MapInv, PagesInv
<1>5. Base \in DOMAIN table
  BY <1>1 DEF MapInv, StageInv
<1>6. StageInv'
  BY <1>1, <1>3, <1>5 DEF MapInv, StageInv, vars
<1>7. TemporaryInv'
  BY <1>1, TemporaryOn DEF vars
<1>8. Grows(Base, table, table')
  BY <1>1 DEF Grows
<1>9. BuiltInv'
  <2>1. CASE KernelTableBuilt
    BY <1>1, <1>2, <1>3, <1>4, <1>5, <1>8, <2>1, BuiltOn DEF MapInv
  <2>2. CASE ~KernelTableBuilt
    BY <1>1, <2>2 DEF BuiltInv, KernelTableBuilt
  <2>. QED BY <2>1, <2>2
<1>10. BuildInv'
  <2>. SUFFICES ASSUME ~kalloc_inited PROVE BuildInv'
    BY <1>1 DEF BuildInv, Building
  <2>1. PICK count \in 0 .. Len(Calls) :
          /\ todo = [k \in 1 .. Len(Calls) - count |-> Calls[count + k]]
          /\ \E f \in [1 .. count -> Int] : Placed(Base, Calls, table, K!NewPage, count, 0, f)
    BY <1>1, <1>5 DEF MapInv, BuildInv, Building
  <2>2. PICK f \in [1 .. count -> Int] : Placed(Base, Calls, table, K!NewPage, count, 0, f)
    BY <2>1
  <2>3. Calls \in Seq(CallRegion) /\ Len(Calls) \in Nat /\ count \in Nat
    BY CallsAre DEF MapInv
  <2>4. count < Len(Calls) /\ Head(todo) = Calls[count + 1]
        /\ Tail(todo) = [k \in 1 .. Len(Calls) - (count + 1) |-> Calls[count + 1 + k]]
    <3>1. PICK m \in Nat : m = Len(Calls) - count
      BY <2>3
    <3>2. todo = [k \in 1 .. m |-> Calls[count + k]]
      BY <2>1, <3>1
    <3>3. m # 0
      BY <1>1, <3>2
    <3>4. Head(todo) = Calls[count + 1] /\ Tail(todo) = [k \in 1 .. m - 1 |-> Calls[count + (k + 1)]]
      BY <3>2, <3>3
    <3>5. m - 1 = Len(Calls) - (count + 1) /\ \A k \in 1 .. m - 1 : count + (k + 1) = count + 1 + k
      BY <2>3, <3>1
    <3>. QED BY <2>3, <3>1, <3>3, <3>4, <3>5
  <2> DEFINE c == Calls[count + 1]
  <2>5. c \in CallRegion
    BY <2>3, <2>4
  <2>6. PICK pa \in Int : pa = map'.pa
    BY <1>1, <1>3, <2>4, <2>5 DEF CallRegion
  <2>7. map' = K!Region(c.va, pa, c.sz, c.perm) /\ (c.pa # K!Fresh => pa = c.pa) /\ (c.pa = K!Fresh => pa = K!NewPage)
    BY <1>1, <2>4, <2>5, <2>6 DEF CallRegion, K!Region
  <2> DEFINE g == [k \in 1 .. count + 1 |-> IF k <= count THEN f[k] ELSE pa]
  <2>8. g \in [1 .. count + 1 -> Int] /\ g[count + 1] = pa /\ \A k \in 1 .. count : g[k] = f[k]
    BY <2>3
  <2> HIDE DEF g
  <2>9. Placed(Base, Calls, table, K!NewPage', count + 1, c.sz, g)
    <3>1. PICK new \in Int : new = K!NewPage' /\ K!NewPage <= new /\ (c.pa = K!Fresh => K!NewPage < new)
      BY <1>3, <2>4
    <3>2. PICK old \in Int : old = K!NewPage
      BY <1>3
    <3>3. \A j \in 1 .. Len(Calls) : Calls[j].sz \in Int
      <4>1. \A j \in 1 .. Len(Calls) : Calls[j] \in CallRegion
        BY <2>3
      <4>2. \A r \in CallRegion : r.sz \in Int
        BY DEF CallRegion
      <4>. QED BY <4>1, <4>2
    <3>4. ASSUME NEW j \in 1 .. count + 1
          PROVE  /\ Calls[j].pa # K!Fresh => g[j] = Calls[j].pa
                 /\ Calls[j].pa = K!Fresh =>
                      g[j] < new /\ \A k \in 1 .. j - 1 : Calls[k].pa = K!Fresh => g[k] < g[j]
                 /\ \A o \in 0 .. Calls[j].sz - 1 :
                      j < count + 1 \/ o < Calls[j].sz - Calls[count + 1].sz =>
                          Leads(Base, table, Calls[j].va + o, g[j] + o, Calls[j].perm)
      <4>1. CASE j \in 1 .. count
        <5>1. /\ Calls[j].pa # K!Fresh => f[j] = Calls[j].pa
              /\ Calls[j].pa = K!Fresh =>
                   f[j] < old /\ \A k \in 1 .. j - 1 : Calls[k].pa = K!Fresh => f[k] < f[j]
              /\ \A o \in 0 .. Calls[j].sz - 1 :
                   j < count \/ o < Calls[j].sz - 0 =>
                       Leads(Base, table, Calls[j].va + o, f[j] + o, Calls[j].perm)
          BY <2>2, <3>2, <4>1 DEF Placed
        <5>2. /\ Calls[j].sz \in Int /\ g[j] = f[j] /\ f[j] \in Int
              /\ \A k \in 1 .. j - 1 : k \in 1 .. count /\ g[k] = f[k]
          BY <2>3, <2>4, <2>8, <3>3, <4>1, SMTT(30)
        <5>3. Calls[j].pa = K!Fresh => g[j] < new /\ \A k \in 1 .. j - 1 : Calls[k].pa = K!Fresh => g[k] < g[j]
          BY <3>1, <3>2, <4>1, <5>1, <5>2
        <5>4. \A o \in 0 .. Calls[j].sz - 1 : Leads(Base, table, Calls[j].va + o, g[j] + o, Calls[j].perm)
          BY <5>1, <5>2
        <5>. QED BY <5>1, <5>2, <5>3, <5>4
      <4>2. CASE j = count + 1
        <5>1. \A k \in 1 .. count : Calls[k].pa = K!Fresh => f[k] < old
          BY <2>2, <3>2 DEF Placed
        <5>2. \A k \in 1 .. j - 1 : k \in 1 .. count /\ g[k] = f[k] /\ f[k] \in Int
          BY <2>3, <2>8, <4>2
        <5>3. Calls[j].pa # K!Fresh => g[j] = Calls[j].pa
          BY <2>7, <2>8, <4>2
        <5>4. Calls[j].pa = K!Fresh => g[j] = old /\ old < new
          BY <2>7, <2>8, <3>1, <3>2, <4>2
        <5>5. Calls[j].sz \in Int /\ Calls[j].sz - Calls[count + 1].sz = 0
          BY <2>3, <2>4, <3>3, <4>2
        <5>. QED BY <2>3, <4>2, <5>1, <5>2, <5>3, <5>4, <5>5
      <4>. QED BY <2>3, <4>1, <4>2
    <3>. QED BY <3>1, <3>4 DEF Placed
  <2>10. InCall(count + 1, g)'
    <3>1. map'.sz = c.sz /\ c.sz \in Int /\ c.va \in Int
      BY <2>5, <2>7 DEF CallRegion, K!Region
    <3>2. c.sz - map'.sz = 0
      BY <3>1
    <3>3. map' = K!Region(c.va + (c.sz - map'.sz), g[count + 1] + (c.sz - map'.sz), map'.sz, c.perm)
      BY <2>7, <2>8, <3>1, <3>2
    <3>. QED BY <1>3, <2>3, <3>1, <3>3 DEF InCall
  <2>11. map'.sz = c.sz
    BY <2>7 DEF K!Region
  <2>12. Closed(Base, table) /\ count + 1 \in 0 .. Len(Calls)
    BY <1>1, <1>5, <2>3, <2>4, SMTT(30) DEF MapInv, BuildInv, Building
  <2> HIDE DEF c
  <2>. QED BY <1>1, <1>3, <2>4, <2>8, <2>9, <2>10, <2>11, <2>12 DEF BuildInv
<1>. QED BY <1>4, <1>6, <1>7, <1>9, <1>10 DEF MapInv

\* One iteration of kvmmap, with the allocator's pages: what is mapped stays mapped.
LEMMA KvmmapLaterKeeps ==
    ASSUME MapInv, K!kvmmap, UNCHANGED vars, kalloc_inited PROVE MapInv'
<1>1. /\ Contains(table, table') /\ PagesInv' /\ K!NewPage <= K!NewPage'
      /\ kpc' \in {"kvmmap", "panic"} /\ DOMAIN table \subseteq DOMAIN table'
      /\ UNCHANGED <<image, kalloc_inited, todo>>
  BY KvmmapKeeps, KvmmapStep DEF MapInv
<1>2. Base' = Base /\ KernelTableBuilt /\ Base \in DOMAIN table'
  BY <1>1, SameImage DEF MapInv, BuiltInv, KernelTableBuilt
<1>3. StageInv'
  BY <1>1, <1>2 DEF MapInv, StageInv, vars
<1>4. BuiltInv'
  BY <1>1, <1>2, ContainsGrows, BuiltOn DEF MapInv
<1>. QED BY <1>1, <1>3, <1>4 DEF MapInv, StageInv, TemporaryInv, BuildInv, Building, vars

\* One iteration of kvmmap while the kernel's table is built.
LEMMA KvmmapFirstKeeps ==
    ASSUME MapInv, K!kvmmap, UNCHANGED vars, ~kalloc_inited PROVE MapInv'
<1>1. /\ Contains(table, table') /\ PagesInv' /\ K!NewPage <= K!NewPage'
      /\ kpc' \in {"kvmmap", "panic"} /\ DOMAIN table \subseteq DOMAIN table'
      /\ kpc = "kvmmap" /\ UNCHANGED <<image, kalloc_inited, todo>>
  BY KvmmapKeeps, KvmmapStep DEF MapInv
<1>2. Base' = Base /\ Calls' = Calls /\ Base \in DOMAIN table /\ Base \in DOMAIN table' /\ ~poisoned
  BY <1>1, SameImage DEF MapInv, StageInv
<1>3. StageInv'
  BY <1>1, <1>2 DEF MapInv, StageInv, vars
<1>4. BuiltInv'
  BY <1>1 DEF BuiltInv, KernelTableBuilt
<1>5. PICK count \in 0 .. Len(Calls) :
        /\ todo = [k \in 1 .. Len(Calls) - count |-> Calls[count + k]]
        /\ \E f \in [1 .. count -> Int] :
             /\ Placed(Base, Calls, table, K!NewPage, count, map.sz, f)
             /\ InCall(count, f)
  BY <1>1, <1>2 DEF MapInv, BuildInv, Building
<1>6. PICK f \in [1 .. count -> Int] : Placed(Base, Calls, table, K!NewPage, count, map.sz, f) /\ InCall(count, f)
  BY <1>5
<1> DEFINE c == Calls[count]
           d == c.sz - map.sz
<1>7. /\ count \in 1 .. Len(Calls) /\ c \in CallRegion /\ c.perm # {} /\ Len(Calls) \in Nat /\ count \in Nat
      /\ c.va \in Int /\ c.sz \in Int /\ map.sz \in Int /\ f[count] \in Int /\ d \in Int
      /\ map = K!Region(c.va + d, f[count] + d, map.sz, c.perm)
  <2>1. Calls \in Seq(CallRegion) /\ Len(Calls) \in Nat /\ \A j \in 1 .. Len(Calls) : Calls[j].perm # {}
    BY CallsAre DEF MapInv
  <2>2. count >= 1 /\ map.sz \in Int /\ map = K!Region(c.va + d, f[count] + d, map.sz, c.perm)
    BY <1>6 DEF InCall
  <2>3. count \in 1 .. Len(Calls) /\ c \in CallRegion
    BY <2>1, <2>2
  <2>4. c.va \in Int /\ c.sz \in Int
    BY <2>3 DEF CallRegion
  <2>5. d \in Int
    BY <2>2, <2>4
  <2>. QED BY <2>1, <2>2, <2>3, <2>4, <2>5
<1> HIDE DEF c, d
<1>8. PICK va, sz, rest, pa, past \in Int : /\ va = c.va /\ sz = c.sz /\ rest = map.sz /\ pa = f[count] /\ past = d
                                           /\ past = sz - rest
  BY <1>7 DEF d
<1>9. map = K!Region(va + past, pa + past, rest, c.perm)
  BY <1>7, <1>8
<1>10. map.va = va + past /\ map.pa = pa + past /\ map.sz = rest /\ map.perm = c.perm
  BY <1>9 DEF K!Region
<1>11. K!NewPage' \in Int
  <2>1. K!NewPage' = Base' + setup' + taken'
    BY DEF K!NewPage, Base, K!kernel_pagetable
  <2>. QED BY <1>1, <1>2, <2>1, Pages DEF MapInv, PagesInv
<1>12. CASE UNCHANGED <<table, setup, taken, map>> /\ kpc' = "panic"
  <2>1. TemporaryInv'
    BY <1>1, <1>12, TemporaryOn DEF vars
  <2>. QED BY <1>1, <1>3, <1>4, <1>12, <2>1 DEF MapInv, BuildInv, Building
<1>13. CASE kpc' = "kvmmap"
  <2>1. /\ Closed(Base, table')
        /\ \A pg \in DOMAIN table : pg < Base => table'[pg] = table[pg]
        /\ \E n \in {1, 512} :
             /\ n <= map.sz
             /\ map' = [map EXCEPT !.va = @ + n, !.pa = @ + n, !.sz = @ - n]
             /\ \A o \in Nat : o < n => Leads(Base, table', map.va + o, map.pa + o, map.perm)
    <3>1. map.va \in Int /\ map.pa \in Int /\ map.sz \in Int /\ map.perm # {}
      BY <1>7, <1>10
    <3>2. Closed(Base, table) /\ PagesInv
      BY <1>1, <1>2 DEF MapInv, BuildInv, Building
    <3>. QED BY <1>2, <1>13, <3>1, <3>2, KvmmapMaps
  <2>2. TemporaryInv'
    BY <1>1, <2>1, TemporaryOn DEF vars
  <2>3. PICK n \in Int :
          /\ n <= map.sz
          /\ map' = [map EXCEPT !.va = @ + n, !.pa = @ + n, !.sz = @ - n]
          /\ \A o \in Nat : o < n => Leads(Base, table', map.va + o, map.pa + o, map.perm)
    <3>1. PICK k \in {1, 512} :
            /\ k <= map.sz
            /\ map' = [map EXCEPT !.va = @ + k, !.pa = @ + k, !.sz = @ - k]
            /\ \A o \in Nat : o < k => Leads(Base, table', map.va + o, map.pa + o, map.perm)
      BY <2>1
    <3>2. k \in Int
      OBVIOUS
    <3>. QED BY <3>1, <3>2
  <2>4. n \in Int /\ map'.sz = rest - n /\ map' = K!Region(va + (past + n), pa + (past + n), rest - n, c.perm)
    <3>1. n \in Int
      OBVIOUS
    <3>2. map' = K!Region((va + past) + n, (pa + past) + n, rest - n, c.perm)
      BY <1>9, <2>3 DEF K!Region
    <3>3. (va + past) + n = va + (past + n) /\ (pa + past) + n = pa + (past + n)
      BY <3>1
    <3>. QED BY <3>1, <3>2, <3>3 DEF K!Region
  <2>5. InCall(count, f)'
    <3>1. sz - map'.sz = past + n /\ map'.sz \in Int
      <4>1. sz - (rest - n) = past + n
        BY <1>8, SMTT(30)
      <4>. QED BY <2>4, <4>1
    <3>2. map' = K!Region(c.va + (c.sz - map'.sz), f[count] + (c.sz - map'.sz), map'.sz, c.perm)
      BY <1>8, <2>4, <3>1
    <3>. QED BY <1>2, <1>7, <3>1, <3>2 DEF InCall, c
  <2>6. Placed(Base, Calls, table', K!NewPage', count, map'.sz, f)
    <3>1. Placed(Base, Calls, table', K!NewPage', count, map.sz, f)
      <4>1. Grows(Base, table, table') /\ Base \in Int /\ K!NewPage \in Int
        BY <1>1, ContainsGrows, Pages DEF MapInv
      <4>2. K!NewPage' \in Int
        BY <1>11
      <4>. QED BY <1>1, <1>6, <1>7, <4>1, <4>2, PlacedOn
    <3>2. PICK new \in Int : new = K!NewPage'
      BY <1>11
    <3>3. ASSUME NEW j \in 1 .. count
          PROVE  /\ Calls[j].pa # K!Fresh => f[j] = Calls[j].pa
                 /\ Calls[j].pa = K!Fresh =>
                      f[j] < new /\ \A k \in 1 .. j - 1 : Calls[k].pa = K!Fresh => f[k] < f[j]
                 /\ \A o \in 0 .. Calls[j].sz - 1 :
                      j < count \/ o < Calls[j].sz - map'.sz =>
                          Leads(Base, table', Calls[j].va + o, f[j] + o, Calls[j].perm)
      <4>1. /\ Calls[j].pa # K!Fresh => f[j] = Calls[j].pa
            /\ Calls[j].pa = K!Fresh =>
                 f[j] < new /\ \A k \in 1 .. j - 1 : Calls[k].pa = K!Fresh => f[k] < f[j]
            /\ \A o \in 0 .. Calls[j].sz - 1 :
                 j < count \/ o < Calls[j].sz - map.sz =>
                     Leads(Base, table', Calls[j].va + o, f[j] + o, Calls[j].perm)
        BY <3>1, <3>2 DEF Placed
      <4>2. ASSUME NEW o \in 0 .. Calls[j].sz - 1, j < count \/ o < Calls[j].sz - map'.sz
            PROVE  Leads(Base, table', Calls[j].va + o, f[j] + o, Calls[j].perm)
        <5>1. CASE j < count \/ o < Calls[j].sz - map.sz
          BY <4>1, <5>1
        <5>2. CASE j = count /\ past <= o
          <6>1. o \in Int /\ o < past + n
            <7>1. Calls[j].sz = sz
              BY <1>8, <5>2 DEF c
            <7>2. o \in Int /\ o < sz - (rest - n)
              BY <2>4, <4>2, <5>2, <7>1
            <7>3. \A y \in Int : y < sz - (rest - n) => y < past + n
              BY <1>8, SMTT(30)
            <7>. QED BY <7>2, <7>3
          <6>2. o - past \in Nat /\ o - past < n
            BY <2>4, <5>2, <6>1
          <6>3. Leads(Base, table', map.va + (o - past), map.pa + (o - past), map.perm)
            BY <2>3, <6>2
          <6>4. (va + past) + (o - past) = va + o /\ (pa + past) + (o - past) = pa + o
            BY <6>1
          <6>5. Leads(Base, table', va + o, pa + o, c.perm)
            BY <1>10, <6>3, <6>4
          <6>. QED BY <1>8, <5>2, <6>5 DEF c
        <5>3. j < count \/ o < Calls[j].sz - map.sz \/ (j = count /\ past <= o)
          <6>1. j = count => o < sz - rest \/ past <= o
            BY <1>8
          <6>. QED BY <1>7, <1>8, <6>1 DEF c
        <5>. QED BY <5>1, <5>2, <5>3
      <4>. QED BY <4>1, <4>2
    <3>. QED BY <3>2, <3>3 DEF Placed
  <2>7. BuildInv'
    BY <1>1, <1>2, <1>5, <1>13, <2>1, <2>5, <2>6 DEF BuildInv
  <2>. QED BY <1>1, <1>3, <1>4, <2>2, <2>7 DEF MapInv
<1>. QED BY <1>12, <1>13, KvmmapStep

\* The region is mapped.
LEMMA KvmmapReturnKeeps ==
    ASSUME MapInv, K!kvmmap_return, UNCHANGED vars PROVE MapInv'
<1>1. /\ kpc = "kvmmap" /\ kpc' = "calls" /\ map.sz = 0
      /\ UNCHANGED <<image, table, setup, kalloc_inited, taken, todo>>
  BY DEF K!kvmmap_return
<1>2. Base' = Base /\ Calls' = Calls /\ K!NewPage' = K!NewPage
  BY <1>1, SamePages
<1>3. Base \in DOMAIN table
  BY <1>1 DEF MapInv, StageInv
<1>4. PagesInv' /\ StageInv'
  BY <1>1, <1>2, <1>3 DEF MapInv, PagesInv, StageInv, vars
<1>5. TemporaryInv'
  BY <1>1, TemporaryOn DEF vars
<1>6. BuildInv'
  <2>1. CASE kalloc_inited
    BY <1>1, <2>1 DEF BuildInv, Building
  <2>2. CASE ~kalloc_inited
    BY <1>1, <1>2, <1>3, <2>2, SMTT(30) DEF MapInv, BuildInv, Building
  <2>. QED BY <2>1, <2>2
<1>7. BuiltInv'
  BY <1>1, <1>2 DEF MapInv, BuiltInv, KernelTableBuilt
<1>. QED BY <1>4, <1>5, <1>6, <1>7 DEF MapInv

\* All calls are made: the kernel's table is complete.
LEMMA LastCallKeeps ==
    ASSUME MapInv, K!last_call, UNCHANGED vars PROVE MapInv'
<1>1. /\ kpc = "calls" /\ Base \in DOMAIN table /\ todo = <<>> /\ kpc' = (IF kalloc_inited THEN "ready" ELSE "done")
      /\ UNCHANGED <<image, table, setup, kalloc_inited, taken, todo, map>>
  BY DEF K!last_call, Base
<1>2. Base' = Base /\ Calls' = Calls /\ K!NewPage' = K!NewPage
  BY <1>1, SamePages
<1>3. PagesInv' /\ StageInv'
  BY <1>1, <1>2 DEF MapInv, PagesInv, StageInv, vars
<1>4. TemporaryInv'
  BY <1>1, TemporaryOn DEF vars
<1>5. BuildInv'
  BY <1>1 DEF BuildInv, Building
<1>6. BuiltInv'
  <2>1. CASE kalloc_inited
    BY <1>1, <1>2, <2>1 DEF MapInv, BuiltInv, KernelTableBuilt
  <2>2. CASE ~kalloc_inited
    <3>1. PICK count \in 0 .. Len(Calls) :
            /\ todo = [k \in 1 .. Len(Calls) - count |-> Calls[count + k]]
            /\ \E f \in [1 .. count -> Int] : Placed(Base, Calls, table, K!NewPage, count, 0, f)
      BY <1>1, <2>2 DEF MapInv, BuildInv, Building
    <3>2. Len(Calls) \in Nat
      BY CallsAre DEF MapInv
    <3>3. count = Len(Calls)
      <4>1. PICK m \in Nat : m = Len(Calls) - count
        BY <3>2, SMTT(30)
      <4>2. [k \in 1 .. m |-> Calls[count + k]] = <<>>
        BY <1>1, <3>1, <4>1
      <4>3. m = 0
        BY <4>2
      <4>. QED BY <3>2, <4>1, <4>3
    <3>. QED BY <1>1, <1>2, <3>1, <3>3 DEF BuiltInv
  <2>. QED BY <2>1, <2>2
<1>. QED BY <1>3, <1>4, <1>5, <1>6 DEF MapInv

\* The page allocator takes over, behind the poisoning.
LEMMA KpgmgrinitKeeps ==
    ASSUME MapInv, K!kpgmgrinit, Boot("platform"), UNCHANGED vars PROVE MapInv'
<1>1. /\ kpc = "done" /\ kpc' = "calls" /\ kalloc_inited' = TRUE /\ UNCHANGED <<image, table, setup, taken, map>>
  BY DEF K!kpgmgrinit
<1>2. Base' = Base /\ Calls' = Calls /\ K!NewPage' = K!NewPage
  BY <1>1, SamePages
<1>3. KernelTableBuilt /\ Base \in DOMAIN table /\ poisoned
  BY <1>1 DEF MapInv, BuiltInv, KernelTableBuilt, StageInv, Boot
<1>4. PagesInv' /\ StageInv'
  BY <1>1, <1>2, <1>3 DEF MapInv, PagesInv, StageInv, vars
<1>5. TemporaryInv' /\ BuildInv'
  BY <1>1, <1>3 DEF TemporaryInv, BuildInv, Building, vars
<1>6. BuiltInv'
  BY <1>1, <1>2, <1>3 DEF MapInv, BuiltInv
<1>. QED BY <1>4, <1>5, <1>6 DEF MapInv

\* What the tables contain while the boot hart builds them and afterwards.
LEMMA NextMapInv == IInv /\ MapInv /\ [BootMapNext]_allVars => MapInv'
<1>. SUFFICES ASSUME IInv, MapInv, [BootMapNext]_allVars PROVE MapInv'
  OBVIOUS
<1>1. CASE RunHarts
  BY <1>1, RunHartsKeeps
<1>2. CASE BuildTables
  BY <1>2, RelocationKeeps, KvmmakeKeeps, NextCallKeeps, KvmmapLaterKeeps, KvmmapFirstKeeps, KvmmapReturnKeeps,
     LastCallKeeps, KpgmgrinitKeeps DEF BuildTables, K!Next
<1>3. CASE UNCHANGED allVars
  <2>1. UNCHANGED vars /\ UNCHANGED <<kpc, image, table, setup, kalloc_inited, taken, todo, map>>
    BY <1>3 DEF allVars, K!mapVars
  <2>2. UNCHANGED <<Base, Calls, K!NewPage>>
    BY <2>1, SamePages
  <2>3. PagesInv' /\ StageInv'
    BY <2>1, <2>2 DEF MapInv, PagesInv, StageInv, vars
  <2>4. TemporaryInv'
    <3>1. UNCHANGED <<Image2M, Temporary, K!relocate_pagetable, K!level1_ident, K!level1_high>>
      BY <2>1, SameImage
    <3>. QED BY <2>1, <3>1 DEF MapInv, TemporaryInv, vars
  <2>5. BuildInv'
    BY <2>1, <2>2 DEF MapInv, BuildInv, Building, InCall
  <2>6. BuiltInv'
    BY <2>1, <2>2 DEF MapInv, BuiltInv, KernelTableBuilt
  <2>. QED BY <2>3, <2>4, <2>5, <2>6 DEF MapInv
<1>. QED BY <1>1, <1>2, <1>3 DEF BootMapNext
-----------------------------------------------------------------------------
\* Through the entry of a large page.
LEMMA LargeTranslate ==
    ASSUME NEW root, NEW l1, NEW va \in Int, NEW pa \in Int, NEW perm, perm # {},
           root \in DOMAIN table, K!PX2(va) \in DOMAIN table[root], table[root][K!PX2(va)].pa = l1,
           l1 \in DOMAIN table, K!PX1(va) \in DOMAIN table[l1], table[l1][K!PX1(va)] = K!Entry(pa, perm)
    PROVE  K!Translate(root, va) = K!Entry(pa + K!PX0(va), perm)
  BY DEF K!Translate, K!Entry

\* An address has one way to be put together from its parts.
LEMMA SameParts ==
    ASSUME NEW i2 \in Int, NEW i1 \in Int, NEW i0 \in Int, NEW j2 \in Int, NEW j1 \in Int, NEW j0 \in Int,
           0 <= i1, i1 <= 511, 0 <= i0, i0 <= 511, 0 <= j1, j1 <= 511, 0 <= j0, j0 <= 511,
           i2 * 262144 + i1 * 512 + i0 = j2 * 262144 + j1 * 512 + j0
    PROVE  i2 = j2 /\ i1 = j1 /\ i0 = j0
<1>1. PICK a \in Int : a = i1 * 512 + i0 /\ 0 <= a /\ a <= 262143
  OBVIOUS
<1>2. PICK b \in Int : b = j1 * 512 + j0 /\ 0 <= b /\ b <= 262143
  OBVIOUS
<1>3. i2 * 262144 + a = j2 * 262144 + b
  BY <1>1, <1>2
<1>4. PICK d \in Int : d = i2 - j2
  OBVIOUS
<1>5. d * 262144 = b - a
  BY <1>3, <1>4
<1>6. d = 0
  <2>1. ~(d >= 1)
    BY ONLY <1>1, <1>2, <1>5
  <2>2. ~(d <= -1)
    BY ONLY <1>1, <1>2, <1>5
  <2>. QED BY <2>1, <2>2
<1>7. i1 * 512 + i0 = j1 * 512 + j0
  BY <1>1, <1>2, <1>5, <1>6
<1>8. PICK e \in Int : e = i1 - j1 /\ e * 512 = j0 - i0
  BY <1>7
<1>9. e = 0
  <2>1. ~(e >= 1)
    BY <1>8
  <2>2. ~(e <= -1)
    BY <1>8
  <2>. QED BY <2>1, <2>2
<1>. QED BY <1>4, <1>6, <1>8, <1>9

\* Page o of the image in the temporary tables, at either of its addresses.
LEMMA TemporaryMaps ==
    ASSUME MapInv, kpc # "start", ~poisoned, NEW x \in Int,
           133693952 <= x, x < 133693952 + (image.text + 1 + image.rodata + image.data)
    PROVE  /\ K!Translate(K!relocate_pagetable, x) = K!Entry(x - 133169152, K!RW \cup {"X"})
           /\ K!Translate(K!relocate_pagetable, x - 133169152) = K!Entry(x - 133169152, K!RW \cup {"X"})
<1>0. PICK o \in Nat :
        /\ o < image.text + 1 + image.rodata + image.data
        /\ x = 133693952 + o /\ x - 133169152 = 524800 + o
  <2> DEFINE y == x - 133693952
  <2>1. /\ y \in Nat /\ y < image.text + 1 + image.rodata + image.data
        /\ x = 133693952 + y /\ x - 133169152 = 524800 + y
    BY ImageSize DEF MapInv
  <2> HIDE DEF y
  <2>. QED BY <2>1
<1>1. PICK n \in Int : n = Image2M /\ o < 512 * n /\ o < 261632
  <2>1. PICK size \in Int : size = image.text + 1 + image.rodata + image.data
    BY ImageSize DEF MapInv
  <2>2. size <= 261632 /\ size <= 512 * Image2M /\ Image2M \in Int
    BY <2>1, ImageSize DEF MapInv
  <2>. QED BY <1>0, <2>1, <2>2
<1> DEFINE q == o \div 512
           r == o % 512
<1>2. o = q * 512 + r /\ 0 <= r /\ r < 512 /\ q \in Int /\ r \in Int
  BY <1>0
<1> HIDE DEF q, r
<1>3. 0 <= q /\ q < n /\ q <= 510
  BY <1>1, <1>2
<1>4. ASSUME NEW va \in Int, va = 524800 + o \/ va = 133693952 + o
      PROVE  /\ va = 524800 + o => K!PX2(va) = 2
             /\ va = 133693952 + o => K!PX2(va) = 510
             /\ K!PX1(va) = 1 + q /\ K!PX0(va) = r
  <2> DEFINE i2 == K!PX2(va)
             i1 == K!PX1(va)
             i0 == K!PX0(va)
  <2>1. i2 \in Int /\ i1 \in 0 .. 511 /\ i0 \in 0 .. 511 /\ va = i2 * 262144 + i1 * 512 + i0
    BY Indices
  <2> HIDE DEF i2, i1, i0
  <2>2. CASE va = 524800 + o
    <3>1. PICK base \in Int : base = 2
      OBVIOUS
    <3>2. i2 * 262144 + i1 * 512 + i0 = base * 262144 + (1 + q) * 512 + r
      BY <1>2, <2>1, <2>2, <3>1
    <3>3. i2 = base /\ i1 = 1 + q /\ i0 = r
      BY <1>2, <1>3, <2>1, <3>2, SameParts
    <3>. QED BY <2>2, <3>1, <3>3 DEF i2, i1, i0
  <2>3. CASE va = 133693952 + o
    <3>1. PICK base \in Int : base = 510
      OBVIOUS
    <3>2. i2 * 262144 + i1 * 512 + i0 = base * 262144 + (1 + q) * 512 + r
      BY <1>2, <2>1, <2>3, <3>1
    <3>3. i2 = base /\ i1 = 1 + q /\ i0 = r
      BY <1>2, <1>3, <2>1, <3>2, SameParts
    <3>. QED BY <2>3, <3>1, <3>3 DEF i2, i1, i0
  <2>. QED BY <1>4, <2>2, <2>3
<1>5. /\ K!KERNEL_PHYS_BASE = 524800 /\ K!KERNEL_VIRT_BASE = 133693952
      /\ K!PX2(K!KERNEL_PHYS_BASE) = 2 /\ K!PX2(K!KERNEL_VIRT_BASE) = 510
      /\ K!PX1(K!KERNEL_PHYS_BASE) = 1 /\ K!PX1(K!KERNEL_VIRT_BASE) = 1
  BY Sizes DEF K!KERNEL_PHYS_BASE, K!KERNEL_VIRT_BASE, K!RISCV_DDR_BASE, K!PX2, K!PX1
<1> DEFINE t == K!Huge(1, 524800, n)
<1>6. /\ K!relocate_pagetable \in DOMAIN table /\ K!level1_ident \in DOMAIN table /\ K!level1_high \in DOMAIN table
      /\ 2 \in DOMAIN table[K!relocate_pagetable] /\ 510 \in DOMAIN table[K!relocate_pagetable]
      /\ table[K!relocate_pagetable][2] = K!Entry(K!level1_ident, {})
      /\ table[K!relocate_pagetable][510] = K!Entry(K!level1_high, {})
      /\ table[K!level1_ident] = t /\ table[K!level1_high] = t
  BY <1>1, <1>5 DEF MapInv, TemporaryInv, Temporary
<1>7. 1 + q \in DOMAIN t /\ t[1 + q] = K!Entry(524800 + q * 512, K!RW \cup {"X"})
  <2>1. q \in 0 .. n - 1 /\ (1 + q) - 1 = q
    BY <1>1, <1>2, <1>3
  <2>2. 1 + q \in {1 + j : j \in 0 .. n - 1}
    BY <2>1
  <2>3. 524800 + ((1 + q) - 1) * 512 = 524800 + q * 512
    BY <2>1
  <2>. QED BY <2>2, <2>3, Sizes DEF K!Huge
<1> HIDE DEF t
<1> DEFINE perm == K!RW \cup {"X"}
<1>8. (524800 + q * 512) + r = 524800 + o /\ perm # {}
  BY <1>2
<1> HIDE DEF perm
<1>9. ASSUME NEW va \in Int, va = 524800 + o \/ va = 133693952 + o
      PROVE  K!Translate(K!relocate_pagetable, va) = K!Entry(524800 + o, perm)
  <2>1. PICK pa \in Int : pa = 524800 + q * 512
    BY <1>2
  <2>2. PICK i : i = 1 + q
    OBVIOUS
  <2>3. K!PX1(va) = i /\ K!PX0(va) = r /\ i \in DOMAIN t /\ t[i] = K!Entry(pa, perm)
    BY <1>4, <1>7, <1>9, <2>1, <2>2 DEF perm
  <2>4. \/ K!PX2(va) = 2 /\ va = 524800 + o
        \/ K!PX2(va) = 510 /\ va = 133693952 + o
    BY <1>4, <1>9
  <2>5. \E l1 \in {K!level1_ident, K!level1_high} :
          /\ K!PX2(va) \in DOMAIN table[K!relocate_pagetable]
          /\ table[K!relocate_pagetable][K!PX2(va)].pa = l1
    BY <1>6, <2>4 DEF K!Entry
  <2>6. PICK l1 \in {K!level1_ident, K!level1_high} :
          /\ K!PX2(va) \in DOMAIN table[K!relocate_pagetable]
          /\ table[K!relocate_pagetable][K!PX2(va)].pa = l1
    BY <2>5
  <2>7. l1 \in DOMAIN table /\ K!PX1(va) \in DOMAIN table[l1] /\ table[l1][K!PX1(va)] = K!Entry(pa, perm)
    BY <1>6, <2>3
  <2>8. K!Translate(K!relocate_pagetable, va) = K!Entry(pa + K!PX0(va), perm)
    BY <1>6, <1>8, <2>6, <2>7, LargeTranslate
  <2>. QED BY <1>8, <2>1, <2>3, <2>8
<1>10. PICK low \in Int : low = x - 133169152 /\ low = 524800 + o
  BY <1>0
<1>. QED BY <1>0, <1>9, <1>10 DEF perm

\* Where the sections are, as numbers.
LEMMA ImageNumbers ==
    ASSUME PagesInv
    PROVE  /\ image.text \in Nat /\ image.rodata \in Nat /\ image.data \in Nat /\ image.text > 0 /\ image.data > 0
           /\ K!s_text = 133693952 /\ K!trampoline = 133693952 + image.text
           /\ K!s_data = K!trampoline + 1 + image.rodata
           /\ K!e_bss = 133693952 + (image.text + 1 + image.rodata + image.data)
           /\ K!KERNEL_OFFSET = 133169152
  BY ImageSize

\* The image through the temporary tables.
LEMMA TemporaryImage ==
    ASSUME MapInv, kpc # "start", ~poisoned
    PROVE  /\ ImageMapped(K!relocate_pagetable)
           /\ \A va \in Code : Fetches(K!relocate_pagetable, K!KIVA_TO_PA(va), K!KIVA_TO_PA(va))
           /\ \A va \in Variables : Stores(K!relocate_pagetable, K!KIVA_TO_PA(va), K!KIVA_TO_PA(va))
<1> DEFINE text == image.text
           rodata == image.rodata
           data == image.data
<1>1. /\ text \in Nat /\ rodata \in Nat /\ data \in Nat /\ text > 0 /\ data > 0
      /\ K!s_text = 133693952 /\ K!trampoline = 133693952 + text
      /\ K!s_data = K!trampoline + 1 + rodata /\ K!e_bss = 133693952 + (text + 1 + rodata + data)
      /\ K!KERNEL_OFFSET = 133169152
  BY ImageNumbers DEF MapInv
<1> HIDE DEF text, rodata, data
<1>2. ASSUME NEW va \in Code \cup Variables
      PROVE  /\ K!Translate(K!relocate_pagetable, va) = K!Entry(K!KIVA_TO_PA(va), K!RW \cup {"X"})
             /\ K!Translate(K!relocate_pagetable, K!KIVA_TO_PA(va)) = K!Entry(K!KIVA_TO_PA(va), K!RW \cup {"X"})
  <2>1. va \in {133693952, 133693952 + text - 1, 133693952 + text + 1 + rodata, 133693952 + (text + 1 + rodata + data) - 1}
    BY <1>1 DEF Code, Variables
  <2>2. va \in Int /\ 133693952 <= va /\ va < 133693952 + (text + 1 + rodata + data)
    BY <1>1, <2>1
  <2>3. K!KIVA_TO_PA(va) = va - 133169152
    BY <1>1, <2>2 DEF K!KIVA_TO_PA
  <2>. QED BY <2>2, <2>3, TemporaryMaps DEF text, rodata, data
<1>3. ASSUME NEW va \in Code \cup Variables
      PROVE  /\ Fetches(K!relocate_pagetable, va, K!KIVA_TO_PA(va))
             /\ Fetches(K!relocate_pagetable, K!KIVA_TO_PA(va), K!KIVA_TO_PA(va))
             /\ Stores(K!relocate_pagetable, va, K!KIVA_TO_PA(va))
             /\ Stores(K!relocate_pagetable, K!KIVA_TO_PA(va), K!KIVA_TO_PA(va))
  BY <1>2 DEF Fetches, Stores, K!Entry, K!RW
<1>. QED BY <1>3 DEF ImageMapped

\* What a call of kvmmap maps, once the kernel's table is complete.
LEMMA CallTranslates ==
    ASSUME MapInv, KernelTableBuilt, NEW f \in [1 .. Len(Calls) -> Int],
           Placed(Base, Calls, table, K!NewPage, Len(Calls), 0, f),
           NEW j \in 1 .. Len(Calls), NEW va \in Int, Calls[j].va <= va, va < Calls[j].va + Calls[j].sz
    PROVE  K!Translate(Base, va) = K!Entry(f[j] + (va - Calls[j].va), Calls[j].perm)
<1>1. Calls \in Seq(CallRegion) /\ Calls[j] \in CallRegion
  BY CallsAre DEF MapInv
<1>2. PICK first, sz \in Int : first = Calls[j].va /\ sz = Calls[j].sz
  BY <1>1 DEF CallRegion
<1>3. PICK o \in Int : o = va - first /\ o \in 0 .. sz - 1 /\ va = first + o
  <2> DEFINE y == va - first
  <2>1. y \in Int /\ y = va - first /\ y \in 0 .. sz - 1 /\ va = first + y
    BY <1>2
  <2> HIDE DEF y
  <2>. QED BY <2>1
<1>4. o \in 0 .. Calls[j].sz - 1 /\ o < Calls[j].sz - 0
  <2>1. o \in 0 .. sz - 1 /\ o < sz - 0
    BY <1>3
  <2>. QED BY <1>2, <2>1
<1>5. Leads(Base, table, Calls[j].va + o, f[j] + o, Calls[j].perm)
  BY <1>4 DEF Placed
<1>6. PICK pa \in Int : pa = f[j] + o /\ pa = f[j] + (va - first)
  BY <1>3
<1>7. Leads(Base, table, va, pa, Calls[j].perm)
  BY <1>2, <1>3, <1>5, <1>6
<1>8. K!Translate(Base, va) = K!Entry(pa, Calls[j].perm)
  BY <1>7, LeadsTranslates
<1>. QED BY <1>2, <1>6, <1>8

\* The image through the kernel's table.
LEMMA KernelImage ==
    ASSUME MapInv, KernelTableBuilt
    PROVE  ImageMapped(K!kernel_pagetable)
<1>1. PICK f \in [1 .. Len(Calls) -> Int] : Placed(Base, Calls, table, K!NewPage, Len(Calls), 0, f)
  BY DEF MapInv, BuiltInv
<1>2. /\ Len(Calls) = 2 * NCPU + 7 /\ 1 \in 1 .. Len(Calls) /\ 3 \in 1 .. Len(Calls)
      /\ Calls[1] = K!Region(K!s_text, K!KIVA_TO_PA(K!s_text), image.text, K!RX)
      /\ Calls[3] = K!Region(K!s_data, K!KIVA_TO_PA(K!s_data), image.data, K!RW)
  BY CallsAre, NCPUAssumption DEF MapInv
<1> DEFINE text == image.text
           rodata == image.rodata
           data == image.data
<1>3. /\ text \in Nat /\ rodata \in Nat /\ data \in Nat /\ text > 0 /\ data > 0
      /\ K!s_text = 133693952 /\ K!trampoline = 133693952 + text
      /\ K!s_data = K!trampoline + 1 + rodata /\ K!e_bss = 133693952 + (text + 1 + rodata + data)
      /\ K!KERNEL_OFFSET = 133169152
  BY ImageNumbers DEF MapInv
<1> HIDE DEF text, rodata, data
<1>4. K!s_text \in Int /\ K!s_data \in Int /\ K!e_bss = K!s_data + data /\ \A va \in Int : K!KIVA_TO_PA(va) = va - 133169152
  BY <1>3 DEF K!KIVA_TO_PA
<1>5. ASSUME NEW va \in Code PROVE Fetches(Base, va, K!KIVA_TO_PA(va))
  <2>1. va \in Int /\ K!s_text <= va /\ va < K!s_text + text
    BY <1>3, <1>4 DEF Code
  <2>2. PICK first, pa \in Int : first = K!s_text /\ pa = K!KIVA_TO_PA(K!s_text) /\ pa = first - 133169152 /\ pa # -1
    BY <1>3, <1>4
  <2>3. Calls[1].va = first /\ Calls[1].pa = pa /\ Calls[1].sz = text /\ Calls[1].perm = K!RX
    BY <1>2, <2>2 DEF K!Region, text
  <2>4. f[1] = pa
    BY <1>1, <1>2, <2>2, <2>3 DEF Placed, K!Fresh
  <2>5. K!Translate(Base, va) = K!Entry(f[1] + (va - first), K!RX)
    <3>1. PICK j \in 1 .. Len(Calls) : j = 1
      BY <1>2
    <3>2. Calls[j].va = first /\ Calls[j].perm = K!RX /\ va \in Int /\ Calls[j].va <= va /\ va < Calls[j].va + Calls[j].sz
      BY <2>1, <2>2, <2>3, <3>1
    <3>3. K!Translate(Base, va) = K!Entry(f[j] + (va - Calls[j].va), Calls[j].perm)
      BY <1>1, <3>2, CallTranslates
    <3>. QED BY <3>1, <3>2, <3>3
  <2>6. pa + (va - first) = K!KIVA_TO_PA(va)
    <3>1. pa + (va - first) = va - 133169152
      BY <2>1, <2>2
    <3>. QED BY <1>4, <2>1, <3>1
  <2>7. K!Translate(Base, va) = K!Entry(K!KIVA_TO_PA(va), K!RX)
    BY <2>4, <2>5, <2>6
  <2>. QED BY <2>7 DEF Fetches, K!Entry, K!RX
<1>6. ASSUME NEW va \in Variables PROVE Stores(Base, va, K!KIVA_TO_PA(va))
  <2>1. va \in Int /\ K!s_data <= va /\ va < K!s_data + data
    BY <1>3, <1>4, SMTT(30) DEF Variables
  <2>2. PICK first, pa \in Int : first = K!s_data /\ pa = K!KIVA_TO_PA(K!s_data) /\ pa = first - 133169152 /\ pa # -1
    BY <1>3, <1>4, SMTT(30)
  <2>3. Calls[3].va = first /\ Calls[3].pa = pa /\ Calls[3].sz = data /\ Calls[3].perm = K!RW
    BY <1>2, <2>2 DEF K!Region, data
  <2>4. f[3] = pa
    BY <1>1, <1>2, <2>2, <2>3 DEF Placed, K!Fresh
  <2>5. K!Translate(Base, va) = K!Entry(f[3] + (va - first), K!RW)
    BY <1>1, <1>2, <2>1, <2>2, <2>3, CallTranslates, SMTT(30)
  <2>6. pa + (va - first) = K!KIVA_TO_PA(va)
    <3>1. pa + (va - first) = va - 133169152
      BY <2>1, <2>2
    <3>. QED BY <1>4, <2>1, <3>1
  <2>7. K!Translate(Base, va) = K!Entry(K!KIVA_TO_PA(va), K!RW)
    BY <2>4, <2>5, <2>6
  <2>. QED BY <2>7 DEF Stores, K!Entry, K!RW
<1>. QED BY <1>5, <1>6 DEF ImageMapped, Base

\* A page of a scheduler stack, and the pages of the others.
LEMMA KernelStacks ==
    ASSUME MapInv, KernelTableBuilt, NEW cpu \in Hart, NEW va \in StackPage(cpu)
    PROVE  /\ Stores(Base, va, K!Translate(Base, va).pa)
           /\ \A other \in Hart : \A page \in StackPage(other) \ {va} :
                 K!Translate(Base, page).pa # K!Translate(Base, va).pa
<1>1. PICK f \in [1 .. Len(Calls) -> Int] : Placed(Base, Calls, table, K!NewPage, Len(Calls), 0, f)
  BY DEF MapInv, BuiltInv
<1>2. /\ Len(Calls) = 2 * NCPU + 7
      /\ \A k \in 1 .. 2 * NCPU : Calls[k + 6] = K!Region(K!sched_stack((k - 1) \div 2) + ((k - 1) % 2), K!Fresh, 1, K!RW)
  BY CallsAre DEF MapInv
<1>3. \A c \in Hart : K!sched_stack(c) \in Int
  BY Sizes, NCPUAssumption DEF K!sched_stack, K!KERNEL_STACK_SCHED, K!KERNEL_STACK_SIZE, Hart
<1>4. ASSUME NEW c \in Hart, NEW page \in StackPage(c)
      PROVE  \E i \in 7 .. Len(Calls) : /\ Calls[i] = K!Region(page, K!Fresh, 1, K!RW)
                                        /\ K!Translate(Base, page) = K!Entry(f[i], K!RW)
  <2>1. PICK j \in Int : (j = 0 \/ j = 1) /\ page = K!sched_stack(c) + j
    BY DEF StackPage, K!KERNEL_STACK_SIZE
  <2>2. c \in Int /\ 0 <= c /\ c < NCPU /\ NCPU \in Int
    BY NCPUAssumption DEF Hart
  <2> DEFINE k == 2 * c + j + 1
  <2>3. k \in 1 .. 2 * NCPU /\ (k - 1) \div 2 = c /\ (k - 1) % 2 = j /\ k + 6 \in 7 .. Len(Calls)
    BY <1>2, <2>1, <2>2
  <2> HIDE DEF k
  <2>4. Calls[k + 6] = K!Region(page, K!Fresh, 1, K!RW)
    BY <1>2, <2>1, <2>3
  <2>5. PICK i \in 7 .. Len(Calls) : i = k + 6 /\ Calls[i] = K!Region(page, K!Fresh, 1, K!RW)
    BY <2>3, <2>4
  <2>6. page \in Int /\ i \in 1 .. Len(Calls)
    BY <1>2, <1>3, <2>1, <2>2
  <2>7. Calls[i].va = page /\ Calls[i].sz = 1 /\ Calls[i].perm = K!RW
    BY <2>5 DEF K!Region
  <2>8. K!Translate(Base, page) = K!Entry(f[i] + (page - page), K!RW)
    BY <1>1, <2>6, <2>7, CallTranslates
  <2>9. f[i] + (page - page) = f[i]
    BY <2>6
  <2>. QED BY <2>5, <2>8, <2>9
<1>5. PICK i \in 7 .. Len(Calls) : Calls[i] = K!Region(va, K!Fresh, 1, K!RW) /\ K!Translate(Base, va) = K!Entry(f[i], K!RW)
  BY <1>4
<1>6. Stores(Base, va, K!Translate(Base, va).pa)
  BY <1>5 DEF Stores, K!Entry, K!RW
<1>7. ASSUME NEW other \in Hart, NEW page \in StackPage(other) \ {va}
      PROVE  K!Translate(Base, page).pa # K!Translate(Base, va).pa
  <2>1. PICK m \in 7 .. Len(Calls) : Calls[m] = K!Region(page, K!Fresh, 1, K!RW) /\ K!Translate(Base, page) = K!Entry(f[m], K!RW)
    BY <1>4
  <2>2. m # i
    BY <1>5, <2>1 DEF K!Region
  <2>3. i \in Int /\ m \in Int /\ i \in 1 .. Len(Calls) /\ m \in 1 .. Len(Calls) /\ f[i] \in Int /\ f[m] \in Int
    BY <1>2, NCPUAssumption
  <2>4. Calls[i].pa = K!Fresh /\ Calls[m].pa = K!Fresh
    BY <1>5, <2>1 DEF K!Region
  <2>5. \A x \in 1 .. Len(Calls) : Calls[x].pa = K!Fresh =>
           \A y \in 1 .. x - 1 : Calls[y].pa = K!Fresh => f[y] < f[x]
    BY <1>1 DEF Placed
  <2>6. m < i => f[m] < f[i]
    BY <2>3, <2>4, <2>5
  <2>7. i < m => f[i] < f[m]
    BY <2>3, <2>4, <2>5
  <2>8. f[m] # f[i]
    BY <2>2, <2>3, <2>6, <2>7
  <2>. QED BY <1>5, <2>1, <2>8 DEF K!Entry
<1>. QED BY <1>6, <1>7

\* Every hart finds its code, its variables and its stack through the table that it uses,
\* for any image that the temporary tables can hold, any memory and any number of harts.
THEOREM HartsFindTheirPages == BootMapSpec => []HartsMapped
<1>1. IInv /\ MapInv /\ SatpIntact => HartsMapped
  <2>. SUFFICES ASSUME IInv, MapInv, SatpIntact PROVE HartsMapped
    OBVIOUS
  <2>1. ASSUME (kpc \in {"calls", "kvmmap"} /\ ~kalloc_inited) \/ (KernelTableBuilt /\ TemporaryUsed)
        PROVE  kpc # "start" /\ ~poisoned
    <3>1. CASE kpc \in {"calls", "kvmmap"} /\ ~kalloc_inited
      BY <3>1 DEF MapInv, StageInv
    <3>2. CASE KernelTableBuilt /\ TemporaryUsed
      BY <3>2 DEF MapInv, StageInv, BuiltInv, SatpIntact, TemporaryUsed, K!Empty
    <3>. QED BY <2>1, <3>1, <3>2
  <2>2. ASSUME KernelTableBuilt, NEW h \in Hart, NEW va \in StackPage(tp[h])
        PROVE  /\ Stores(K!kernel_pagetable, va, K!Translate(K!kernel_pagetable, va).pa)
               /\ \A cpu \in Hart : \A other \in StackPage(cpu) \ {va} :
                     K!Translate(K!kernel_pagetable, other).pa # K!Translate(K!kernel_pagetable, va).pa
    <3>1. tp[h] \in Hart
      BY DEF IInv, TypeOK
    <3>. QED BY <2>2, <3>1, KernelStacks DEF Base
  <2>. QED BY <2>1, <2>2, TemporaryImage, KernelImage DEF HartsMapped
<1>2. BootMapSpec => [](IInv /\ SatpIntact)
  BY BootMapIsBoot, Inductive, SatpIsIntact, PTL
<1>3. BootMapInit => MapInv
  BY InitMapInv
<1>4. IInv /\ MapInv /\ [BootMapNext]_allVars => MapInv'
  BY NextMapInv
<1>. QED BY <1>1, <1>2, <1>3, <1>4, PTL DEF BootMapSpec
====
