---- MODULE BootMap ----
\* The boot with its page tables: the boot hart builds them (KernelMap.tla), then the
\* harts come up on them (Boot.tla).  satp in Boot names a table; here it is one of the
\* tables in memory, with what it contains at that moment.
EXTENDS Boot, Sequences

CONSTANTS Layouts, PHYS_MEM_SIZE, PLIC_SIZE, Pools, NPROC
VARIABLES kpc, image, table, setup, kalloc_inited, taken, todo, map

K == INSTANCE KernelMap

ASSUME LayoutAssumption ==
    /\ PHYS_MEM_SIZE \in Nat /\ PLIC_SIZE \in Nat /\ NPROC \in Nat /\ Pools \in Seq(Nat)
    /\ Layouts \subseteq [text : Nat \ {0}, rodata : Nat, data : Nat \ {0}]
    \* The image fits the one table level1_high, from the index of KERNEL_VIRT_BASE, 1, on.
    /\ \A l \in Layouts : l.text + 1 + l.rodata + l.data <= 511 * 512

allVars == <<vars, K!mapVars>>

\* The four static tables; Boot's poison fills them with 0xde.
Temporary == {K!relocate_pagetable, K!level1_ident, K!level1_direct_mapping, K!level1_high}

BootMapInit == Init /\ K!Init

\* The tables before the harts are started, and what bootcpu_init adds for the allocators
\* and the processes before the rest of the platform step.
BuildTables ==
    /\ K!Next \/ (Boot("platform") /\ K!kpgmgrinit)
    /\ UNCHANGED vars

RunHarts ==
    /\ kpc = "done" \/ kalloc_inited
    /\ Next
    /\ platform' # platform => kpc = "ready"
    /\ table' = IF poisoned' THEN [pg \in DOMAIN table \ Temporary |-> table[pg]] ELSE table
    /\ UNCHANGED <<kpc, image, setup, kalloc_inited, taken, todo, map>>

BootMapNext == BuildTables \/ RunHarts

BootMapSpec ==
    /\ BootMapInit /\ [][BootMapNext]_allVars
    /\ WF_allVars(BuildTables) /\ WF_allVars(RunHarts /\ BootCpu)
    /\ \A h \in Secondary : WF_allVars(RunHarts /\ SecondaryCpu(h))
-----------------------------------------------------------------------------
\* An access through a table reaches the page it is meant for, and does not fault for
\* want of a permission or of the A and D bits.
Fetches(root, va, pa) == LET e == K!Translate(root, va) IN e.pa = pa /\ {"A", "X"} \subseteq e.perm
Stores(root, va, pa) == LET e == K!Translate(root, va) IN e.pa = pa /\ {"A", "D", "R", "W"} \subseteq e.perm

\* First and last pages of the kernel's code, and of its data with the boot stack.
Code == {K!s_text, K!trampoline - 1}
Variables == {K!s_data, K!e_bss - 1}

ImageMapped(root) ==
    /\ \A va \in Code : Fetches(root, va, K!KIVA_TO_PA(va))
    /\ \A va \in Variables : Stores(root, va, K!KIVA_TO_PA(va))

\* The pages of the stacks that kvmmake has mapped.
StackPage(cpu) == {K!sched_stack(cpu) + j : j \in 0 .. K!KERNEL_STACK_SIZE - 1}

KernelTableBuilt == kpc = "done" \/ kalloc_inited

\* The temporary table is the one a hart has in satp, or one that a hart may still walk
\* from its cache, not yet overwritten.
TemporaryUsed == \E h \in Hart : satp[h] = "relocate" \/ ("relocate" \in tlb[h] /\ ~poisoned)

\* Every hart that runs finds its code, its variables and its stack through the table it
\* uses: the boot hart while it builds the tables, a secondary hart between the address
\* it was started at and its scheduler.  (What it may find in entries of the temporary
\* table that it has cached and that have been overwritten: see TableInUseIntact.)  The
\* temporary table has the image at the physical address as well, for the instructions
\* before the jump, and the pages that kvmmake takes; a scheduler stack belongs to one cpu
\* alone.
HartsMapped ==
    /\ (kpc \in {"calls", "kvmmap"} /\ ~kalloc_inited) \/ (KernelTableBuilt /\ TemporaryUsed) =>
         /\ ImageMapped(K!relocate_pagetable)
         /\ \A va \in Code : Fetches(K!relocate_pagetable, K!KIVA_TO_PA(va), K!KIVA_TO_PA(va))
         /\ \A va \in Variables : Stores(K!relocate_pagetable, K!KIVA_TO_PA(va), K!KIVA_TO_PA(va))
    /\ KernelTableBuilt =>
         /\ ImageMapped(K!kernel_pagetable)
         /\ \A h \in Hart : satp[h] = "kernel" /\ sp[h] = "sched" =>
              \A va \in StackPage(tp[h]) :
                 /\ Stores(K!kernel_pagetable, va, K!Translate(K!kernel_pagetable, va).pa)
                 /\ \A cpu \in Hart : \A other \in StackPage(cpu) \ {va} :
                       K!Translate(K!kernel_pagetable, other).pa # K!Translate(K!kernel_pagetable, va).pa

\* Pages taken before kpgmgrinit are the kernel's for ever: they can be written through
\* the table in use, and they, the image and the scheduler stacks are not among the pages
\* of the page allocator, which are all in memory and in the direct mapping.
SetupPagesOwn ==
    LET direct(pa) == K!KERNEL_DIRECT_MAPPING_BASE + pa
        root == IF KernelTableBuilt THEN K!kernel_pagetable ELSE K!relocate_pagetable
        lo == K!kpage_allocator_base
        hi == lo + K!kpage_allocator_size - 1 IN
    /\ \A pg \in DOMAIN table \ Temporary : Stores(root, direct(pg), pg)
    /\ KernelTableBuilt =>
         /\ ~kalloc_inited => \A pg \in DOMAIN table : pg \notin lo .. hi
         /\ \A cpu \in Hart : \A va \in StackPage(cpu) : K!Translate(root, va).pa \notin lo .. hi
         /\ K!KIVA_TO_PA(K!e_bss) <= lo /\ hi < K!RISCV_DDR_BASE + PHYS_MEM_SIZE
         /\ \A pg \in {lo, hi} : Stores(root, direct(pg), pg)

\* Mapping never meets what is mapped already nor runs out of setup pages, and the kernel's
\* table maps what kvmmake, the allocators and the processes ask for, page by page and
\* with its permissions, and nothing else: no page of the image is both writable and
\* executable, below and above every stack is a page that faults, and a page taken for
\* one stack or pool is in no other, nor a table.
KernelTableExact ==
    LET calls == K!kvmmake_calls \o (IF kpc = "ready" THEN K!platform_calls ELSE <<>>)
        Mapped == {calls[k] : k \in {k \in DOMAIN calls : calls[k].sz > 0}}
        Asked(va) == {r \in Mapped : va \in r.va .. r.va + r.sz - 1}
        Around == UNION {{r.va - 1, r.va, r.va + r.sz - 1, r.va + r.sz} : r \in Mapped} \cup K!s_text .. K!e_bss
        Own == {r.va : r \in {r \in Mapped : r.pa = K!Fresh}}
        Page(va) == K!Translate(K!kernel_pagetable, va).pa
    IN
    /\ kpc # "panic"
    /\ SetupPagesOwn
    /\ (kpc = "done" /\ Boot("next") /\ hartid = 0) \/ (kpc = "ready" /\ Boot("platform")) =>
         /\ \A va \in Around :
              LET e == K!Translate(K!kernel_pagetable, va) IN
              IF Asked(va) = {} THEN e = K!NoMap
              ELSE \A r \in Asked(va) :
                      /\ e.perm = r.perm
                      /\ r.pa # K!Fresh => e.pa = r.pa + (va - r.va)
         /\ \A va \in Own : Page(va) \notin {Page(other) : other \in Own \ {va}} \cup DOMAIN table
====
