---- MODULE KernelMap ----
\* The page tables of the kernel: the temporary one that the boot hart relocates itself
\* with (bootcpu_start_relocation, os/main.c) and the final one (kvm_init, kvmmake and
\* kvmmap, os/kvm.c), built from pages that nobody has given out yet; then the pools of the
\* object allocators (allocator_init, os/kalloc.c) and the kernel stacks of the processes
\* (proc_init, os/proc.c), on pages of the page allocator.
\*
\* Addresses are page numbers, in the layout of os/memlayout.h without change of scale;
\* the sizes of the linker's sections are the parameters.  A table is a function from the
\* indices with a valid entry to entries; an entry with permissions is a leaf.
EXTENDS Integers, SequencesExt

CONSTANTS
    NCPU,           \* harts
    Layouts,        \* possible images: text, rodata, data with bss, in pages
    PHYS_MEM_SIZE,  \* in pages
    PLIC_SIZE,      \* KERNEL_PLIC_SIZE in pages
    Pools,          \* the pools of mm_allocator, vma_allocator and proc_allocator, in pages
    NPROC           \* processes

E2M == 512                      \* PGSIZE_2M, and the entries of a table
E1G == E2M * E2M

\* os/memlayout.h; the upper half of the address space begins at page 256 * E1G.
RISCV_DDR_BASE == 2 * E1G
KERNEL_PHYS_BASE == RISCV_DDR_BASE + E2M
KERNEL_VIRT_BASE == 510 * E1G + E2M
KERNEL_OFFSET == KERNEL_VIRT_BASE - KERNEL_PHYS_BASE
KERNEL_DIRECT_MAPPING_BASE == 256 * E1G
KERNEL_ALLOCATOR_BASE == 500 * E1G
KERNEL_ALLOCATOR_GAP == 8 * E2M
KERNEL_STACK_PROCS == 504 * E1G
KERNEL_STACK_SCHED == 512 * E1G - 8 * E2M
KERNEL_STACK_SIZE == 2
KERNEL_PLIC_BASE == 511 * E1G + 128 * E2M
KERNEL_UART0_BASE == KERNEL_PLIC_BASE + PLIC_SIZE
TRAMPOLINE == 256 * E1G - 1
UART0_PHYS == 65536
PLIC_PHYS == 49152

VARIABLES
    kpc,            \* the boot hart: "start", "calls", "kvmmap", "done", "ready" or "panic"
    image,          \* the sizes of the sections
    table,          \* the page tables in memory, by page
    setup,          \* init_page_allocator, as pages taken from its base
    kalloc_inited,  \* kpgmgrinit has run
    taken,          \* pages that kallocpage has handed out
    todo,           \* the calls of kvmmap still to be made
    map             \* the arguments of the present one: vaddr, paddr, sz, perm
mapVars == <<kpc, image, table, setup, kalloc_inited, taken, todo, map>>

\* The sections as the linker script lays them out.  e_text is before the page of the
\* trampoline, and s_rodata behind it.
s_text == KERNEL_VIRT_BASE
trampoline == s_text + image.text
s_rodata == trampoline + 1
s_data == s_rodata + image.rodata
e_bss == s_data + image.data
KIVA_TO_PA(va) == va - KERNEL_OFFSET
ROUNDUP_2N(n, unit) == ((n + unit - 1) \div unit) * unit
kernel_image_end_2M == KERNEL_PHYS_BASE + ROUNDUP_2N(e_bss - s_text, E2M)
init_page_allocator_base == kernel_image_end_2M

\* The four static pages of main.c, in bss.
relocate_pagetable == KIVA_TO_PA(e_bss) - 4
level1_ident == relocate_pagetable + 1
level1_direct_mapping == relocate_pagetable + 2
level1_high == relocate_pagetable + 3

Region(va, pa, sz, perm) == [va |-> va, pa |-> pa, sz |-> sz, perm |-> perm]
RW == {"A", "D", "R", "W"}
RX == {"A", "R", "X"}
Fresh == -1         \* a physical address still to be allocated

sched_stack(cpu) == KERNEL_STACK_SCHED + cpu * 2 * KERNEL_STACK_SIZE
stack_pages ==
    [k \in 1 .. NCPU * KERNEL_STACK_SIZE |->
        Region(sched_stack((k - 1) \div KERNEL_STACK_SIZE) + ((k - 1) % KERNEL_STACK_SIZE), Fresh, 1, RW)]

\* The calls of kvmmap, in the order of kvmmake.
kvmmake_calls ==
    << Region(s_text, KIVA_TO_PA(s_text), image.text, RX),
       Region(s_rodata, KIVA_TO_PA(s_rodata), image.rodata, {"A", "R"}),
       Region(s_data, KIVA_TO_PA(s_data), image.data, RW),
       Region(TRAMPOLINE, KIVA_TO_PA(trampoline), 1, RX),
       Region(KERNEL_PLIC_BASE, PLIC_PHYS, PLIC_SIZE, RW),
       Region(KERNEL_UART0_BASE, UART0_PHYS, 1, RW) >>
    \o stack_pages
    \o << Region(KERNEL_DIRECT_MAPPING_BASE + kernel_image_end_2M, kernel_image_end_2M,
                 PHYS_MEM_SIZE - (kernel_image_end_2M - RISCV_DDR_BASE), RW) >>

\* Pages that are taken and mapped nowhere else: the bitmap of an allocator, and the first
\* trapframe of a process, which allocproc replaces.
JustTaken == Region(0, Fresh, 0, {})

\* allocator_mapped_va when the k-th allocator is initialised.
pool_base(k) ==
    KERNEL_ALLOCATOR_BASE + FoldSet(LAMBDA j, sum : sum + ROUNDUP_2N(Pools[j], KERNEL_ALLOCATOR_GAP), 0, 1 .. k - 1)

allocator_init(k) == [j \in 1 .. Pools[k] |-> Region(pool_base(k) + j - 1, Fresh, 1, RW)] \o <<JustTaken>>

proc_kstack(i) == KERNEL_STACK_PROCS + i * 2 * KERNEL_STACK_SIZE
proc_init(i) ==
    [j \in 1 .. KERNEL_STACK_SIZE |-> Region(proc_kstack(i) + j - 1, Fresh, 1, RW)] \o <<JustTaken>>

\* The calls of uvm_init and proc_init, in their order.
platform_calls ==
    FlattenSeq([k \in 1 .. Len(Pools) |-> allocator_init(k)])
    \o FlattenSeq([i \in 1 .. NPROC |-> proc_init(i - 1)])

kernel_pagetable == init_page_allocator_base        \* the first page that is taken

kpage_allocator_base == init_page_allocator_base + setup
kpage_allocator_size == PHYS_MEM_SIZE - (kernel_image_end_2M - RISCV_DDR_BASE) - setup

PX2(va) == va \div E1G
PX1(va) == (va \div E2M) % E2M
PX0(va) == va % E2M
Entry(pa, perm) == [pa |-> pa, perm |-> perm]
Empty == [x \in {} |-> x]

\* Table f with entry e at x; memory with table e at page x.
With(f, x, e) == [y \in DOMAIN f \cup {x} |-> IF y = x THEN e ELSE f[y]]

\* What the hardware makes of an address; NoMap is a page fault.
NoMap == [pa |-> -1, perm |-> {}]
Translate(root, va) ==
    LET Walk(pg, index) ==
            IF pg \in DOMAIN table /\ index \in DOMAIN table[pg] THEN table[pg][index] ELSE NoMap
        e1 == Walk(Walk(root, PX2(va)).pa, PX1(va))
        e0 == Walk(e1.pa, PX0(va))
    IN IF e1.perm # {} THEN [e1 EXCEPT !.pa = @ + PX0(va)] ELSE e0

Init ==
    /\ kpc = "start"
    /\ image \in Layouts
    /\ table = Empty
    /\ setup = 0 /\ kalloc_inited = FALSE /\ taken = 0 /\ todo = <<>> /\ map = Region(0, 0, 0, {})
-----------------------------------------------------------------------------
\* Mutant of Huge: the last 2 MiB of the image are left out.
Huge_short(index, pa, n) ==
    [k \in {index + j : j \in 0 .. n - 2} |-> Entry(pa + (k - index) * E2M, RW \cup {"X"})]

\* n entries for 2 MiB each.
Huge(index, pa, n) ==
    [k \in {index + j : j \in 0 .. n - 1} |-> Entry(pa + (k - index) * E2M, RW \cup {"X"})]

\* bootcpu_start_relocation: the image at its physical and at its high address, and
\* 2 MiB behind it in the direct mapping, which kvmmake takes its pages from.
bootcpu_start_relocation ==
    LET n == (kernel_image_end_2M - KERNEL_PHYS_BASE) \div E2M
        la == KERNEL_DIRECT_MAPPING_BASE + kernel_image_end_2M
        ident == With(Empty, PX2(KERNEL_PHYS_BASE), Entry(level1_ident, {}))
        high == With(ident, PX2(KERNEL_VIRT_BASE), Entry(level1_high, {}))
        static == With(Empty, relocate_pagetable, With(high, PX2(la), Entry(level1_direct_mapping, {})))
        images == With(With(static, level1_ident, Huge(PX1(KERNEL_PHYS_BASE), KERNEL_PHYS_BASE, n)),
                       level1_high, Huge(PX1(KERNEL_VIRT_BASE), KERNEL_PHYS_BASE, n)) IN
    /\ kpc = "start"
    /\ table' = With(images, level1_direct_mapping, With(Empty, PX1(la), Entry(kernel_image_end_2M, RW)))
    /\ kpc' = "calls"
    /\ UNCHANGED <<image, setup, kalloc_inited, taken, todo, map>>

\* n pages of allocsetuppage or, once kpgmgrinit has run, of kallocpage: freerange puts the
\* lowest page first, so the two continue each other.
NewPage == init_page_allocator_base + setup + taken
allockernelpage(n) ==
    IF kalloc_inited THEN taken' = taken + n /\ UNCHANGED setup
                     ELSE setup' = setup + n /\ UNCHANGED taken

\* kvmmake begins: the root table.
kvmmake ==
    /\ kpc = "calls" /\ kernel_pagetable \notin DOMAIN table
    /\ table' = With(table, kernel_pagetable, Empty)
    /\ setup' = 1
    /\ todo' = kvmmake_calls
    /\ UNCHANGED <<kpc, image, kalloc_inited, taken, map>>

\* The next call of kvmmap, with a page where one is needed.
next_call ==
    /\ kpc = "calls" /\ todo # <<>>
    /\ map' = IF Head(todo).pa = Fresh THEN [Head(todo) EXCEPT !.pa = NewPage] ELSE Head(todo)
    /\ allockernelpage(IF Head(todo).pa = Fresh THEN 1 ELSE 0)
    /\ todo' = Tail(todo)
    /\ kpc' = "kvmmap"
    /\ UNCHANGED <<image, table, kalloc_inited>>

\* Behind the last one: kvm_init loads satp, or the processes are ready.
last_call ==
    /\ kpc = "calls" /\ kernel_pagetable \in DOMAIN table /\ todo = <<>>
    /\ kpc' = IF kalloc_inited THEN "ready" ELSE "done"
    /\ UNCHANGED <<image, table, setup, kalloc_inited, taken, todo, map>>

\* kpgmgrinit, then uvm_init and proc_init.
kpgmgrinit ==
    /\ kpc = "done"
    /\ kalloc_inited' = TRUE
    /\ todo' = platform_calls
    /\ kpc' = "calls"
    /\ UNCHANGED <<image, table, setup, taken, map>>

\* Mutant of Below: a table that is there is replaced.
Below_anew(t, pg, index, new) ==
    [t |-> With([t EXCEPT ![pg] = With(@, index, Entry(new, {}))], new, Empty), pg |-> new, n |-> 1]

\* The entry at index of a table, or a new table (allocsetuppage) there.
Below(t, pg, index, new) ==
    IF index \in DOMAIN t[pg]
    THEN [t |-> t, pg |-> t[pg][index].pa, n |-> 0]
    ELSE [t |-> With([t EXCEPT ![pg] = With(@, index, Entry(new, {}))], new, Empty), pg |-> new, n |-> 1]

IsLeaf(t, pg, index) == index \in DOMAIN t[pg] /\ t[pg][index].perm # {}

\* One iteration of kvmmap: a 2 MiB page where it fits, or a page below tables that are
\* allocated as needed; panics on what is mapped already, or past the last setup page.
kvmmap ==
    LET vpn2 == PX2(map.va)
        vpn1 == PX1(map.va)
        vpn0 == PX0(map.va)
        new == NewPage
        l1 == Below(table, kernel_pagetable, vpn2, new)
        huge == vpn1 \notin DOMAIN l1.t[l1.pg] /\ map.va % E2M = 0 /\ map.pa % E2M = 0 /\ map.sz >= E2M
        l0 == Below(l1.t, l1.pg, vpn1, new + l1.n)
        n == IF huge THEN l1.n ELSE l1.n + l0.n
        step == IF huge THEN E2M ELSE 1
    IN
    /\ kpc = "kvmmap" /\ map.sz > 0
    /\ IF IsLeaf(table, kernel_pagetable, vpn2) \/ IsLeaf(l1.t, l1.pg, vpn1)
          \/ (~huge /\ vpn0 \in DOMAIN l0.t[l0.pg]) \/ (~kalloc_inited /\ setup + n > E2M)
       THEN kpc' = "panic" /\ UNCHANGED <<table, setup, taken, map>>
       ELSE /\ table' = IF huge
                        THEN [l1.t EXCEPT ![l1.pg] = With(@, vpn1, Entry(map.pa, map.perm))]
                        ELSE [l0.t EXCEPT ![l0.pg] = With(@, vpn0, Entry(map.pa, map.perm))]
            /\ allockernelpage(n)
            /\ map' = [map EXCEPT !.va = @ + step, !.pa = @ + step, !.sz = @ - step]
            /\ UNCHANGED kpc
    /\ UNCHANGED <<image, kalloc_inited, todo>>

kvmmap_return ==
    /\ kpc = "kvmmap" /\ map.sz = 0
    /\ kpc' = "calls"
    /\ map' = Region(0, 0, 0, {})
    /\ UNCHANGED <<image, table, setup, kalloc_inited, taken, todo>>

Next == bootcpu_start_relocation \/ kvmmake \/ next_call \/ kvmmap \/ kvmmap_return \/ last_call
====
